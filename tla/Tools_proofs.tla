---------------------------- MODULE Tools_proofs ----------------------------
(***************************************************************************)
(* The programs under tools/ and scripts/, each with the inductive         *)
(* invariant of its own specification:                                     *)
(*                                                                         *)
(*   BootInv        what an invocation under way has built is still there  *)
(*   ComplianceInv  images are those of the sources, results those of the  *)
(*                  invocation, and rows are as many as tests              *)
(*   UocInv         a tag is that of one head, and heads have been sealed  *)
(*   PathInv        where a bit points to a way, one on the other side of  *)
(*                  its node has been touched since                        *)
(*   PlatformInv    a row that is ready keeps its image                    *)
(*   EmitInv        the golden file is removed, or that of this invocation *)
(*   GuardInv       a row speaks of the log of its own simulation          *)
(*   SignoffInv     rows follow the selection, each with the log it read,  *)
(*                  and a directory of one run has no log of another       *)
(***************************************************************************)
EXTENDS BenchRun, RiscvTests, LinuxBoot, SimPlatform, UocRepack, Extremes_proofs,
        SequenceTheorems, FiniteSetTheorems, TLAPS

-----------------------------------------------------------------------------
\* run_linux_boot.py

FilesOf(n) == [BootFiles -> {{}} \union {{i} : i \in 0..n}]

\* What an invocation under way has built is still there.
BootInv ==
    /\ binary \in FilesOf(boots) /\ image \in FilesOf(boots) /\ boots \in Nat
    /\ DOMAIN uart = BootFiles
    /\ boot \subseteq [args : BootArgs, phase : {"sim", "image", "run"}, sim : Simulators]
    /\ boot # {} => booted = NotBooted
    /\ \A b \in boot :
          /\ b.phase # "sim" /\ b.args.build_sim => binary[b.args.made[b.sim]] = {boots}
          /\ b.phase = "run" /\ b.args.build => image[b.args.output] = {boots}
    /\ BootIsEarned /\ SummaryTells

\* An invocation that ends without having simulated.
LEMMA LeftUnrun ==
  ASSUME BootInv, NEW b \in boot, NEW status, NEW code, LeaveBoot(b, status, code, "none"),
         b.args.run => code # 0, status \in {"PASS", "BUILT", "NOOP"} <=> code = 0
  PROVE boot' = {} /\ BootIsEarned' /\ SummaryTells'
<1>1. /\ boot' = {} /\ booted' = [code |-> code, args |-> {b.args}, out |-> "none",
                                  sim |-> b.sim, boot |-> boots]
      /\ summary' = {[boot |-> boots, status |-> status]}
  BY DEF LeaveBoot
<1>2. \A args \in booted'.args : args = b.args
  BY <1>1
<1>3. booted'.code = code /\ booted'.boot = boots
  BY <1>1
<1>4. BootIsEarned'
  BY <1>2, <1>3 DEF BootIsEarned
<1>5. SummaryTells'
  BY <1>1, <1>3 DEF SummaryTells
<1> QED BY <1>1, <1>4, <1>5

\* The status PASS speaks of the log of a simulation that returned 0.
LEMMA PassIsEarned ==
  ASSUME NEW args, NEW log, NEW o, BootStatus(args, log, o) = "PASS"
  PROVE /\ BootOutcome[o].rc = 0
        /\ (Uart(log).said \union BootOutcome[o].printed) \cap Failures = {}
        /\ ~StaleCommit(args, o)
        /\ \/ args.pattern \cap (Uart(log).said \union BootOutcome[o].printed) # {}
           \/ args.target \in Uart(log).reached
<1>1. BootOutcome[o].rc = 0 /\ Classify(args, log, o) = "PASS"
  BY DEF BootStatus
<1> DEFINE all == Uart(log).said \union BootOutcome[o].printed
<1>2. ~(all \cap Failures # {}) /\ ~StaleCommit(args, o)
  BY <1>1 DEF Classify
<1>3. args.pattern \cap all # {} \/ Reached(args, log)
  BY <1>1, <1>2 DEF Classify
<1> QED BY <1>1, <1>2, <1>3 DEF Reached

\* A simulation that has ended.
LEMMA LeftRun ==
  ASSUME BootInv, NEW b \in boot, NEW o \in DOMAIN BootOutcome, RunBoot(b, o)
  PROVE BootInv'
<1> DEFINE status == BootStatus(b.args, uart'[b.args.log], o)
           code   == IF status = "PASS" THEN 0 ELSE 1
<1>1. /\ LeaveBoot(b, status, code, o)
      /\ uart' = IF Starts(b, o) THEN Log(b, o) ELSE uart
      /\ b.phase = "run" /\ Ready(b) /\ (BootOutcome[o].starts => Starts(b, o))
      /\ UNCHANGED <<binary, image, boots>>
  BY DEF RunBoot
<1>0. b.args \in BootArgs /\ b.args.console \in BootFiles
  BY BootAssumption DEF BootInv
<1> HIDE DEF status
<1>2. /\ boot' = {} /\ booted' = [code |-> code, args |-> {b.args}, out |-> o,
                                  sim |-> b.sim, boot |-> boots]
      /\ summary' = {[boot |-> boots, status |-> status]}
  BY <1>1 DEF LeaveBoot
<1>3. /\ \A args \in booted'.args : args = b.args
      /\ booted'.code = code /\ booted'.boot = boots /\ booted'.out = o /\ booted'.sim = b.sim
  BY <1>2
<1>4. status \in {"PASS", "FAIL", "TIMEOUT", "INCOMPLETE"}
  BY DEF status, BootStatus, Classify
<1>5. SummaryTells'
  <2> SUFFICES ASSUME NEW s \in summary'
               PROVE s.boot = booted'.boot
                     /\ (s.status \in {"PASS", "BUILT", "NOOP"} <=> booted'.code = 0)
    BY DEF SummaryTells
  <2>1. s.boot = boots /\ s.status = status
    BY <1>2
  <2> QED BY <1>3, <1>4, <2>1
<1> DEFINE r == BootOutcome[o]
           lines == Uart(uart'[b.args.log])
<1>6. ASSUME code = 0
      PROVE /\ r.starts /\ Starts(b, o) /\ r.rc = 0 /\ ~StaleCommit(b.args, o)
            /\ (lines.said \union r.printed) \cap Failures = {}
            /\ b.args.target \in lines.reached \/ b.args.pattern \cap (lines.said \union r.printed) # {}
  <2>1. status = "PASS"
    BY <1>6
  <2>2. /\ r.rc = 0 /\ ~StaleCommit(b.args, o)
        /\ (lines.said \union r.printed) \cap Failures = {}
        /\ b.args.target \in lines.reached \/ b.args.pattern \cap (lines.said \union r.printed) # {}
    BY <2>1, PassIsEarned DEF status
  <2>3. r.starts /\ Starts(b, o)
    BY <1>1, <2>2, BootAssumption
  <2> QED BY <2>2, <2>3
<1>7. ASSUME code = 0, b.args.log = b.args.console
      PROVE /\ uart'[b.args.log] = {[boot |-> boots, out |-> o]}
            /\ b.args.target \in r.reached \/ b.args.pattern \cap (r.said \union r.printed) # {}
            /\ r.said \cap Failures = {}
  <2> DEFINE log == uart'[b.args.log]
  <2>1. log = {[boot |-> boots, out |-> o]}
    BY <1>0, <1>1, <1>6, <1>7 DEF Log, BootInv
  <2>2. lines.said = r.said /\ lines.reached = r.reached
    <3> DEFINE l == CHOOSE x \in log : TRUE
    <3>1. log # {} /\ \A x \in log : x.out = o
      BY <2>1
    <3>2. lines = [reached |-> BootOutcome[l.out].reached, said |-> BootOutcome[l.out].said]
      BY <3>1 DEF Uart
    <3>3. BootOutcome[l.out] = r
      <4>1. l \in log
        BY <3>1
      <4> HIDE DEF l, log
      <4> QED BY <3>1, <4>1
    <3> HIDE DEF l, r, lines, log
    <3> QED BY <3>2, <3>3
  <2> HIDE DEF log, lines
  <2> QED BY <1>6, <1>7, <2>1, <2>2 DEF log
<1>8. ASSUME code = 0
      PROVE /\ binary[b.args.exec[b.sim]] # {} /\ image[b.args.image] # {}
            /\ b.args.build_sim /\ b.args.made[b.sim] = b.args.exec[b.sim] =>
                  binary[b.args.exec[b.sim]] = {boots}
            /\ b.args.build /\ b.args.output = b.args.image => image[b.args.image] = {boots}
  BY <1>1, <1>6, <1>8 DEF Ready, Starts, BootInv
<1> HIDE DEF lines, code
<1>9. BootIsEarned'
  <2> SUFFICES ASSUME NEW args \in booted'.args, booted'.code = 0
               PROVE LET p   == BootOutcome[booted'.out]
                         sim == args.exec[booted'.sim]
                     IN  /\ p.starts /\ p.rc = 0 /\ p.printed \cap Failures = {}
                         /\ ~StaleCommit(args, booted'.out)
                         /\ binary'[sim] # {} /\ image'[args.image] # {}
                         /\ args.log = args.console =>
                               /\ uart'[args.log] = {[boot |-> booted'.boot, out |-> booted'.out]}
                               /\ \/ args.target \in p.reached
                                  \/ args.pattern \cap (p.said \union p.printed) # {}
                               /\ p.said \cap Failures = {}
                         /\ args.build_sim /\ args.made[booted'.sim] = sim =>
                               binary'[sim] = {booted'.boot}
                         /\ args.build /\ args.output = args.image =>
                               image'[args.image] = {booted'.boot}
    BY DEF BootIsEarned, StaleCommit
  <2>1. args = b.args /\ code = 0
    BY <1>3
  <2>2. r.printed \cap Failures = {}
    BY <1>6, <2>1
  <2> HIDE DEF r
  <2> QED BY <1>1, <1>3, <1>6, <1>7, <1>8, <2>1, <2>2 DEF r
<1>10. DOMAIN uart' = BootFiles
  BY <1>1 DEF Log, BootInv
<1> QED BY <1>1, <1>2, <1>5, <1>9, <1>10 DEF BootInv

\* A file is the one of the invocation, or that of one before.
LEMMA BuiltSome ==
  ASSUME BootInv, NEW b \in boot, NEW one \in {{}, {boots}}
  PROVE /\ [binary EXCEPT ![b.args.made[b.sim]] = one] \in FilesOf(boots)
        /\ [image EXCEPT ![b.args.output] = one] \in FilesOf(boots)
        /\ b.args.made[b.sim] \in BootFiles /\ b.args.output \in BootFiles
<1>1. b.sim \in Simulators /\ boots \in 0..boots /\ b.args \in BootArgs
  BY DEF BootInv
<1>2. b.args.made[b.sim] \in BootFiles /\ b.args.output \in BootFiles
  BY <1>1, BootAssumption
<1> QED BY <1>1, <1>2 DEF BootInv, FilesOf

\* Each phase of the runner, and the steps between two invocations.
LEMMA BootStep ==
  ASSUME BootInv, BootNext PROVE BootInv'
<1>1. ASSUME NEW args \in BootArgs, StartBoot(args) PROVE BootInv'
  <2> PICK new : new = [args |-> args, phase |-> IF args.build_sim THEN "sim" ELSE "image",
                        sim |-> IF args.build_sim /\ args.simulator = "auto" THEN "dsim"
                                ELSE Chosen(args)]
    OBVIOUS
  <2>1. /\ boot' = {new} /\ booted' = NotBooted /\ boots' = boots + 1
        /\ UNCHANGED <<binary, image, uart, summary>>
    BY <1>1 DEF StartBoot
  <2>2. new.sim \in Simulators
    BY BootAssumption DEF Chosen, Simulators
  <2>3. new \in [args : BootArgs, phase : {"sim", "image", "run"}, sim : Simulators]
    BY <2>2
  <2>4. {{i} : i \in 0..boots} \subseteq {{i} : i \in 0..boots'}
    BY <2>1 DEF BootInv
  <2>5. BootIsEarned' /\ SummaryTells'
    BY <2>1 DEF BootIsEarned, SummaryTells, NotBooted
  <2>6. new.phase # "run" /\ (new.phase # "sim" => ~new.args.build_sim)
    OBVIOUS
  <2>7. /\ binary' \in FilesOf(boots') /\ image' \in FilesOf(boots') /\ boots' \in Nat
        /\ DOMAIN uart' = BootFiles
    BY <2>1, <2>4 DEF BootInv, FilesOf
  <2> QED BY <2>1, <2>3, <2>5, <2>6, <2>7 DEF BootInv
<1>2. ASSUME NEW b \in boot, BuildSim(b) PROVE BootInv'
  <2>0. b \in [args : BootArgs, phase : {"sim", "image", "run"}, sim : Simulators]
        /\ booted = NotBooted /\ UNCHANGED <<image, uart, boots>> /\ b.phase = "sim"
    BY <1>2 DEF BootInv, BuildSim
  <2>1. CASE /\ binary' = [binary EXCEPT ![b.args.made[b.sim]] = {boots}]
             /\ boot' = {[b EXCEPT !.phase = "image"]}
             /\ UNCHANGED <<summary, booted>>
    <3> PICK new : new = [b EXCEPT !.phase = "image"]
      OBVIOUS
    <3>1. /\ new \in [args : BootArgs, phase : {"sim", "image", "run"}, sim : Simulators]
          /\ new.phase = "image" /\ new.sim = b.sim /\ new.args = b.args
      BY <2>0
    <3>2. binary'[b.args.made[b.sim]] = {boots}
      BY <2>1, BuiltSome DEF BootInv, FilesOf
    <3>3. binary' \in FilesOf(boots)
      BY <2>1, BuiltSome
    <3>4. BootIsEarned' /\ SummaryTells'
      BY <2>0, <2>1 DEF BootIsEarned, SummaryTells, NotBooted
    <3> QED BY <2>0, <2>1, <3>1, <3>2, <3>3, <3>4 DEF BootInv
  <2>2. CASE \E licence \in BOOLEAN :
               /\ binary' \in {binary, [binary EXCEPT ![b.args.made[b.sim]] = {}]}
               /\ IF b.args.simulator = "auto" /\ b.sim = "dsim" /\ licence
                  THEN boot' = {[b EXCEPT !.sim = "verilator"]} /\ UNCHANGED <<summary, booted>>
                  ELSE LeaveBoot(b, "FAIL", 1, "none")
    <3>1. binary' \in FilesOf(boots)
      BY <2>2, BuiltSome DEF BootInv
    <3>2. CASE boot' = {[b EXCEPT !.sim = "verilator"]} /\ UNCHANGED <<summary, booted>>
      <4> PICK new : new = [b EXCEPT !.sim = "verilator"]
        OBVIOUS
      <4>1. /\ new \in [args : BootArgs, phase : {"sim", "image", "run"}, sim : Simulators]
            /\ new.phase = "sim"
        BY <2>0 DEF Simulators
      <4>2. BootIsEarned' /\ SummaryTells'
        BY <2>0, <3>2 DEF BootIsEarned, SummaryTells, NotBooted
      <4> QED BY <2>0, <3>1, <3>2, <4>1, <4>2 DEF BootInv
    <3>3. CASE LeaveBoot(b, "FAIL", 1, "none")
      BY <2>0, <3>1, <3>3, LeftUnrun DEF BootInv
    <3> QED BY <2>2, <3>2, <3>3
  <2> QED BY <1>2, <2>1, <2>2 DEF BuildSim
<1>3. ASSUME NEW b \in boot, BuildImage(b) PROVE BootInv'
  <2>0. b \in [args : BootArgs, phase : {"sim", "image", "run"}, sim : Simulators]
        /\ booted = NotBooted /\ UNCHANGED <<binary, uart, boots>> /\ b.phase = "image"
    BY <1>3 DEF BootInv, BuildImage
  <2>1. CASE /\ image' = [image EXCEPT ![b.args.output] = {boots}] /\ boot' = {[b EXCEPT !.phase = "run"]}
             /\ UNCHANGED <<summary, booted>>
    <3> PICK new : new = [b EXCEPT !.phase = "run"]
      OBVIOUS
    <3>1. /\ new \in [args : BootArgs, phase : {"sim", "image", "run"}, sim : Simulators]
          /\ new.args = b.args /\ new.sim = b.sim
      BY <2>0
    <3>2. b.args.build_sim => binary[b.args.made[b.sim]] = {boots}
      BY <2>0 DEF BootInv
    <3>3. image' \in FilesOf(boots) /\ image'[b.args.output] = {boots}
      BY <2>1, BuiltSome DEF BootInv, FilesOf
    <3>4. BootIsEarned' /\ SummaryTells'
      BY <2>0, <2>1 DEF BootIsEarned, SummaryTells, NotBooted
    <3> QED BY <2>0, <2>1, <3>1, <3>2, <3>3, <3>4 DEF BootInv
  <2>2. CASE /\ image' \in {image, [image EXCEPT ![b.args.output] = {}]}
             /\ LeaveBoot(b, "FAIL", 1, "none")
    <3>1. image' \in FilesOf(boots)
      BY <2>2, BuiltSome DEF BootInv
    <3> QED BY <2>0, <2>2, <3>1, LeftUnrun DEF BootInv
  <2> QED BY <1>3, <2>1, <2>2 DEF BuildImage
<1>4. ASSUME NEW b \in boot, SkipImage(b) PROVE BootInv'
  <2>0. b \in [args : BootArgs, phase : {"sim", "image", "run"}, sim : Simulators]
        /\ booted = NotBooted /\ UNCHANGED <<binary, image, uart, summary, booted, boots>>
        /\ b.phase = "image" /\ ~b.args.build /\ boot' = {[b EXCEPT !.phase = "run"]}
    BY <1>4 DEF BootInv, SkipImage
  <2> PICK new : new = [b EXCEPT !.phase = "run"]
    OBVIOUS
  <2>1. /\ new \in [args : BootArgs, phase : {"sim", "image", "run"}, sim : Simulators]
        /\ new.args = b.args /\ new.sim = b.sim
    BY <2>0
  <2>2. b.args.build_sim => binary[b.args.made[b.sim]] = {boots}
    BY <2>0 DEF BootInv
  <2>3. BootIsEarned' /\ SummaryTells'
    BY <2>0 DEF BootIsEarned, SummaryTells, NotBooted
  <2> QED BY <2>0, <2>1, <2>2, <2>3 DEF BootInv
<1>5. ASSUME NEW b \in boot, NoRun(b) PROVE BootInv'
  <2>1. \E status, code : /\ LeaveBoot(b, status, code, "none") /\ (b.args.run => code # 0)
                          /\ status \in {"PASS", "BUILT", "NOOP"} <=> code = 0
    <3>1. CASE ~b.args.run
               /\ LeaveBoot(b, IF b.args.build \/ b.args.build_sim THEN "BUILT" ELSE "NOOP", 0, "none")
      BY <3>1
    <3>2. CASE b.args.run /\ LeaveBoot(b, IF image[b.args.image] = {} THEN "FAIL" ELSE "BLOCKED", 2, "none")
      BY <3>2
    <3> QED BY <1>5, <3>1, <3>2 DEF NoRun
  <2>2. boot' = {} /\ BootIsEarned' /\ SummaryTells'
    BY <2>1, LeftUnrun
  <2>3. UNCHANGED <<binary, image, uart, boots>>
    BY <1>5 DEF NoRun
  <2> QED BY <2>2, <2>3 DEF BootInv
<1>6. ASSUME NEW b \in boot, NEW o, InterruptBoot(b, o) PROVE BootInv'
  <2>1. boot' = {} /\ booted = NotBooted /\ UNCHANGED <<binary, image, summary, booted, boots>>
    BY <1>6 DEF BootInv, InterruptBoot
  <2>2. BootIsEarned' /\ SummaryTells'
    BY <2>1 DEF BootIsEarned, SummaryTells, NotBooted
  <2>3. DOMAIN uart' = BootFiles
    BY <1>6 DEF InterruptBoot, Log, BootInv
  <2> QED BY <2>1, <2>2, <2>3 DEF BootInv
<1> QED BY <1>1, <1>2, <1>3, <1>4, <1>5, <1>6, LeftRun DEF BootNext

\* What an invocation has built stays, and what was reported was earned.
LEMMA BootInvariant == BootSpec => []BootInv
<1>1. BootInit => BootInv
  <2> SUFFICES ASSUME BootInit PROVE BootInv
    OBVIOUS
  <2>1. 0 \in 0..0
    OBVIOUS
  <2> QED BY <2>1 DEF BootInit, BootInv, FilesOf, NotBooted, BootIsEarned, SummaryTells
<1>2. BootInv /\ [BootNext]_bootVars => BootInv'
  <2>1. ASSUME BootInv, UNCHANGED bootVars PROVE BootInv'
    BY <2>1 DEF bootVars, BootInv, BootIsEarned, SummaryTells
  <2> QED BY <2>1, BootStep
<1> QED BY <1>1, <1>2, PTL DEF BootSpec

\* An invocation of run_linux_boot.py that returns 0 for a boot has simulated it:
\* the log it judged is that of its own simulation, which returned 0 without a
\* failure, and the simulator and the image were there.  What it has just built is
\* what it ran where the builds write the files that the options name.
THEOREM BootsAreEarned == BootSpec => []BootIsEarned
<1>1. BootInv => BootIsEarned
  BY DEF BootInv
<1> QED BY <1>1, BootInvariant, PTL

\* The summary that run_linux_boot.py leaves is that of the last invocation that
\* was not interrupted, and reports success exactly if that one returned 0.
THEOREM SummariesTell == BootSpec => []SummaryTells
<1>1. BootInv => SummaryTells
  BY DEF BootInv
<1> QED BY <1>1, BootInvariant, PTL

-----------------------------------------------------------------------------
\* run_rv64gc_compliance.py

N == Len(TestSeq)
Phases == {"elf", "hex", "sim", "rows", "score", "report"}
Scoring == {"rows", "score", "report"}

\* What is left to do is the end of the tests, and these are the others.
IsRest(todo) ==
    /\ todo \in Seq(Tests) /\ Len(todo) <= N
    /\ \A i \in 1..Len(todo) : todo[i] = TestSeq[N - Len(todo) + i]
Before(todo) == {TestSeq[i] : i \in 1..(N - Len(todo))}

\* A row for each of some tests.
RowsOf(rows, tests, n) ==
    /\ IsFiniteSet(rows) /\ Cardinality(rows) <= n
    /\ {row.test : row \in rows} = tests

\* The images are those of the sources as the invocation found them.
Built(c) ==
    /\ c.phase = "elf" => \A t \in Before(c.todo) : hex[t] = c.source[t]
    /\ c.phase = "hex" =>
          /\ elf[Head(c.todo)] = c.source[Head(c.todo)]
          /\ \A t \in Before(c.todo) : t # Head(c.todo) => hex[t] = c.source[t]
    /\ c.phase = "sim" \/ c.phase \in Scoring => \A t \in Tests : hex[t] = c.source[t]

\* Where no log of another simulation can be found, the logs, also those the rows
\* were scored from, are of simulations of this invocation and of the images.
Logged(c) ==
    /\ rootLog = {}
    /\ \A t \in Tests : \A l \in logs[t] :
          c.phase \in Scoring /\ l.call = calls /\ l.image = hex[t]
    /\ \A row \in c.rows : \A l \in row.log : l.call = calls /\ l.image = hex[row.test]

\* The results that are there are those of this invocation, or it has none.
ResultsOf(c) ==
    \/ c.rows # {} /\ results = {[call |-> calls, rows |-> c.rows]}
    \/ c.rows = {} /\ (c.args.fresh => results = {})

TestLog == [call : Nat, image : SUBSET Nat, pass : BOOLEAN]
TestRow == [test : Tests, pass : BOOLEAN, log : SUBSET TestLog]
Calls == [args : ComplianceArgs, todo : Seq(Tests), rc : {0, 1}, rows : SUBSET TestRow,
          phase : Phases, alone : BOOLEAN, source : [Tests -> SUBSET Nat]]

CallInv(c) ==
    /\ c \in Calls /\ IsRest(c.todo)
    /\ c.phase \in {"hex", "score"} => c.todo # <<>>
    /\ c.phase \in {"elf", "hex", "sim"} => c.rows = {}
    /\ c.phase \in Scoring => RowsOf(c.rows, Before(c.todo), N - Len(c.todo))
    /\ \A row \in c.rows : row.pass => row.log # {}
    /\ c.alone => c.args.fresh /\ Logged(c)
    /\ ResultsOf(c)
    /\ c.phase = "report" /\ c.rc = 0 => c.todo = <<>> /\ \A row \in c.rows : row.pass
    /\ c.args.force /\ ~c.args.no_build => Built(c)

FilesInv ==
    /\ source \in [Tests -> Nat] /\ elf \in [Tests -> SUBSET Nat] /\ hex \in [Tests -> SUBSET Nat]
    /\ logs \in [Tests -> SUBSET TestLog] /\ rootLog \in SUBSET TestLog
    /\ calls \in Nat
    /\ \A r \in results : r.rows # {} /\ IsFiniteSet(r.rows)
    /\ \A r \in report : r.call \in Nat /\ r.call <= calls

ComplianceInv ==
    /\ FilesInv
    /\ \A c \in call : CallInv(c)
    /\ call # {} => done = Failed /\ \A r \in report : r.call < calls
    /\ ClaimIsEarned /\ ForcedTestsSources

-----------------------------------------------------------------------------
\* Where the loops over the tests begin and end, and how they go on.
LEMMA RestTurns ==
  /\ IsRest(TestSeq) /\ Before(TestSeq) = {} /\ N - Len(TestSeq) = 0
  /\ IsRest(<<>>) /\ Before(<<>>) = Tests
  /\ \A s : IsRest(s) => Before(s) \subseteq Tests
  /\ \A s : IsRest(s) /\ s # <<>> =>
        /\ Head(s) \in Tests /\ IsRest(Tail(s))
        /\ Before(Tail(s)) = Before(s) \union {Head(s)}
        /\ N - Len(Tail(s)) = N - Len(s) + 1
<1>0. TestSeq \in Seq(Tests) /\ N \in Nat /\ N = Len(TestSeq) /\ DOMAIN TestSeq = 1..N
  BY ComplianceAssumption DEF N
<1>1. IsRest(TestSeq) /\ Before(TestSeq) = {} /\ N - Len(TestSeq) = 0
  BY <1>0 DEF IsRest, Before
<1>2. IsRest(<<>>) /\ Before(<<>>) = Tests
  BY <1>0 DEF IsRest, Before, Tests
<1>3. ASSUME NEW s, IsRest(s), s # <<>>
      PROVE /\ Head(s) \in Tests /\ IsRest(Tail(s))
            /\ Before(Tail(s)) = Before(s) \union {Head(s)}
            /\ N - Len(Tail(s)) = N - Len(s) + 1
  <2>1. /\ s \in Seq(Tests) /\ Len(s) \in Nat /\ Len(s) > 0 /\ Len(s) <= N
        /\ \A i \in 1..Len(s) : s[i] = TestSeq[N - Len(s) + i]
    BY <1>3 DEF IsRest
  <2>2. /\ Tail(s) \in Seq(Tests) /\ Len(Tail(s)) = Len(s) - 1
        /\ \A i \in 1..(Len(s) - 1) : Tail(s)[i] = s[i + 1]
        /\ Head(s) = s[1] /\ Head(s) \in Tests
    BY <2>1
  <2>3. Head(s) = TestSeq[N - Len(s) + 1]
    BY <2>1, <2>2
  <2>4. N - Len(Tail(s)) = N - Len(s) + 1
    BY <1>0, <2>1, <2>2
  <2>5. \A i \in 1..(Len(s) - 1) : Tail(s)[i] = TestSeq[N - Len(Tail(s)) + i]
    BY <1>0, <2>1, <2>2
  <2>6. IsRest(Tail(s))
    BY <1>0, <2>1, <2>2, <2>5 DEF IsRest
  <2>7. 1..(N - Len(Tail(s))) = 1..(N - Len(s)) \union {N - Len(s) + 1}
    BY <1>0, <2>1, <2>4
  <2>8. Before(Tail(s)) = Before(s) \union {TestSeq[N - Len(s) + 1]}
    BY <2>7 DEF Before
  <2> QED BY <2>2, <2>3, <2>4, <2>6, <2>8
<1>4. ASSUME NEW s, IsRest(s) PROVE Before(s) \subseteq Tests
  <2>1. Len(s) \in Nat /\ Len(s) <= N
    BY <1>4 DEF IsRest
  <2>2. 1..(N - Len(s)) \subseteq 1..N
    BY <1>0, <2>1
  <2> QED BY <1>0, <2>2 DEF Before, Tests
<1> QED BY <1>1, <1>2, <1>3, <1>4

\* An invocation that is not over claims nothing.
LEMMA NotYet ==
  ASSUME ComplianceInv, call # {}
  PROVE done = Failed /\ ~Ran /\ \A r \in report : r.call < calls
BY DEF ComplianceInv, Ran, Failed

\* What is still claimed when an invocation goes on or is stopped.
LEMMA NothingClaimed ==
  ASSUME calls' \in Nat, \A r \in report' : r.call \in Nat, done' = Failed,
         call' # {} \/ \A r \in report' : r.call < calls'
  PROVE ClaimIsEarned' /\ ForcedTestsSources'
<1>1. ~Ran'
  BY DEF Ran, Failed
<1>2. ForcedTestsSources'
  BY <1>1 DEF ForcedTestsSources
<1>3. ASSUME call' = {} PROVE \A r \in report' : r.call # calls'
  BY <1>3
<1>4. ClaimIsEarned'
  BY <1>1, <1>3 DEF ClaimIsEarned
<1> QED BY <1>2, <1>4

\* A step that goes on with the invocation: only the files and the record of
\* the invocation matter.
LEMMA GoesOn ==
  ASSUME ComplianceInv, NEW c \in call, NEW d, call' = {d}, CallInv(d)',
         UNCHANGED <<report, done, calls>>, FilesInv'
  PROVE ComplianceInv'
<1>1. done' = Failed /\ \A r \in report' : r.call < calls' /\ r.call \in Nat
  BY NotYet DEF FilesInv
<1>2. calls' \in Nat
  BY DEF FilesInv
<1>3. ClaimIsEarned' /\ ForcedTestsSources'
  BY <1>1, <1>2, NothingClaimed
<1> QED BY <1>1, <1>3 DEF ComplianceInv

\* A step that fails.
LEMMA Fails ==
  ASSUME ComplianceInv, NEW c \in call, Leave(c, 1), UNCHANGED <<report, calls>>, FilesInv'
  PROVE ComplianceInv'
<1>1. call' = {} /\ done' = Failed /\ \A r \in report' : r.call < calls' /\ r.call \in Nat
  BY NotYet DEF Leave, FilesInv
<1>2. calls' \in Nat
  BY DEF FilesInv
<1>3. ClaimIsEarned' /\ ForcedTestsSources'
  BY <1>1, <1>2, NothingClaimed
<1> QED BY <1>1, <1>3 DEF ComplianceInv

\* An invocation starts; --fresh takes away the results first.
LEMMA StartComplianceStep ==
  ASSUME ComplianceInv, NEW args \in ComplianceArgs, StartCompliance(args)
  PROVE ComplianceInv'
<1> PICK d : d = [args |-> args, todo |-> TestSeq, rc |-> 0, rows |-> {},
                  phase |-> IF args.no_build THEN "sim" ELSE "elf",
                  alone |-> args.fresh /\ rootLog = {},
                  source |-> [t \in Tests |-> {}]]
  OBVIOUS
<1>1. /\ call' = {d} /\ calls' = calls + 1 /\ done' = Failed
      /\ results' = IF args.fresh THEN {} ELSE results
      /\ logs' = IF args.fresh THEN NotBuilt ELSE logs
      /\ UNCHANGED <<source, elf, hex, listed, rootLog, report>>
  BY DEF StartCompliance
<1>2. FilesInv' /\ \A r \in report' : r.call < calls' /\ r.call \in Nat
  BY <1>1 DEF ComplianceInv, FilesInv, NotBuilt
<1>3. calls' \in Nat
  BY <1>2 DEF FilesInv
<1>4. ClaimIsEarned' /\ ForcedTestsSources'
  BY <1>1, <1>2, <1>3, NothingClaimed
<1>5. d \in Calls
  <2> DEFINE alone == args.fresh /\ rootLog = {}
  <2>1. alone \in BOOLEAN
    OBVIOUS
  <2> HIDE DEF alone
  <2>2. d = [args |-> args, todo |-> TestSeq, rc |-> 0, rows |-> {},
             phase |-> IF args.no_build THEN "sim" ELSE "elf",
             alone |-> alone, source |-> [t \in Tests |-> {}]]
    BY DEF alone
  <2> QED BY <2>1, <2>2, ComplianceAssumption DEF Calls, Phases
<1>6. IsRest(d.todo) /\ Before(d.todo) = {}
  BY RestTurns
<1>7. ResultsOf(d)'
  BY <1>1 DEF ResultsOf
<1>8. d.args.force /\ ~d.args.no_build => Built(d)'
  BY <1>6 DEF Built, Scoring
<1>9. d.alone => d.args.fresh /\ Logged(d)'
  BY <1>1 DEF Logged, NotBuilt
<1>10. CallInv(d)'
  BY <1>5, <1>6, <1>7, <1>8, <1>9 DEF CallInv, Scoring
<1> QED BY <1>1, <1>2, <1>4, <1>10 DEF ComplianceInv

\* Somebody edits a source while an invocation goes on.
LEMMA EditSourceStep ==
  ASSUME ComplianceInv, NEW t \in Tests, EditSource(t)
  PROVE ComplianceInv'
<1>1. /\ source' = [source EXCEPT ![t] = @ + 1]
      /\ UNCHANGED <<elf, hex, listed, logs, rootLog, results, report, call, done, calls>>
  BY DEF EditSource
<1>2. FilesInv'
  BY <1>1 DEF ComplianceInv, FilesInv
<1>3. \A c \in call' : CallInv(c)'
  BY <1>1 DEF ComplianceInv, CallInv, ResultsOf, Built, Logged
<1>4. ClaimIsEarned' /\ ForcedTestsSources'
  BY <1>1 DEF ComplianceInv, ClaimIsEarned, ForcedTestsSources, Ran
<1> QED BY <1>1, <1>2, <1>3, <1>4 DEF ComplianceInv

\* Somebody runs the simulator by hand, while no invocation is under way.
LEMMA TestByHandStep ==
  ASSUME ComplianceInv, NEW pass \in BOOLEAN, TestByHand(pass)
  PROVE ComplianceInv'
<1>1. /\ call = {} /\ rootLog' = {[call |-> 0, image |-> {}, pass |-> pass]}
      /\ UNCHANGED <<source, elf, hex, listed, logs, results, report, call, done, calls>>
  BY DEF TestByHand
<1>2. FilesInv'
  BY <1>1 DEF ComplianceInv, FilesInv, TestLog
<1>3. ClaimIsEarned' /\ ForcedTestsSources'
  BY <1>1 DEF ComplianceInv, ClaimIsEarned, ForcedTestsSources, Ran
<1> QED BY <1>1, <1>2, <1>3 DEF ComplianceInv

\* The compiler: the image that will be converted is that of the source.
LEMMA BuildElfStep ==
  ASSUME ComplianceInv, NEW c \in call, BuildElf(c)
  PROVE ComplianceInv'
<1> DEFINE t == Head(c.todo)
<1>1. /\ c \in Calls /\ IsRest(c.todo) /\ c.phase = "elf" /\ c.todo # <<>> /\ c.rows = {}
      /\ ResultsOf(c) /\ (c.args.force /\ ~c.args.no_build => Built(c))
      /\ (c.alone => c.args.fresh /\ Logged(c))
      /\ UNCHANGED <<source, hex, listed, logs, rootLog, results, report, calls>>
  BY DEF BuildElf, ComplianceInv, CallInv
<1>2. t \in Tests
  BY <1>1, RestTurns
<1>3. FilesInv
  BY DEF ComplianceInv
<1>4. {source[t]} \in SUBSET Nat
  BY <1>2, <1>3 DEF FilesInv
<1> HIDE DEF t
<1>5. CASE /\ elf' = IF c.args.force \/ elf[t] = {} THEN [elf EXCEPT ![t] = {source[t]}] ELSE elf
           /\ call' = {[c EXCEPT !.phase = "hex", !.source[t] = {source[t]}]}
           /\ UNCHANGED done
  <2> PICK d : d = [c EXCEPT !.phase = "hex", !.source[t] = {source[t]}]
    OBVIOUS
  <2>1. FilesInv'
    BY <1>1, <1>2, <1>3, <1>4, <1>5 DEF FilesInv
  <2>2. /\ d \in Calls /\ d.phase = "hex" /\ d.todo = c.todo /\ d.rows = {} /\ d.args = c.args
        /\ d.alone = c.alone /\ d.source = [c.source EXCEPT ![t] = {source[t]}]
    BY <1>1, <1>2, <1>4 DEF Calls, Phases
  <2>3. ResultsOf(d)'
    BY <1>1, <2>2 DEF ResultsOf
  <2>4. ASSUME c.args.force, ~c.args.no_build PROVE Built(d)'
    <3>1. \A u \in Before(c.todo) : hex[u] = c.source[u] /\ u \in Tests
      BY <1>1, <2>4, RestTurns DEF Built
    <3>2. elf'[t] = {source[t]} /\ d.source[t] = {source[t]}
      BY <1>1, <1>2, <1>3, <1>5, <2>2, <2>4 DEF FilesInv, Calls
    <3>3. \A u \in Before(c.todo) : u # t => hex'[u] = d.source[u]
      BY <1>1, <2>2, <3>1 DEF Calls
    <3> QED BY <2>2, <3>2, <3>3 DEF Built, Scoring, t
  <2>5. d.alone => d.args.fresh /\ Logged(d)'
    BY <1>1, <2>2 DEF Logged, Scoring
  <2>6. CallInv(d)'
    BY <1>1, <2>2, <2>3, <2>4, <2>5 DEF CallInv, Scoring
  <2> QED BY <1>1, <1>5, <2>1, <2>6, GoesOn
<1>6. CASE elf' \in {elf, [elf EXCEPT ![t] = {}]} /\ Leave(c, 1)
  <2>1. FilesInv'
    BY <1>1, <1>3, <1>6 DEF FilesInv
  <2> QED BY <1>1, <1>6, <2>1, Fails
<1> QED BY <1>5, <1>6 DEF BuildElf, t

\* The converter: one test more is done.
LEMMA BuildHexStep ==
  ASSUME ComplianceInv, NEW c \in call, BuildHex(c)
  PROVE ComplianceInv'
<1> DEFINE t == Head(c.todo)
<1>1. /\ c \in Calls /\ IsRest(c.todo) /\ c.phase = "hex" /\ c.todo # <<>> /\ c.rows = {}
      /\ ResultsOf(c) /\ (c.args.force /\ ~c.args.no_build => Built(c))
      /\ (c.alone => c.args.fresh /\ Logged(c))
      /\ UNCHANGED <<source, elf, listed, logs, rootLog, results, report, calls>>
  BY DEF BuildHex, ComplianceInv, CallInv
<1>2. /\ t \in Tests /\ IsRest(Tail(c.todo))
      /\ Before(Tail(c.todo)) = Before(c.todo) \union {t}
  BY <1>1, RestTurns
<1>3. FilesInv
  BY DEF ComplianceInv
<1> HIDE DEF t
<1>5. CASE /\ hex' = IF Rebuilds(c, hex[t]) THEN [hex EXCEPT ![t] = elf[t]] ELSE hex
           /\ call' = {[c EXCEPT !.phase = "elf", !.todo = Tail(@)]}
           /\ UNCHANGED done
  <2> PICK d : d = [c EXCEPT !.phase = "elf", !.todo = Tail(@)]
    OBVIOUS
  <2>1. FilesInv'
    BY <1>1, <1>2, <1>3, <1>5 DEF FilesInv
  <2>2. /\ d \in Calls /\ d.phase = "elf" /\ d.todo = Tail(c.todo) /\ d.rows = {}
        /\ d.args = c.args /\ d.alone = c.alone /\ d.source = c.source
    BY <1>1, <1>2 DEF Calls, Phases, IsRest
  <2>3. ResultsOf(d)'
    BY <1>1, <2>2 DEF ResultsOf
  <2>4. ASSUME c.args.force, ~c.args.no_build PROVE Built(d)'
    <3>1. /\ \A u \in Before(c.todo) : u # t => hex[u] = c.source[u]
          /\ elf[t] = c.source[t]
      BY <1>1, <2>4 DEF Built, t
    <3>2. hex' = [hex EXCEPT ![t] = elf[t]]
      BY <1>5, <2>4 DEF Rebuilds
    <3>3. \A u \in Before(c.todo) : u \in Tests
      BY <1>1, RestTurns
    <3>4. \A u \in Before(Tail(c.todo)) : hex'[u] = c.source[u]
      BY <1>2, <1>3, <3>1, <3>2, <3>3 DEF FilesInv
    <3> QED BY <2>2, <3>4 DEF Built, Scoring
  <2>5. d.alone => d.args.fresh /\ Logged(d)'
    BY <1>1, <2>2 DEF Logged, Scoring
  <2>6. CallInv(d)'
    BY <1>1, <1>2, <2>2, <2>3, <2>4, <2>5 DEF CallInv, Scoring
  <2> QED BY <1>1, <1>5, <2>1, <2>6, GoesOn
<1>6. CASE hex' \in {hex, [hex EXCEPT ![t] = {Truncated}]} /\ Leave(c, 1)
  <2>1. {Truncated} \in SUBSET Nat
    BY ComplianceAssumption DEF Truncated
  <2>2. FilesInv'
    BY <1>1, <1>3, <1>6, <2>1 DEF FilesInv
  <2> QED BY <1>1, <1>6, <2>2, Fails
<1> QED BY <1>5, <1>6 DEF BuildHex, t

\* After the last test everything has been built.
LEMMA WriteManifestStep ==
  ASSUME ComplianceInv, NEW c \in call, WriteManifest(c)
  PROVE ComplianceInv'
<1>1. /\ c \in Calls /\ c.phase = "elf" /\ c.todo = <<>> /\ c.rows = {}
      /\ ResultsOf(c) /\ (c.args.force /\ ~c.args.no_build => Built(c))
      /\ (c.alone => c.args.fresh /\ Logged(c))
      /\ UNCHANGED <<source, elf, hex, logs, rootLog, results, report, calls>>
  BY DEF WriteManifest, ComplianceInv, CallInv
<1>2. FilesInv'
  BY <1>1 DEF ComplianceInv, FilesInv
<1>3. CASE c.args.build_only /\ Leave(c, 0)
  <2>1. call' = {} /\ done'.args = {c.args}
    BY <1>3 DEF Leave
  <2>2. ~Ran'
    BY <1>3, <2>1 DEF Ran
  <2>3. \A r \in report' : r.call # calls'
    <3>1. \A r \in report : r.call < calls /\ r.call \in Nat /\ calls \in Nat
      BY NotYet DEF ComplianceInv, FilesInv
    <3> QED BY <1>1, <3>1
  <2>4. ClaimIsEarned' /\ ForcedTestsSources'
    BY <2>2, <2>3 DEF ClaimIsEarned, ForcedTestsSources
  <2> QED BY <1>2, <2>1, <2>4 DEF ComplianceInv
<1>4. CASE call' = {[c EXCEPT !.phase = "sim"]} /\ UNCHANGED done
  <2> PICK d : d = [c EXCEPT !.phase = "sim"]
    OBVIOUS
  <2>1. /\ d \in Calls /\ d.phase = "sim" /\ d.todo = <<>> /\ d.rows = {}
        /\ d.args = c.args /\ d.alone = c.alone /\ d.source = c.source
    BY <1>1 DEF Calls, Phases
  <2>2. ResultsOf(d)'
    BY <1>1, <2>1 DEF ResultsOf
  <2>3. ASSUME c.args.force, ~c.args.no_build PROVE Built(d)'
    BY <1>1, <2>1, <2>3, RestTurns DEF Built, Scoring
  <2>4. d.alone => d.args.fresh /\ Logged(d)'
    BY <1>1, <2>1 DEF Logged, Scoring
  <2>5. CallInv(d)'
    BY <2>1, <2>2, <2>3, <2>4, RestTurns DEF CallInv, Scoring
  <2> QED BY <1>1, <1>2, <1>4, <2>5, GoesOn
<1> QED BY <1>3, <1>4 DEF WriteManifest

\* The simulations start, over the images that are there.
LEMMA StartRowsStep ==
  ASSUME ComplianceInv, NEW c \in call, NEW rc \in {0, 1}, StartRows(c, rc)
  PROVE ComplianceInv'
<1> PICK d : d = [c EXCEPT !.phase = IF rc = 0 THEN "rows" ELSE "report", !.rc = rc,
                           !.todo = TestSeq]
  OBVIOUS
<1>1. /\ c \in Calls /\ c.phase = "sim" /\ c.rows = {}
      /\ ResultsOf(c) /\ (c.args.force /\ ~c.args.no_build => Built(c))
      /\ (c.alone => c.args.fresh /\ Logged(c))
      /\ UNCHANGED <<source, elf, hex, listed, logs, rootLog, results, report, done, calls>> /\ call' = {d}
  BY DEF StartRows, ComplianceInv, CallInv
<1>2. FilesInv'
  BY <1>1 DEF ComplianceInv, FilesInv
<1>3. /\ d \in Calls /\ d.phase = IF rc = 0 THEN "rows" ELSE "report"
      /\ d.todo = TestSeq /\ d.rows = {} /\ d.rc = rc
      /\ d.args = c.args /\ d.alone = c.alone /\ d.source = c.source
  BY <1>1, ComplianceAssumption DEF Calls, Phases
<1>4. ResultsOf(d)'
  BY <1>1, <1>3 DEF ResultsOf
<1>5. ASSUME c.args.force, ~c.args.no_build PROVE Built(d)'
  BY <1>1, <1>3, <1>5 DEF Built, Scoring
<1>6. RowsOf(d.rows, Before(d.todo), N - Len(d.todo))
  <2>1. RowsOf({}, {}, 0)
    BY FS_EmptySet DEF RowsOf
  <2> QED BY <1>3, <2>1, RestTurns
<1>7. d.alone => d.args.fresh /\ Logged(d)'
  BY <1>1, <1>3 DEF Logged, Scoring
<1>8. CallInv(d)'
  BY <1>3, <1>4, <1>5, <1>6, <1>7, RestTurns DEF CallInv, Scoring
<1> QED BY <1>1, <1>2, <1>8, GoesOn

\* A simulation: its log is that of this invocation and of the image that is there.
LEMMA SimulateTestStep ==
  ASSUME ComplianceInv, NEW c \in call, NEW launched \in BOOLEAN, NEW pass \in BOOLEAN,
         SimulateTest(c, launched, pass)
  PROVE ComplianceInv'
<1> DEFINE t == Head(c.todo)
           log == [call |-> calls, image |-> hex[t], pass |-> pass]
<1> PICK d : d = [c EXCEPT !.phase = "score"]
  OBVIOUS
<1>1. /\ c \in Calls /\ IsRest(c.todo) /\ c.phase = "rows" /\ c.todo # <<>> /\ ResultsOf(c)
      /\ RowsOf(c.rows, Before(c.todo), N - Len(c.todo))
      /\ \A row \in c.rows : row.pass => row.log # {}
      /\ (c.args.force /\ ~c.args.no_build => Built(c))
      /\ (c.alone => c.args.fresh /\ Logged(c))
      /\ UNCHANGED <<source, elf, hex, listed, rootLog, results, report, done, calls>>
      /\ call' = {d} /\ logs' = IF launched THEN [logs EXCEPT ![t] = {log}] ELSE logs
  BY DEF SimulateTest, ComplianceInv, CallInv, Scoring
<1>2. t \in Tests
  BY <1>1, RestTurns
<1>3. FilesInv
  BY DEF ComplianceInv
<1>4. log \in TestLog /\ log.call = calls /\ log.image = hex[t]
  BY <1>2, <1>3 DEF FilesInv, TestLog
<1> HIDE DEF t, log
<1>5. FilesInv'
  BY <1>1, <1>2, <1>3, <1>4 DEF FilesInv
<1>6. /\ d \in Calls /\ d.phase = "score" /\ d.todo = c.todo /\ d.rows = c.rows
      /\ d.args = c.args /\ d.alone = c.alone /\ d.source = c.source
  BY <1>1 DEF Calls, Phases
<1>7. ResultsOf(d)'
  BY <1>1, <1>6 DEF ResultsOf
<1>8. ASSUME c.args.force, ~c.args.no_build PROVE Built(d)'
  BY <1>1, <1>6, <1>8 DEF Built, Scoring
<1>9. ASSUME c.alone PROVE Logged(d)'
  <2>1. ASSUME NEW u \in Tests, NEW l \in logs'[u] PROVE l.call = calls /\ l.image = hex[u]
    <3>1. (l = log /\ u = t) \/ l \in logs[u]
      BY <1>1, <1>2, <1>3, <2>1 DEF FilesInv
    <3> QED BY <1>1, <1>4, <1>9, <3>1 DEF Logged
  <2> QED BY <1>1, <1>6, <1>9, <2>1 DEF Logged, Scoring
<1>10. CallInv(d)'
  BY <1>1, <1>6, <1>7, <1>8, <1>9 DEF CallInv, Scoring
<1> QED BY <1>1, <1>5, <1>10, GoesOn

\* A row more: it is written as it is added.
LEMMA ScoreTestStep ==
  ASSUME ComplianceInv, NEW c \in call, ScoreTest(c)
  PROVE ComplianceInv'
<1> DEFINE t == Head(c.todo)
           row == [test |-> t, pass |-> \E l \in LogOf(t) : l.pass, log |-> LogOf(t)]
           rows == c.rows \union {row}
<1>1. /\ c \in Calls /\ IsRest(c.todo) /\ c.phase = "score" /\ c.todo # <<>>
      /\ RowsOf(c.rows, Before(c.todo), N - Len(c.todo))
      /\ \A r \in c.rows : r.pass => r.log # {}
      /\ (c.args.force /\ ~c.args.no_build => Built(c))
      /\ (c.alone => c.args.fresh /\ Logged(c))
      /\ UNCHANGED <<source, elf, hex, listed, logs, rootLog, report, done, calls>>
  BY DEF ScoreTest, ComplianceInv, CallInv, Scoring
<1>2. /\ t \in Tests /\ IsRest(Tail(c.todo))
      /\ Before(Tail(c.todo)) = Before(c.todo) \union {t}
      /\ N - Len(Tail(c.todo)) = N - Len(c.todo) + 1
  BY <1>1, RestTurns
<1>3. FilesInv
  BY DEF ComplianceInv
<1>4. /\ results' = {[call |-> calls, rows |-> rows]}
      /\ call' = {[c EXCEPT !.phase = "rows", !.rows = rows, !.todo = Tail(@)]}
  BY DEF ScoreTest
<1>5. /\ row \in TestRow /\ row.test = t /\ row.log \in {logs[t], rootLog}
      /\ row.pass => row.log # {}
  <2> DEFINE pass == \E l \in LogOf(t) : l.pass
  <2>1. LogOf(t) \in {logs[t], rootLog} /\ LogOf(t) \in SUBSET TestLog
    BY <1>2, <1>3 DEF LogOf, FilesInv
  <2>2. pass \in BOOLEAN /\ (pass => LogOf(t) # {})
    OBVIOUS
  <2>3. row = [test |-> t, pass |-> pass, log |-> LogOf(t)]
    OBVIOUS
  <2> HIDE DEF t, row, pass
  <2> QED BY <1>2, <2>1, <2>2, <2>3 DEF TestRow
<1> HIDE DEF t, row
<1>6. IsFiniteSet(rows) /\ Cardinality(rows) <= N - Len(c.todo) + 1
  <2>1. N - Len(c.todo) \in Int
    BY <1>1, ComplianceAssumption DEF IsRest, N
  <2>2. IsFiniteSet(c.rows) /\ Cardinality(c.rows) <= N - Len(c.todo)
    BY <1>1 DEF RowsOf
  <2>3. /\ IsFiniteSet(rows) /\ Cardinality(c.rows) \in Nat
        /\ Cardinality(rows) \in {Cardinality(c.rows), Cardinality(c.rows) + 1}
    BY <2>2, FS_AddElement, FS_CardinalityType
  <2> QED BY <2>1, <2>2, <2>3
<1>7. RowsOf(rows, Before(Tail(c.todo)), N - Len(Tail(c.todo)))
  BY <1>1, <1>2, <1>5, <1>6 DEF RowsOf
<1> HIDE DEF rows
<1>8. rows \subseteq TestRow /\ rows # {} /\ row \in rows /\ rows = c.rows \union {row}
  BY <1>1, <1>5 DEF rows, Calls
<1>9. FilesInv'
  BY <1>1, <1>3, <1>4, <1>7, <1>8 DEF FilesInv, RowsOf
<1> PICK d : d = [c EXCEPT !.phase = "rows", !.rows = rows, !.todo = Tail(@)]
  OBVIOUS
<1>10. /\ d \in Calls /\ d.phase = "rows" /\ d.todo = Tail(c.todo) /\ d.rows = rows
       /\ d.args = c.args /\ d.alone = c.alone /\ d.source = c.source
  BY <1>1, <1>2, <1>8 DEF Calls, IsRest, Phases
<1>11. ResultsOf(d)'
  BY <1>1, <1>4, <1>8, <1>10 DEF ResultsOf
<1>12. ASSUME c.args.force, ~c.args.no_build PROVE Built(d)'
  BY <1>1, <1>10, <1>12 DEF Built, Scoring
<1>13. ASSUME c.alone PROVE Logged(d)'
  <2>1. \A r \in rows : \A l \in r.log : l.call = calls /\ l.image = hex[r.test]
    BY <1>1, <1>2, <1>5, <1>8, <1>13 DEF Logged
  <2> QED BY <1>1, <1>10, <1>13, <2>1 DEF Logged, Scoring
<1>14. \A r \in rows : r.pass => r.log # {}
  BY <1>1, <1>5, <1>8
<1>15. CallInv(d)'
  BY <1>1, <1>2, <1>7, <1>10, <1>11, <1>12, <1>13, <1>14 DEF CallInv, Scoring
<1> QED BY <1>1, <1>4, <1>9, <1>15, GoesOn

\* The last simulation has ended, and its code is that of the program.
LEMMA EndRowsStep ==
  ASSUME ComplianceInv, NEW c \in call, EndRows(c)
  PROVE ComplianceInv'
<1> DEFINE rc == IF c.todo = <<>> /\ \A row \in c.rows : row.pass THEN 0 ELSE 1
<1>1. /\ c \in Calls /\ IsRest(c.todo) /\ c.phase \in {"rows", "score"}
      /\ RowsOf(c.rows, Before(c.todo), N - Len(c.todo)) /\ ResultsOf(c)
      /\ \A row \in c.rows : row.pass => row.log # {}
      /\ (c.args.force /\ ~c.args.no_build => Built(c))
      /\ (c.alone => c.args.fresh /\ Logged(c))
      /\ UNCHANGED <<source, elf, hex, listed, logs, rootLog, results, report, done, calls>>
  BY DEF EndRows, ComplianceInv, CallInv, Scoring
<1>2. call' = {[c EXCEPT !.phase = "report", !.rc = rc]}
  BY DEF EndRows
<1>3. rc \in {0, 1} /\ (rc = 0 => c.todo = <<>> /\ \A row \in c.rows : row.pass)
  OBVIOUS
<1> HIDE DEF rc
<1> PICK d : d = [c EXCEPT !.phase = "report", !.rc = rc]
  OBVIOUS
<1>4. /\ d \in Calls /\ d.phase = "report" /\ d.rc = rc /\ d.todo = c.todo
      /\ d.rows = c.rows /\ d.args = c.args /\ d.alone = c.alone /\ d.source = c.source
  BY <1>1, <1>3 DEF Calls, Phases
<1>5. FilesInv'
  BY <1>1 DEF ComplianceInv, FilesInv
<1>6. ResultsOf(d)'
  BY <1>1, <1>4 DEF ResultsOf
<1>7. ASSUME c.args.force, ~c.args.no_build PROVE Built(d)'
  BY <1>1, <1>4, <1>7 DEF Built, Scoring
<1>8. d.alone => d.args.fresh /\ Logged(d)'
  BY <1>1, <1>4 DEF Logged, Scoring
<1>9. CallInv(d)'
  BY <1>1, <1>3, <1>4, <1>6, <1>7, <1>8 DEF CallInv, Scoring
<1> QED BY <1>1, <1>2, <1>5, <1>9, GoesOn

\* As many rows as there are tests can only be a row for each.
LEMMA AllScored ==
  ASSUME NEW todo, IsRest(todo), NEW rows, RowsOf(rows, Before(todo), N - Len(todo)),
         Cardinality(rows) = Len(TestSeq)
  PROVE {row.test : row \in rows} = Tests
<1>1. N \in Nat /\ Len(todo) \in Nat /\ todo \in Seq(Tests) /\ N <= N - Len(todo)
  BY ComplianceAssumption DEF IsRest, RowsOf, N
<1>2. todo = <<>>
  BY <1>1
<1> QED BY <1>2, RestTurns DEF RowsOf

\* The report: what it says and what the invocation returns were earned.
LEMMA WriteReportStep ==
  ASSUME ComplianceInv, NEW c \in call, WriteReport(c)
  PROVE ComplianceInv'
<1>1. /\ c \in Calls /\ IsRest(c.todo) /\ c.phase = "report"
      /\ RowsOf(c.rows, Before(c.todo), N - Len(c.todo)) /\ ResultsOf(c)
      /\ (c.rc = 0 => c.todo = <<>> /\ \A row \in c.rows : row.pass)
      /\ \A row \in c.rows : row.pass => row.log # {}
      /\ (c.args.force /\ ~c.args.no_build => Built(c))
      /\ (c.alone => c.args.fresh /\ Logged(c))
      /\ UNCHANGED <<source, elf, hex, listed, logs, rootLog, results, calls>>
  BY DEF WriteReport, ComplianceInv, CallInv, Scoring
<1>2. /\ report' = {[call |-> calls, pass |-> AllPass, alone |-> c.alone]}
      /\ Leave(c, ExitCode(c))
  BY DEF WriteReport
<1>3. calls \in Nat /\ \A r \in results : r.rows # {} /\ IsFiniteSet(r.rows)
  BY DEF ComplianceInv, FilesInv
<1>4. \A r \in report' : r.call = calls /\ r.alone = c.alone /\ (r.pass <=> AllPass)
  BY <1>2
<1>5. FilesInv'
  BY <1>1, <1>3, <1>4 DEF ComplianceInv, FilesInv
<1>6. call' = {} /\ done' \in {Failed, [code |-> 0, args |-> {c.args}, alone |-> c.alone, source |-> c.source]}
  BY <1>2 DEF Leave
<1> DEFINE Passed == \E r \in results : /\ r.call = calls
                                       /\ {row.test : row \in r.rows} = Tests
                                       /\ \A row \in r.rows : row.pass
           Simulated == \A r \in results : \A row \in r.rows :
                           \E l \in row.log : l.call = calls
<1>7. ASSUME AllPass, c.rows # {} \/ c.args.fresh \/ c.rc = 0
      PROVE Passed /\ results = {[call |-> calls, rows |-> c.rows]}
  <2>1. PICK r \in results : Cardinality(r.rows) = Len(TestSeq) /\ \A row \in r.rows : row.pass
    BY <1>7 DEF AllPass
  <2>2. c.rows # {}
    <3> SUFFICES ASSUME c.rows = {} PROVE FALSE
      OBVIOUS
    <3>1. ~c.args.fresh /\ c.todo = <<>>
      BY <1>1, <1>7, <2>1 DEF ResultsOf
    <3>2. Before(<<>>) = Tests /\ {row.test : row \in c.rows} = Before(<<>>)
      BY <1>1, <3>1, RestTurns DEF RowsOf
    <3>3. Tests = {}
      BY <3>2
    <3>4. Len(TestSeq) = 0
      BY <3>3, ComplianceAssumption DEF Tests
    <3> QED BY <1>3, <2>1, <3>4, FS_EmptySet
  <2>3. results = {[call |-> calls, rows |-> c.rows]}
    BY <1>1, <2>2 DEF ResultsOf
  <2>4. r.call = calls /\ r.rows = c.rows
    BY <2>1, <2>3
  <2>5. {row.test : row \in r.rows} = Tests
    BY <1>1, <2>1, <2>4, AllScored
  <2> QED BY <2>1, <2>3, <2>4, <2>5
<1>8. ASSUME done'.code = 0
      PROVE /\ AllPass /\ c.rc = 0
            /\ done'.args = {c.args} /\ done'.alone = c.alone /\ done'.source = c.source
  <2>1. ExitCode(c) = 0
    BY <1>2, <1>8 DEF Leave, Failed
  <2>2. AllPass /\ c.rc = 0
    BY <2>1 DEF ExitCode
  <2> QED BY <1>2, <2>1, <2>2 DEF Leave
<1>9. ASSUME AllPass, c.alone PROVE Passed /\ Simulated
  <2>1. Passed /\ results = {[call |-> calls, rows |-> c.rows]}
    BY <1>1, <1>7, <1>9
  <2>2. \A row \in c.rows : row.pass
    BY <1>9, <2>1 DEF AllPass
  <2>3. \A row \in c.rows : \E l \in row.log : l.call = calls
    BY <1>1, <1>9, <2>2 DEF Logged
  <2> QED BY <2>1, <2>3
<1>10. ClaimIsEarned'
  <2>1. ASSUME Ran'
        PROVE Passed /\ (\E r \in report' : r.call = calls /\ r.pass) /\ (done'.alone => Simulated)
    <3>1. done'.code = 0
      BY <2>1 DEF Ran
    <3>2. AllPass /\ Passed /\ done'.alone = c.alone
      BY <1>7, <1>8, <3>1
    <3>3. [call |-> calls, pass |-> AllPass, alone |-> c.alone] \in report'
      BY <1>2
    <3> QED BY <1>4, <1>9, <3>2, <3>3
  <2>2. \A r \in report' : r.call = calls /\ r.pass /\ r.alone => Passed /\ Simulated
    BY <1>4, <1>9
  <2>3. (Passed' <=> Passed) /\ (Simulated' <=> Simulated)
    BY <1>1
  <2> HIDE DEF Passed, Simulated
  <2>4. /\ Ran' => /\ Passed' /\ \E r \in report' : r.call = calls' /\ r.pass
                   /\ done'.alone => Simulated'
        /\ call' = {} => \A r \in report' : r.call = calls' /\ r.pass /\ r.alone
                                              => Passed' /\ Simulated'
    BY <1>1, <2>1, <2>2, <2>3
  <2> QED BY <2>4 DEF ClaimIsEarned, Passed, Simulated
<1>11. ForcedTestsSources'
  <2> SUFFICES ASSUME Ran', done'.alone, \A args \in done'.args : args.force /\ ~args.no_build,
                      NEW r \in results', NEW row \in r.rows, NEW l \in row.log
               PROVE l.image = done'.source[row.test]
    BY DEF ForcedTestsSources
  <2>1. /\ AllPass /\ c.rc = 0
        /\ done'.args = {c.args} /\ done'.alone = c.alone /\ done'.source = c.source
    BY <1>8 DEF Ran
  <2>2. r.rows = c.rows /\ row \in c.rows
    BY <1>1, <1>7, <2>1
  <2>3. row.test \in Tests
    BY <1>1, <2>2 DEF Calls, TestRow
  <2>4. l.image = hex[row.test]
    BY <1>1, <2>1, <2>2 DEF Logged
  <2>5. Built(c)
    BY <1>1, <2>1
  <2> QED BY <1>1, <2>1, <2>3, <2>4, <2>5 DEF Built, Scoring
<1> QED BY <1>5, <1>6, <1>10, <1>11 DEF ComplianceInv

\* Somebody stops the program: the files stay as they are.
LEMMA InterruptStep ==
  ASSUME ComplianceInv, NEW c \in call, Interrupt(c)
  PROVE ComplianceInv'
<1>1. Leave(c, 1) /\ UNCHANGED <<source, elf, hex, listed, logs, rootLog, results, report, calls>>
  BY DEF Interrupt
<1>2. FilesInv'
  BY <1>1 DEF ComplianceInv, FilesInv
<1> QED BY <1>1, <1>2, Fails

\* Images, results and report stay those they are taken for.
LEMMA ComplianceInvariant == ComplianceSpec => []ComplianceInv
<1>1. ComplianceInit => ComplianceInv
  <2> SUFFICES ASSUME ComplianceInit PROVE ComplianceInv
    OBVIOUS
  <2>1. FilesInv
    BY DEF ComplianceInit, FilesInv, NotBuilt
  <2>2. call = {} /\ report = {} /\ ~Ran
    BY DEF ComplianceInit, Ran, Failed
  <2>3. ClaimIsEarned /\ ForcedTestsSources
    BY <2>2 DEF ClaimIsEarned, ForcedTestsSources
  <2> QED BY <2>1, <2>2, <2>3 DEF ComplianceInv
<1>2. ComplianceInv /\ [ComplianceNext]_complianceVars => ComplianceInv'
  <2> SUFFICES ASSUME ComplianceInv, [ComplianceNext]_complianceVars PROVE ComplianceInv'
    OBVIOUS
  <2>1. CASE UNCHANGED complianceVars
    BY <2>1 DEF complianceVars, ComplianceInv, FilesInv, CallInv, ResultsOf, Built, Logged,
                ClaimIsEarned, ForcedTestsSources, Ran
  <2>2. CASE ComplianceNext
    BY <2>2, EditSourceStep, TestByHandStep, SimulateTestStep, StartComplianceStep, BuildElfStep,
       BuildHexStep, WriteManifestStep,
       StartRowsStep, ScoreTestStep, EndRowsStep, WriteReportStep, InterruptStep
       DEF ComplianceNext
  <2> QED BY <2>1, <2>2
<1> QED BY <1>1, <1>2, PTL DEF ComplianceSpec

\* run_rv64gc_compliance.py returns 0 only if every test has passed in this run, also in
\* a directory with the results of another one: as many rows as tests, each of
\* another test, and a report that is made of them.  In a new run directory and with
\* no dsim_run.log around, each row also speaks of a simulation of this run.
THEOREM ClaimsAreEarned == ComplianceSpec => []ClaimIsEarned
<1>1. ComplianceInv => ClaimIsEarned
  BY DEF ComplianceInv
<1> QED BY <1>1, ComplianceInvariant, PTL

\* With --force the images that passed, where there is no other log, are those of
\* the sources as the invocation found them, whatever an earlier one that was
\* interrupted between the compiler and the converter has left: both are run again
\* for every test.
THEOREM ForcedRunsTestSources == ComplianceSpec => []ForcedTestsSources
<1>1. ComplianceInv => ForcedTestsSources
  BY DEF ComplianceInv
<1> QED BY <1>1, ComplianceInvariant, PTL

-----------------------------------------------------------------------------
\* uoc_repack_model.py

Pc == {n \in Nat : n % 2 = 0}

TagsType == tags \in [0..(Sets - 1) -> [UocWays -> {{}} \union {{t} : t \in Nat}]]

HeadsType ==
    /\ DOMAIN heads \subseteq Pc /\ uops \in Nat
    /\ \A h \in DOMAIN heads : heads[h] \in Nat /\ heads[h] <= uops

\* The entry that is being filled was in the cache when it was opened and
\* still is, or it earns nothing.
EntryFits(b, now) ==
    /\ b \in [head : Pc, n : Nat, resident : BOOLEAN, groups : SUBSET Nat, opened : Nat,
              since : Nat]
    /\ b.opened <= now /\ b.since <= event /\ \A g \in b.groups : g >= b.since
    /\ b.resident =>
          /\ b.head \in DOMAIN heads /\ heads[b.head] < b.opened
          /\ Find(Index(b.head), Tag(b.head)) # {}

RecoveredFit ==
    \A r \in recovered :
       /\ r.group \in DOMAIN cut /\ r.group >= r.since
       /\ r.head \in DOMAIN heads /\ heads[r.head] < r.opened

GroupFits ==
    /\ event \in Nat
    /\ \A g \in group : /\ g \in [uops : Seq(TraceUops), id : Nat]
                       /\ g.uops # <<>> /\ g.id = event

UocInv ==
    /\ TagsType /\ HeadsType /\ RecoveredFit /\ GroupFits
    /\ build = {} \/ \E b : build = {b} /\ EntryFits(b, uops)
    /\ HitsAreHeads

-----------------------------------------------------------------------------
\* The index and the tag of an instruction tell it from every other.
LEMMA PcOfIndexAndTag ==
  ASSUME NEW x \in Pc, NEW y \in Pc, Index(x) = Index(y), Tag(x) = Tag(y)
  PROVE x = y
<1> PICK n \in Nat : n = Sets /\ n > 0
  BY UocAssumption
<1>1. ASSUME NEW z \in Pc
      PROVE z = 2 * (n * Tag(z) + Index(z)) /\ Index(z) \in 0..(n - 1) /\ Tag(z) \in Nat
  <2> PICK h \in Nat : h = z \div 2 /\ z = 2 * h
    BY <1>1 DEF Pc
  <2>1. h = n * (h \div n) + (h % n) /\ h % n \in 0..(n - 1) /\ h \div n \in Nat
    OBVIOUS
  <2>2. z \div (2 * n) = h \div n
    OBVIOUS
  <2> QED BY <2>1, <2>2 DEF Index, Tag
<1> QED BY <1>1

\* A set of the cache and a tag, for every instruction.
LEMMA IndexAndTagType ==
  ASSUME NEW x \in Pc PROVE Index(x) \in 0..(Sets - 1) /\ Tag(x) \in Nat
<1> PICK n \in Nat : n = Sets /\ n > 0
  BY UocAssumption
<1> PICK h \in Nat : h = x \div 2
  BY DEF Pc
<1> QED BY DEF Index, Tag, Pc

\* What a set holds after one of its ways has been written with the tag of a
\* head that is known from now on.
LEMMA HitsStayHeads ==
  ASSUME TagsType, HitsAreHeads, NEW h \in Pc, NEW way,
         DOMAIN heads \subseteq Pc, DOMAIN heads' = DOMAIN heads \union {h},
         way \in Find(Index(h), Tag(h)) \/ Find(Index(h), Tag(h)) = {},
         tags' = [tags EXCEPT ![Index(h)][way] = {Tag(h)}]
  PROVE TagsType' /\ HitsAreHeads'
<1> PICK i, t : i = Index(h) /\ t = Tag(h) /\ i \in 0..(Sets - 1) /\ t \in Nat
  BY IndexAndTagType
<1>1. TagsType'
  BY DEF TagsType
<1>2. ASSUME NEW s \in DOMAIN tags', NEW w \in UocWays, NEW u \in tags'[s][w]
      PROVE /\ Find(s, u)' = {w}
            /\ \E k \in DOMAIN heads' :
                  {x \in DOMAIN heads' : Index(x) = s /\ Tag(x) = u} = {k}
  <2>1. s \in DOMAIN tags /\ (s # i => tags'[s] = tags[s])
        /\ (s = i => tags'[s] = [tags[s] EXCEPT ![way] = {t}])
    BY <1>2 DEF TagsType
  <2>2. CASE s = i /\ u = t
    <3>1. {x \in DOMAIN heads' : Index(x) = s /\ Tag(x) = u} = {h}
      BY <2>2, PcOfIndexAndTag
    <3>2. CASE Find(i, t) = {}
      <4>1. w = way
        BY <1>2, <2>1, <2>2, <3>2 DEF Find, TagsType
      <4>2. \A x \in UocWays : x # way => tags'[s][x] # {u}
        BY <2>1, <2>2, <3>2 DEF Find, TagsType
      <4>3. tags'[s][way] = {u}
        BY <1>2, <2>1, <2>2, <4>1 DEF TagsType
      <4> QED BY <3>1, <4>1, <4>2, <4>3 DEF Find
    <3>3. CASE way \in Find(i, t)
      <4>1. tags'[s] = tags[s] /\ w \in UocWays /\ u \in tags[s][w]
        BY <1>2, <2>1, <2>2, <3>3 DEF Find, TagsType
      <4>2. Find(s, u) = {w}
        BY <2>1, <4>1 DEF HitsAreHeads
      <4> QED BY <3>1, <4>1, <4>2 DEF Find
    <3> QED BY <3>2, <3>3, EmptySeq
  <2>3. CASE ~(s = i /\ u = t)
    <3>1. u \in tags[s][w] /\ (s = i => w # way)
      BY <1>2, <2>1, <2>3 DEF TagsType
    <3>2. Find(s, u) = {w}
      BY <2>1, <3>1 DEF HitsAreHeads
    <3>3. Find(s, u)' = {w}
      BY <1>2, <2>1, <2>3, <3>1, <3>2 DEF Find, TagsType
    <3>4. PICK k \in DOMAIN heads : {x \in DOMAIN heads : Index(x) = s /\ Tag(x) = u} = {k}
      BY <2>1, <3>1 DEF HitsAreHeads
    <3>5. {x \in DOMAIN heads' : Index(x) = s /\ Tag(x) = u} = {k}
      BY <2>3, <3>4
    <3> QED BY <3>3, <3>4, <3>5
  <2> QED BY <2>2, <2>3
<1>3. HitsAreHeads'
  BY <1>2 DEF HitsAreHeads
<1> QED BY <1>1, <1>3

\* An entry is sealed: only what was in the cache before earns something.
LEMMA SealStep ==
  ASSUME TagsType, HeadsType, RecoveredFit, HitsAreHeads, NEW b, b.head \in Pc,
         uops' \in Nat, uops' >= uops, UNCHANGED cut,
         \A g \in b.groups : g >= b.since,
         b.resident => b.head \in DOMAIN heads /\ heads[b.head] < b.opened,
         Seal(b)
  PROVE TagsType' /\ HeadsType' /\ RecoveredFit' /\ HitsAreHeads' /\ build' = {}
<1> DEFINE i == Index(b.head)
           found == Find(i, Tag(b.head))
           way == IF found # {} THEN Min(found) ELSE Place(i)
<1>1. /\ tags' = [tags EXCEPT ![i][way] = {Tag(b.head)}]
      /\ heads' = IF b.head \in DOMAIN heads THEN heads
                  ELSE [h \in DOMAIN heads \union {b.head} |->
                           IF h = b.head THEN uops' ELSE heads[h]]
      /\ recovered' = recovered \union
            (IF b.resident THEN {[group |-> g, head |-> b.head, opened |-> b.opened,
                                  since |-> b.since] : g \in b.groups \intersect DOMAIN cut}
             ELSE {})
      /\ build' = {}
  BY DEF Seal
<1>2. way \in found \/ found = {}
  <2> SUFFICES ASSUME found # {} PROVE way \in found
    OBVIOUS
  <2>1. PICK w \in UocWays : w \in found
    BY DEF Find
  <2>2. tags[i][w] = {Tag(b.head)} /\ i \in DOMAIN tags
    BY <2>1, IndexAndTagType DEF Find, TagsType
  <2>3. found = {w}
    BY <2>1, <2>2 DEF HitsAreHeads
  <2>4. Min(found) = w
    BY <2>1, <2>3 DEF Min, UocWays
  <2> QED BY <2>1, <2>4
<1> HIDE DEF way, found
<1>3. /\ DOMAIN heads' = DOMAIN heads \union {b.head} /\ b.head \in DOMAIN heads'
      /\ \A h \in DOMAIN heads : heads'[h] = heads[h]
      /\ b.head \notin DOMAIN heads => heads'[b.head] = uops'
  BY <1>1
<1>4. TagsType' /\ HitsAreHeads'
  BY <1>1, <1>2, <1>3, HitsStayHeads DEF found, HeadsType
<1>5. HeadsType'
  BY <1>3 DEF HeadsType
<1>6. RecoveredFit'
  <2> SUFFICES ASSUME NEW r \in recovered'
               PROVE /\ r.group \in DOMAIN cut /\ r.group >= r.since
                     /\ r.head \in DOMAIN heads' /\ heads'[r.head] < r.opened
    BY DEF RecoveredFit
  <2>1. CASE r \in recovered
    BY <1>3, <2>1 DEF RecoveredFit
  <2>2. CASE r \notin recovered
    <3>1. PICK g \in b.groups \intersect DOMAIN cut :
             b.resident /\ r = [group |-> g, head |-> b.head, opened |-> b.opened,
                                since |-> b.since]
      BY <1>1, <2>2
    <3> QED BY <1>3, <3>1
  <2> QED BY <2>1, <2>2
<1> QED BY <1>1, <1>4, <1>5, <1>6

\* A group of the trace is delivered, and counts as an event.
LEMMA DeliverStep ==
  ASSUME UocInv, NEW g \in Groups, Deliver(g)
  PROVE UocInv'
<1>1. /\ event' = event + 1 /\ group' = {[uops |-> g.uops, id |-> event']}
      /\ UNCHANGED <<tags, uops, heads, build, recovered>>
  BY DEF Deliver
<1>2. DOMAIN cut \subseteq DOMAIN cut'
  BY DEF Deliver
<1>3. GroupFits'
  BY <1>1, UocAssumption DEF UocInv, GroupFits
<1>4. RecoveredFit'
  BY <1>1, <1>2 DEF UocInv, RecoveredFit
<1>5. TagsType' /\ HeadsType' /\ HitsAreHeads'
  BY <1>1 DEF UocInv, TagsType, HeadsType, HitsAreHeads, Find
<1>6. ASSUME NEW b, EntryFits(b, uops) PROVE EntryFits(b, uops)'
  BY <1>1, <1>6 DEF UocInv, GroupFits, EntryFits, Find
<1> QED BY <1>1, <1>3, <1>4, <1>5, <1>6 DEF UocInv

\* An entry is opened, or grows by what is delivered.
LEMMA PackedFits ==
  ASSUME UocInv, NEW u \in TraceUops, uops' = uops + 1, NEW p, p = Packed(u, event)
  PROVE EntryFits(p, uops + 1)
<1>0. event \in Nat /\ uops \in Nat /\ u.pc \in Pc
      /\ \A h \in DOMAIN heads : heads[h] \in Nat /\ heads[h] <= uops
  BY UocAssumption DEF UocInv, GroupFits, HeadsType, Pc
<1>1. CASE build = {}
  <2>1. p = [head |-> u.pc, n |-> 1, resident |-> Resident(u.pc),
             groups |-> {event}, opened |-> uops', since |-> event]
    BY <1>1 DEF Packed
  <2> PICK r \in BOOLEAN : r = Resident(u.pc)
    BY DEF Resident
  <2>2. p = [head |-> u.pc, n |-> 1, resident |-> r,
             groups |-> {event}, opened |-> uops', since |-> event]
    BY <2>1
  <2>3. /\ p \in [head : Pc, n : Nat, resident : BOOLEAN, groups : SUBSET Nat, opened : Nat,
                  since : Nat]
        /\ p.head = u.pc /\ p.groups = {event} /\ p.opened = uops + 1 /\ p.since = event
        /\ p.resident = r
    BY <1>0, <2>2
  <2>4. p.resident => u.pc \in DOMAIN heads /\ Find(Index(u.pc), Tag(u.pc)) # {}
    BY <2>3 DEF Resident
  <2> QED BY <1>0, <2>3, <2>4 DEF EntryFits, Find
<1>2. CASE build # {}
  <2>1. PICK b : build = {b} /\ EntryFits(b, uops)
    BY <1>2 DEF UocInv
  <2>2. p = [b EXCEPT !.n = @ + 1, !.groups = @ \union {event}]
    <3>1. (CHOOSE x \in build : TRUE) = b
      BY <2>1
    <3> QED BY <1>2, <3>1 DEF Packed
  <2>3. PICK new \in SUBSET Nat : new = b.groups \union {event}
    BY <1>0, <2>1 DEF EntryFits
  <2>4. PICK m \in Nat : m = b.n + 1
    BY <2>1 DEF EntryFits
  <2>5. p = [b EXCEPT !.n = m, !.groups = new]
    BY <2>2, <2>3, <2>4
  <2>6. /\ p \in [head : Pc, n : Nat, resident : BOOLEAN, groups : SUBSET Nat, opened : Nat,
                  since : Nat]
        /\ p.head = b.head /\ p.groups = new /\ p.opened = b.opened
        /\ p.since = b.since
    BY <1>0, <2>1, <2>5 DEF EntryFits
  <2>7. p.resident = b.resident
    BY <1>0, <2>1, <2>5 DEF EntryFits
  <2> QED BY <1>0, <2>1, <2>3, <2>6, <2>7 DEF EntryFits, Find
<1> QED BY <1>1, <1>2

\* The next micro-op of the group: it seals the entry, grows it or opens one.
LEMMA SlotStep ==
  ASSUME UocInv, NEW g \in group, Slot(g)
  PROVE UocInv'
<1> DEFINE u == Head(g.uops)
<1>0. /\ g \in [uops : Seq(TraceUops), id : Nat] /\ g.uops # <<>> /\ g.id = event
      /\ event \in Nat /\ uops \in Nat
  BY DEF UocInv, GroupFits, HeadsType
<1>1. /\ uops' = uops + 1 /\ UNCHANGED <<cut, event>> /\ u \in TraceUops
      /\ group' = IF Len(g.uops) = 1 THEN {} ELSE {[g EXCEPT !.uops = Tail(@)]}
  BY <1>0 DEF Slot
<1>2. GroupFits'
  <2> SUFFICES ASSUME NEW h \in group'
               PROVE /\ h \in [uops : Seq(TraceUops), id : Nat]
                     /\ h.uops # <<>> /\ h.id = event
    BY <1>0, <1>1 DEF GroupFits
  <2>1. Len(g.uops) # 1 /\ h = [g EXCEPT !.uops = Tail(@)]
    BY <1>1
  <2>2. PICK q : q = g.uops /\ q \in Seq(TraceUops) /\ q # <<>> /\ Len(q) # 1
    BY <1>0, <2>1
  <2>3. Tail(q) \in Seq(TraceUops) /\ Tail(q) # <<>>
    <3>0. PICK n : n = Len(q) /\ n \in Nat \ {0} /\ n # 1
      BY <2>2, EmptySeq
    <3>1. Len(q) \in Nat /\ Len(q) > 1
      BY <3>0
    <3>2. Tail(q) \in Seq(TraceUops) /\ Len(Tail(q)) = Len(q) - 1
      BY <2>2
    <3>3. Len(Tail(q)) # 0
      BY <3>1, <3>2
    <3> QED BY <3>2, <3>3, EmptySeq
  <2> QED BY <1>0, <2>1, <2>2, <2>3
<1> PICK p : p = Packed(u, event)
  OBVIOUS
<1> HIDE DEF u
<1>3. EntryFits(p, uops + 1)
  BY <1>1, PackedFits
<1>4. Seal(p) \/ (build' = {p} /\ UNCHANGED <<tags, tree, heads, recovered, later>>)
  BY <1>0 DEF Slot, u
<1>5. CASE Seal(p)
  <2>1. /\ p.head \in Pc /\ \A x \in p.groups : x >= p.since
        /\ p.resident => p.head \in DOMAIN heads /\ heads[p.head] < p.opened
    BY <1>3 DEF EntryFits
  <2>2. uops' \in Nat /\ uops' >= uops
    BY <1>0, <1>1
  <2>3. TagsType' /\ HeadsType' /\ RecoveredFit' /\ HitsAreHeads' /\ build' = {}
    BY <1>1, <1>5, <2>1, <2>2, SealStep DEF UocInv
  <2> QED BY <1>2, <2>3 DEF UocInv
<1>6. CASE build' = {p} /\ UNCHANGED <<tags, tree, heads, recovered, later>>
  <2>1. EntryFits(p, uops)'
    BY <1>1, <1>3, <1>6 DEF EntryFits, Find
  <2>2. TagsType' /\ HeadsType' /\ RecoveredFit' /\ HitsAreHeads'
    BY <1>0, <1>1, <1>6 DEF UocInv, TagsType, HeadsType, RecoveredFit, HitsAreHeads, Find
  <2> QED BY <1>2, <1>6, <2>1, <2>2 DEF UocInv
<1> QED BY <1>4, <1>5, <1>6

\* A redirect: the entry is sealed early.
LEMMA FlushEntryStep ==
  ASSUME UocInv, FlushEntry PROVE UocInv'
<1>1. /\ event' = event + 1 /\ build' = {} /\ group = {}
      /\ UNCHANGED <<tags, tree, uops, heads, group, cut, recovered, later>>
  BY DEF FlushEntry
<1>2. TagsType' /\ HeadsType' /\ RecoveredFit' /\ HitsAreHeads' /\ GroupFits'
  BY <1>1 DEF UocInv, TagsType, HeadsType, RecoveredFit, HitsAreHeads, Find, GroupFits
<1> QED BY <1>1, <1>2 DEF UocInv

\* The last entry is sealed when the trace ends.
LEMMA EndTraceStep ==
  ASSUME UocInv, EndTrace PROVE UocInv'
<1>1. /\ event' = MaxEvents /\ group' = {} /\ UNCHANGED <<uops, cut>>
  BY DEF EndTrace
<1>2. PICK b : build = {b} /\ EntryFits(b, uops) /\ Seal(b)
  BY DEF EndTrace, UocInv
<1>3. /\ b.head \in Pc /\ \A x \in b.groups : x >= b.since
      /\ b.resident => b.head \in DOMAIN heads /\ heads[b.head] < b.opened
  BY <1>2 DEF EntryFits
<1>4. uops' \in Nat /\ uops' >= uops
  BY <1>1 DEF UocInv, HeadsType
<1>5. TagsType' /\ HeadsType' /\ RecoveredFit' /\ HitsAreHeads' /\ build' = {}
  BY <1>1, <1>2, <1>3, <1>4, SealStep DEF UocInv
<1>6. GroupFits'
  BY <1>1, UocAssumption DEF GroupFits
<1> QED BY <1>5, <1>6 DEF UocInv

\* The tags are those of heads that were sealed, and recovery follows them.
LEMMA UocInvariant == UocSpec => []UocInv
<1>1. UocInit => UocInv
  <2> SUFFICES ASSUME UocInit PROVE UocInv
    OBVIOUS
  <2>1. DOMAIN heads = {}
    BY DEF UocInit
  <2>2. TagsType /\ HeadsType /\ RecoveredFit /\ GroupFits /\ build = {}
    BY <2>1 DEF UocInit, TagsType, HeadsType, RecoveredFit, GroupFits
  <2>3. HitsAreHeads
    <3>1. \A s \in DOMAIN tags : \A w \in UocWays : tags[s][w] = {}
      BY DEF UocInit
    <3> QED BY <3>1 DEF HitsAreHeads
  <2> QED BY <2>2, <2>3 DEF UocInv
<1>2. UocInv /\ [UocNext]_uocVars => UocInv'
  <2> SUFFICES ASSUME UocInv, [UocNext]_uocVars PROVE UocInv'
    OBVIOUS
  <2>1. CASE UNCHANGED uocVars
    BY <2>1 DEF uocVars, UocInv, TagsType, HeadsType, RecoveredFit, HitsAreHeads, Find,
                GroupFits, EntryFits
  <2> QED BY <2>1, DeliverStep, SlotStep, FlushEntryStep, EndTraceStep DEF UocNext
<1> QED BY <1>1, <1>2, PTL DEF UocSpec

\* A set of the cache never holds a tag twice, and a hit is never the hit of
\* another pc: index and tag of uoc_repack_model.py tell every head from the rest.
THEOREM HitsStayHitsOfHeads == UocSpec => []HitsAreHeads
<1>1. UocInv => HitsAreHeads
  BY DEF UocInv
<1> QED BY <1>1, UocInvariant, PTL

\* The model credits what it recovers to an entry that was in the cache all the
\* time since it was opened, and was sealed before: no pass recovers from the
\* entry that it fills itself.
THEOREM RecoveriesAreRevisits == UocSpec => []RecoveryIsRevisit
<1>1. UocInv => RecoveryIsRevisit
  BY DEF UocInv, EntryFits, RecoveredFit, RecoveryIsRevisit
<1> QED BY <1>1, UocInvariant, PTL

-----------------------------------------------------------------------------
\* PLRUSet: the tree of a set points away from what was touched last.

\* The ways under a node are twice those under a child of it.
LEMMA PowerDoubles ==
  /\ Power[0] = 1
  /\ \A n \in 0..(Levels - 1) : Power[n + 1] = 2 * Power[n]
  /\ \A n \in 0..Levels : Power[n] \in Nat \ {0}
<1> DEFINE Good(f, k) == f = [n \in 0..k |-> IF n = 0 THEN 1 ELSE 2 * f[n - 1]]
           Has(k) == \E f : Good(f, k)
           Bad == {k \in Nat : ~ Has(k)}
<1>1. Bad = {}
  <2> SUFFICES ASSUME Bad # {} PROVE FALSE
    OBVIOUS
  <2>1. PICK k \in Bad : \A j \in Bad : k <= j
    <3>1. Bad \in SUBSET Nat
      OBVIOUS
    <3> HIDE DEF Bad
    <3> QED BY <3>1, LeastExists
  <2>2. k \in Nat /\ ~ Has(k)
    OBVIOUS
  <2>3. CASE k = 0
    <3> DEFINE g == [n \in 0..0 |-> 1]
    <3>1. g = [n \in 0..k |-> IF n = 0 THEN 1 ELSE 2 * g[n - 1]]
      BY <2>3
    <3> HIDE DEF g
    <3>2. Good(g, k)
      BY <3>1
    <3>3. Has(k)
      <4> HIDE DEF Good
      <4> QED BY <3>2
    <3> QED BY <2>2, <3>3
  <2>4. CASE k # 0
    <3>1. Has(k - 1)
      <4> HIDE DEF Has
      <4> QED BY <2>1, <2>2, <2>4
    <3>2. PICK f : Good(f, k - 1)
      BY <3>1
    <3> DEFINE g == [n \in 0..k |-> IF n = k THEN 2 * f[k - 1] ELSE f[n]]
    <3>3. \A n \in 0..(k - 1) : f[n] = IF n = 0 THEN 1 ELSE 2 * f[n - 1]
      BY <3>2
    <3>4. \A n \in 0..(k - 1) : g[n] = f[n]
      BY <2>2
    <3>5. ASSUME NEW n \in 0..k PROVE g[n] = IF n = 0 THEN 1 ELSE 2 * g[n - 1]
      <4>1. CASE n = k
        <5>1. g[n] = 2 * f[k - 1] /\ k - 1 \in 0..(k - 1)
          BY <2>2, <2>4, <4>1
        <5> QED BY <2>4, <3>4, <4>1, <5>1
      <4>2. CASE n # k
        <5>1. n \in 0..(k - 1) /\ (n # 0 => n - 1 \in 0..(k - 1))
          BY <2>2, <4>2
        <5> QED BY <3>3, <3>4, <5>1
      <4> QED BY <4>1, <4>2
    <3>6. DOMAIN g = 0..k /\ g = [n \in DOMAIN g |-> g[n]]
      OBVIOUS
    <3> HIDE DEF g
    <3>7. Good(g, k)
      BY <3>5, <3>6
    <3>8. Has(k)
      <4> HIDE DEF Good
      <4> QED BY <3>7
    <3> QED BY <2>2, <3>8
  <2> QED BY <2>3, <2>4
<1>2. Power = [n \in 0..Levels |-> IF n = 0 THEN 1 ELSE 2 * Power[n - 1]]
  <2>1. \E f : f = [n \in 0..Levels |-> IF n = 0 THEN 1 ELSE 2 * f[n - 1]]
    BY <1>1, UocAssumption
  <2> QED BY <2>1 DEF Power
<1>3. \A n \in 0..Levels : Power[n] = IF n = 0 THEN 1 ELSE 2 * Power[n - 1]
  BY <1>2
<1>4. \A n \in 0..(Levels - 1) : Power[n + 1] = 2 * Power[n]
  <2> SUFFICES ASSUME NEW n \in 0..(Levels - 1) PROVE Power[n + 1] = 2 * Power[n]
    OBVIOUS
  <2>1. n + 1 \in 0..Levels /\ n + 1 # 0 /\ (n + 1) - 1 = n
    BY UocAssumption
  <2> QED BY <1>3, <2>1
<1>5. Power[0] = 1
  BY <1>3, UocAssumption
<1>6. \A n \in 0..Levels : Power[n] \in Nat \ {0}
  <2> DEFINE S == {n \in 0..Levels : Power[n] \notin Nat \ {0}}
  <2> SUFFICES ASSUME S # {} PROVE FALSE
    OBVIOUS
  <2>1. PICK k \in S : \A j \in S : k <= j
    <3>1. S \in SUBSET Nat
      BY UocAssumption
    <3> HIDE DEF S
    <3> QED BY <3>1, LeastExists
  <2>2. k \in 0..Levels /\ k # 0
    BY <1>5
  <2>3. k - 1 \in 0..(Levels - 1) /\ (k - 1) + 1 = k /\ k - 1 \notin S
    BY <2>1, <2>2, UocAssumption
  <2>4. Power[k - 1] \in Nat \ {0}
    BY <2>3, UocAssumption
  <2>5. Power[k] = 2 * Power[k - 1]
    BY <1>4, <2>3
  <2> QED BY <2>4, <2>5
<1> QED BY <1>4, <1>5, <1>6

\* A descent takes one turn at each level.
LEMMA DescentTurns ==
  ASSUME NEW t
  PROVE /\ Descent(t)[0] = 0
        /\ \A l \in 0..(Levels - 1) :
              Descent(t)[l + 1] = 2 * Descent(t)[l] + 1
                                    + (IF Descent(t)[l] \in t THEN 1 ELSE 0)
<1> DEFINE Child(n) == 2 * n + 1 + (IF n \in t THEN 1 ELSE 0)
           Good(f, k) == f = [l \in 0..k |-> IF l = 0 THEN 0 ELSE Child(f[l - 1])]
           Has(k) == \E f : Good(f, k)
           Bad == {k \in Nat : ~ Has(k)}
<1>1. Bad = {}
  <2> SUFFICES ASSUME Bad # {} PROVE FALSE
    OBVIOUS
  <2>1. PICK k \in Bad : \A j \in Bad : k <= j
    <3>1. Bad \in SUBSET Nat
      OBVIOUS
    <3> HIDE DEF Bad
    <3> QED BY <3>1, LeastExists
  <2>2. k \in Nat /\ ~ Has(k)
    OBVIOUS
  <2> HIDE DEF Child
  <2>3. CASE k = 0
    <3> DEFINE g == [n \in 0..0 |-> 0]
    <3>1. g = [l \in 0..k |-> IF l = 0 THEN 0 ELSE Child(g[l - 1])]
      BY <2>3
    <3> HIDE DEF g
    <3>2. Good(g, k)
      BY <3>1
    <3>3. Has(k)
      <4> HIDE DEF Good
      <4> QED BY <3>2
    <3> QED BY <2>2, <3>3
  <2>4. CASE k # 0
    <3>1. Has(k - 1)
      <4> HIDE DEF Has
      <4> QED BY <2>1, <2>2, <2>4
    <3>2. PICK f : Good(f, k - 1)
      BY <3>1
    <3> DEFINE g == [l \in 0..k |-> IF l = k THEN Child(f[k - 1]) ELSE f[l]]
    <3>3. \A l \in 0..(k - 1) : f[l] = IF l = 0 THEN 0 ELSE Child(f[l - 1])
      BY <3>2
    <3>4. \A l \in 0..(k - 1) : g[l] = f[l]
      BY <2>2
    <3>5. ASSUME NEW l \in 0..k PROVE g[l] = IF l = 0 THEN 0 ELSE Child(g[l - 1])
      <4>1. CASE l = k
        <5>1. g[l] = Child(f[k - 1]) /\ k - 1 \in 0..(k - 1)
          BY <2>2, <2>4, <4>1
        <5> QED BY <2>4, <3>4, <4>1, <5>1
      <4>2. CASE l # k
        <5>1. l \in 0..(k - 1) /\ (l # 0 => l - 1 \in 0..(k - 1))
          BY <2>2, <4>2
        <5> QED BY <3>3, <3>4, <5>1
      <4> QED BY <4>1, <4>2
    <3>6. DOMAIN g = 0..k /\ g = [l \in DOMAIN g |-> g[l]]
      OBVIOUS
    <3> HIDE DEF g
    <3>7. Good(g, k)
      BY <3>5, <3>6
    <3>8. Has(k)
      <4> HIDE DEF Good
      <4> QED BY <3>7
    <3> QED BY <2>2, <3>8
  <2> QED BY <2>3, <2>4
<1> DEFINE node == Descent(t)
<1>2. node = [l \in 0..Levels |-> IF l = 0 THEN 0 ELSE Child(node[l - 1])]
  <2>1. \E f : f = [l \in 0..Levels |-> IF l = 0 THEN 0 ELSE Child(f[l - 1])]
    BY <1>1, UocAssumption
  <2> QED BY <2>1 DEF Descent
<1> HIDE DEF node
<1>3. \A l \in 0..Levels : node[l] = IF l = 0 THEN 0 ELSE Child(node[l - 1])
  BY <1>2
<1>4. ASSUME NEW l \in 0..(Levels - 1) PROVE node[l + 1] = Child(node[l])
  <2>1. l + 1 \in 0..Levels /\ l + 1 # 0 /\ (l + 1) - 1 = l
    BY UocAssumption
  <2> QED BY <1>3, <2>1
<1>5. node[0] = 0
  BY <1>3, UocAssumption
<1> QED BY <1>4, <1>5 DEF node

\* Two halvings are a division by twice as much.
LEMMA HalvedOnceMore ==
  ASSUME NEW a \in Nat, NEW n \in Nat \ {0}
  PROVE a \div n = 2 * (a \div (2 * n)) + ((a \div n) % 2)
<1>1. PICK q \in Nat, r \in 0..(n - 1) : a = n * q + r /\ q = a \div n
  <2>1. a = n * (a \div n) + (a % n) /\ a \div n \in Nat /\ a % n \in 0..(n - 1)
    OBVIOUS
  <2> QED BY <2>1
<1>2. PICK h \in Nat, b \in 0..1 : q = 2 * h + b /\ b = q % 2
  <2>1. q = 2 * (q \div 2) + (q % 2) /\ q \div 2 \in Nat /\ q % 2 \in 0..1
    OBVIOUS
  <2> QED BY <2>1
<1> DEFINE m == 2 * n
           x == b * n + r
<1>3. m \in Nat \ {0} /\ x \in 0..(m - 1)
  <2>1. CASE b = 0
    BY <2>1
  <2>2. CASE b = 1
    BY <2>2
  <2> QED BY <2>1, <2>2
<1>4. a = m * h + x
  <2>1. CASE b = 0
    BY <1>1, <1>2, <2>1
  <2>2. CASE b = 1
    <3>1. n * (2 * h + 1) = n * (2 * h) + n
      OBVIOUS
    <3>2. n * (2 * h) = m * h
      <4>1. n * (2 * h) = 2 * (n * h)
        OBVIOUS
      <4>2. m * h = 2 * (n * h)
        OBVIOUS
      <4> QED BY <4>1, <4>2
    <3>3. n * q = m * h + n
      BY <1>2, <2>2, <3>1, <3>2
    <3>4. x = n + r
      BY <2>2
    <3>5. m * h \in Nat
      OBVIOUS
    <3> HIDE DEF m, x
    <3> QED BY <1>1, <3>3, <3>4, <3>5
  <2> QED BY <2>1, <2>2
<1>5. a \div m = h
  <2> HIDE DEF m, x
  <2>1. a = m * (a \div m) + (a % m) /\ a \div m \in Nat /\ a % m \in 0..(m - 1)
    BY <1>3
  <2> QED BY <1>3, <1>4, <2>1
<1> QED BY <1>1, <1>2, <1>5

Turn(way, l) == IF GoesRight(way, l) THEN 1 ELSE 0

\* The nodes over a way: one for each level, and each the child of the one above
\* it on the side to which the way goes.
LEMMA PathOfWay ==
  ASSUME NEW w \in UocWays
  PROVE /\ Ancestor(w, 0) = 0
        /\ Ancestor(w, Levels) = Power[Levels] - 1 + w
        /\ \A l \in 0..(Levels - 1) :
              Ancestor(w, l + 1) = 2 * Ancestor(w, l) + 1 + Turn(w, l)
        /\ \A l \in 0..Levels : Ancestor(w, l) \in (Power[l] - 1)..(2 * Power[l] - 2)
<1> DEFINE Bits(l) == w \div Power[Levels - l]
<1>1. Levels \in Nat /\ w \in Nat /\ w < Power[Levels] /\ Power[Levels] \in Nat \ {0}
  BY UocAssumption, PowerDoubles DEF UocWays
<1>2. \A l \in 0..Levels : Bits(l) \in Nat
  <2> SUFFICES ASSUME NEW l \in 0..Levels PROVE Bits(l) \in Nat
    OBVIOUS
  <2>1. Levels - l \in 0..Levels
    BY <1>1
  <2>2. PICK n \in Nat \ {0} : n = Power[Levels - l]
    BY <2>1, PowerDoubles
  <2>3. w \div n \in Nat
    BY <1>1
  <2> QED BY <2>2, <2>3
<1>3. ASSUME NEW l \in 0..(Levels - 1) PROVE Bits(l + 1) = 2 * Bits(l) + Turn(w, l)
  <2>1. Levels - l - 1 \in 0..(Levels - 1) /\ Levels - (l + 1) = Levels - l - 1
        /\ (Levels - l - 1) + 1 = Levels - l
    BY <1>1
  <2>2. PICK n \in Nat \ {0} : n = Power[Levels - l - 1]
    BY <2>1, <1>1, PowerDoubles
  <2>3. Power[Levels - l] = 2 * n
    BY <2>1, <2>2, PowerDoubles
  <2>4. w \div n = 2 * (w \div (2 * n)) + ((w \div n) % 2)
    BY <1>1, HalvedOnceMore
  <2>5. (w \div n) % 2 = Turn(w, l)
    <3>1. w \div n \in Nat
      BY <1>1
    <3>2. (w \div n) % 2 \in {0, 1}
      BY <3>1
    <3> QED BY <2>2, <3>2 DEF Turn, GoesRight
  <2> QED BY <2>1, <2>2, <2>3, <2>4, <2>5
<1>4. Bits(0) = 0
  <2>1. PICK n \in Nat \ {0} : n = Power[Levels]
    BY <1>1
  <2>2. w = n * (w \div n) + (w % n) /\ w \div n \in Nat /\ w % n \in Nat
    BY <1>1
  <2>3. w \div n = 0
    <3> PICK q \in Nat : q = w \div n
      BY <2>2
    <3>1. CASE q >= 1
      <4>1. n * q >= n
        BY <3>1
      <4> QED BY <1>1, <2>1, <2>2, <4>1
    <3> QED BY <3>1
  <2>4. Levels - 0 = Levels
    BY <1>1
  <2> QED BY <2>1, <2>3, <2>4
<1>5. Bits(Levels) = w
  <2>1. Levels - Levels = 0
    BY <1>1
  <2>2. w \div 1 = w
    BY <1>1
  <2> QED BY <2>1, <2>2, PowerDoubles
<1>6. \A l \in 0..Levels : Ancestor(w, l) = Power[l] - 1 + Bits(l)
  BY DEF Ancestor
<1>7. \A l \in 0..(Levels - 1) : Turn(w, l) \in 0..1
  BY DEF Turn
<1> HIDE DEF Bits
<1>8. ASSUME NEW l \in 0..(Levels - 1)
      PROVE Ancestor(w, l + 1) = 2 * Ancestor(w, l) + 1 + Turn(w, l)
  <2>1. l \in 0..Levels /\ l + 1 \in 0..Levels
    BY <1>1
  <2>2. PICK n \in Nat : n = Power[l] /\ Power[l + 1] = 2 * n
    BY <2>1, PowerDoubles
  <2> QED BY <1>2, <1>3, <1>6, <1>7, <2>1, <2>2
<1>9. \A l \in 0..Levels : Bits(l) < Power[l]
  <2> DEFINE S == {l \in 0..Levels : ~ (Bits(l) < Power[l])}
  <2> SUFFICES ASSUME S # {} PROVE FALSE
    OBVIOUS
  <2>1. PICK k \in S : \A j \in S : k <= j
    <3>1. S \in SUBSET Nat
      BY <1>1
    <3> HIDE DEF S
    <3> QED BY <3>1, LeastExists
  <2>2. k \in 0..Levels /\ k # 0
    BY <1>4, PowerDoubles
  <2>3. k - 1 \in 0..(Levels - 1) /\ (k - 1) + 1 = k /\ k - 1 \in 0..Levels /\ k - 1 \notin S
    BY <1>1, <2>1, <2>2
  <2>4. Bits(k - 1) < Power[k - 1] /\ Power[k - 1] \in Nat /\ Bits(k - 1) \in Nat
    BY <1>2, <2>3, PowerDoubles
  <2>5. Bits(k) = 2 * Bits(k - 1) + Turn(w, k - 1) /\ Turn(w, k - 1) \in 0..1
    BY <1>3, <1>7, <2>3
  <2>6. Power[k] = 2 * Power[k - 1]
    BY <2>3, PowerDoubles
  <2>7. Bits(k) < Power[k]
    BY <2>4, <2>5, <2>6
  <2> QED BY <2>7
<1>10. \A l \in 0..Levels : Ancestor(w, l) \in (Power[l] - 1)..(2 * Power[l] - 2)
  BY <1>2, <1>6, <1>9, PowerDoubles
<1>11. Ancestor(w, 0) = 0 /\ Ancestor(w, Levels) = Power[Levels] - 1 + w
  BY <1>1, <1>4, <1>5, <1>6, PowerDoubles
<1> QED BY <1>8, <1>10, <1>11

\* No node lies on two levels.
LEMMA LevelsApart ==
  ASSUME NEW w \in UocWays, NEW v \in UocWays,
         NEW l \in 0..(Levels - 1), NEW m \in 0..(Levels - 1),
         Ancestor(w, l) = Ancestor(v, m)
  PROVE l = m
<1>1. ASSUME NEW i \in 0..(Levels - 1)
      PROVE \A j \in 0..(Levels - 1) : i < j => 2 * Power[i] <= Power[j]
  <2> DEFINE S == {j \in 0..(Levels - 1) : i < j /\ ~ (2 * Power[i] <= Power[j])}
  <2> SUFFICES ASSUME S # {} PROVE FALSE
    OBVIOUS
  <2>1. PICK k \in S : \A j \in S : k <= j
    <3>1. S \in SUBSET Nat
      BY UocAssumption
    <3> HIDE DEF S
    <3> QED BY <3>1, LeastExists
  <2>2. k \in 0..(Levels - 1) /\ i < k
    OBVIOUS
  <2>3. k - 1 \in 0..(Levels - 1) /\ (k - 1) + 1 = k /\ (k - 1 = i \/ i < k - 1)
    BY <2>2, UocAssumption
  <2>4. k - 1 \notin S
    BY <2>1, <2>2
  <2>5. Power[k] = 2 * Power[k - 1]
    BY <2>3, PowerDoubles
  <2>6. Power[i] \in Nat /\ Power[k - 1] \in Nat
    <3>1. i \in 0..Levels /\ k - 1 \in 0..Levels
      BY <2>3, UocAssumption
    <3> QED BY <3>1, PowerDoubles
  <2>7. k - 1 = i \/ 2 * Power[i] <= Power[k - 1]
    BY <2>3, <2>4
  <2>8. 2 * Power[i] <= Power[k]
    BY <2>5, <2>6, <2>7
  <2> QED BY <2>8
<1>2. /\ l \in 0..Levels /\ m \in 0..Levels
      /\ Power[l] \in Nat /\ Power[m] \in Nat
  BY UocAssumption, PowerDoubles
<1>3. /\ Ancestor(w, l) \in (Power[l] - 1)..(2 * Power[l] - 2)
      /\ Ancestor(v, m) \in (Power[m] - 1)..(2 * Power[m] - 2)
  BY <1>2, PathOfWay
<1>4. CASE l < m
  BY <1>1, <1>2, <1>3, <1>4
<1>5. CASE m < l
  BY <1>1, <1>2, <1>3, <1>5
<1> QED BY <1>4, <1>5

\* A node and the way that comes through it.
LEMMA NodeOfWay ==
  ASSUME NEW w \in UocWays, NEW l \in 0..(Levels - 1)
  PROVE Ancestor(w, l) \in Nat /\ Turn(w, l) \in 0..1
<1>1. l \in 0..Levels
  BY UocAssumption
<1>2. Power[l] \in Nat \ {0}
  BY <1>1, PowerDoubles
<1>3. Ancestor(w, l) \in (Power[l] - 1)..(2 * Power[l] - 2)
  BY <1>1, PathOfWay
<1> QED BY <1>2, <1>3 DEF Turn

\* Two ways that share a node share all above it, and the sides they take there.
LEMMA SharedAbove ==
  ASSUME NEW w \in UocWays, NEW v \in UocWays, NEW m \in 0..Levels,
         Ancestor(w, m) = Ancestor(v, m)
  PROVE \A l \in 0..(m - 1) :
           Ancestor(w, l) = Ancestor(v, l) /\ (GoesRight(w, l) <=> GoesRight(v, l))
<1> DEFINE Same(l) == Ancestor(w, l) = Ancestor(v, l)
           S == {d \in 0..m : ~ Same(m - d)}
<1>1. ASSUME NEW l \in 0..(Levels - 1), Same(l + 1)
      PROVE Same(l) /\ (GoesRight(w, l) <=> GoesRight(v, l))
  <2>1. 2 * Ancestor(w, l) + 1 + Turn(w, l) = 2 * Ancestor(v, l) + 1 + Turn(v, l)
    BY <1>1, PathOfWay
  <2>2. /\ Ancestor(w, l) \in Nat /\ Turn(w, l) \in 0..1
        /\ Ancestor(v, l) \in Nat /\ Turn(v, l) \in 0..1
    BY NodeOfWay
  <2>3. Ancestor(w, l) = Ancestor(v, l) /\ Turn(w, l) = Turn(v, l)
    BY <2>1, <2>2
  <2> QED BY <2>3 DEF Turn
<1>2. m \in Nat /\ m <= Levels
  BY UocAssumption
<1>3. S = {}
  <2> SUFFICES ASSUME S # {} PROVE FALSE
    OBVIOUS
  <2>1. PICK k \in S : \A j \in S : k <= j
    <3>1. S \in SUBSET Nat
      BY <1>2
    <3> HIDE DEF S
    <3> QED BY <3>1, LeastExists
  <2>2. k \in 0..m /\ ~ Same(m - k)
    OBVIOUS
  <2> HIDE DEF Same
  <2>3. k # 0
    <3>1. m - 0 = m /\ Same(m)
      BY <1>2 DEF Same
    <3> QED BY <2>2, <3>1
  <2>4. k - 1 \in 0..m /\ k - 1 \notin S
    BY <1>2, <2>1, <2>2, <2>3
  <2>5. m - k \in 0..(Levels - 1) /\ (m - k) + 1 = m - (k - 1)
    BY <1>2, <2>2, <2>3, UocAssumption
  <2>6. Same(m - (k - 1))
    BY <2>4
  <2> QED BY <1>1, <2>2, <2>5, <2>6
<1>4. ASSUME NEW l \in 0..m PROVE Same(l)
  <2> HIDE DEF Same
  <2>1. m - l \in 0..m /\ m - (m - l) = l
    BY <1>2
  <2> QED BY <1>3, <2>1
<1>5. ASSUME NEW l \in 0..(m - 1)
      PROVE Ancestor(w, l) = Ancestor(v, l) /\ (GoesRight(w, l) <=> GoesRight(v, l))
  <2>1. l \in 0..(Levels - 1) /\ l + 1 \in 0..m
    BY <1>2, UocAssumption
  <2>2. Same(l + 1)
    BY <1>4, <2>1
  <2> QED BY <1>1, <2>1, <2>2
<1> QED BY <1>5

\* The victim is the way that every bit on its path points to.
LEMMA VictimIsPointedTo ==
  ASSUME NEW t
  PROVE /\ Victim(t) \in UocWays
        /\ \A l \in 0..(Levels - 1) :
              GoesRight(Victim(t), l) <=> Ancestor(Victim(t), l) \in t
<1> DEFINE node(l) == Descent(t)[l]
           v == Victim(t)
           bit(l) == IF node(l) \in t THEN 1 ELSE 0
<1>1. Levels \in Nat
  BY UocAssumption
<1>2. /\ node(0) = 0
      /\ \A l \in 0..(Levels - 1) : node(l + 1) = 2 * node(l) + 1 + bit(l)
  BY DescentTurns
<1>3. v = node(Levels) - (Power[Levels] - 1)
  BY DEF Victim
<1>4. \A l \in 0..(Levels - 1) : bit(l) \in 0..1
  OBVIOUS
<1>5. \A l \in 0..(Levels - 1) : bit(l) = 1 <=> node(l) \in t
  OBVIOUS
<1> HIDE DEF node, v, bit
<1>6. \A l \in 0..Levels : node(l) \in (Power[l] - 1)..(2 * Power[l] - 2)
  <2> DEFINE S == {l \in 0..Levels : ~ (node(l) \in (Power[l] - 1)..(2 * Power[l] - 2))}
  <2> SUFFICES ASSUME S # {} PROVE FALSE
    OBVIOUS
  <2>1. PICK k \in S : \A j \in S : k <= j
    <3>1. S \in SUBSET Nat
      BY <1>1
    <3> HIDE DEF S
    <3> QED BY <3>1, LeastExists
  <2>2. k \in 0..Levels /\ k # 0
    BY <1>2, PowerDoubles
  <2>3. k - 1 \in 0..(Levels - 1) /\ (k - 1) + 1 = k /\ k - 1 \in 0..Levels /\ k - 1 \notin S
    BY <1>1, <2>1, <2>2
  <2>4. PICK n \in Nat \ {0} : n = Power[k - 1] /\ Power[k] = 2 * n
    BY <2>3, PowerDoubles
  <2>5. node(k - 1) \in (n - 1)..(2 * n - 2)
    BY <2>3, <2>4
  <2>6. node(k) = 2 * node(k - 1) + 1 + bit(k - 1) /\ bit(k - 1) \in 0..1
    BY <1>2, <1>4, <2>3
  <2>7. node(k) \in (2 * n - 1)..(2 * (2 * n) - 2)
    BY <2>5, <2>6
  <2> QED BY <2>4, <2>7
<1>7. v \in UocWays
  <2>1. PICK n \in Nat \ {0} : n = Power[Levels]
    BY <1>1, PowerDoubles
  <2>2. node(Levels) \in (n - 1)..(2 * n - 2)
    BY <1>1, <1>6, <2>1
  <2> QED BY <1>3, <2>1, <2>2 DEF UocWays
<1>8. Ancestor(v, Levels) = node(Levels)
  <2>1. Power[Levels] \in Nat
    BY <1>1, PowerDoubles
  <2>2. node(Levels) \in Int
    BY <1>1, <1>6, <2>1
  <2>3. Ancestor(v, Levels) = Power[Levels] - 1 + v
    BY <1>7, PathOfWay
  <2> QED BY <1>3, <2>1, <2>2, <2>3
<1>9. ASSUME NEW l \in 0..(Levels - 1), Ancestor(v, l + 1) = node(l + 1)
      PROVE Ancestor(v, l) = node(l) /\ (GoesRight(v, l) <=> node(l) \in t)
  <2>1. 2 * Ancestor(v, l) + 1 + Turn(v, l) = 2 * node(l) + 1 + bit(l)
    BY <1>2, <1>7, <1>9, PathOfWay
  <2>2. Ancestor(v, l) \in Nat /\ Turn(v, l) \in 0..1
    BY <1>7, NodeOfWay
  <2>3. node(l) \in Int /\ bit(l) \in 0..1
    <3>1. l \in 0..Levels
      BY <1>1
    <3>2. Power[l] \in Nat
      BY <3>1, PowerDoubles
    <3> QED BY <1>4, <1>6, <3>1, <3>2
  <2>4. Ancestor(v, l) = node(l) /\ Turn(v, l) = bit(l)
    BY <2>1, <2>2, <2>3
  <2> QED BY <1>5, <2>4 DEF Turn
<1>10. \A l \in 0..Levels : Ancestor(v, l) = node(l)
  <2> DEFINE Same(l) == Ancestor(v, l) = node(l)
             S == {d \in 0..Levels : ~ Same(Levels - d)}
  <2>1. S = {}
    <3> SUFFICES ASSUME S # {} PROVE FALSE
      OBVIOUS
    <3>1. PICK k \in S : \A j \in S : k <= j
      <4>1. S \in SUBSET Nat
        BY <1>1
      <4> HIDE DEF S
      <4> QED BY <4>1, LeastExists
    <3>2. k \in 0..Levels /\ ~ Same(Levels - k)
      OBVIOUS
    <3> HIDE DEF Same
    <3>3. k # 0
      <4>1. Levels - 0 = Levels /\ Same(Levels)
        BY <1>1, <1>8 DEF Same
      <4> QED BY <3>2, <4>1
    <3>4. k - 1 \in 0..Levels /\ k - 1 \notin S
      BY <1>1, <3>1, <3>2, <3>3
    <3>5. Levels - k \in 0..(Levels - 1) /\ (Levels - k) + 1 = Levels - (k - 1)
      BY <1>1, <3>2, <3>3
    <3>6. Same(Levels - (k - 1))
      BY <3>4
    <3>7. Same(Levels - k)
      BY <1>9, <3>5, <3>6 DEF Same
    <3> QED BY <3>2, <3>7
  <2>2. ASSUME NEW l \in 0..Levels PROVE Same(l)
    <3> HIDE DEF Same
    <3>1. Levels - l \in 0..Levels /\ Levels - (Levels - l) = l
      BY <1>1
    <3> QED BY <2>1, <3>1
  <2> QED BY <2>2
<1>11. ASSUME NEW l \in 0..(Levels - 1) PROVE GoesRight(v, l) <=> Ancestor(v, l) \in t
  <2>1. l + 1 \in 0..Levels /\ l \in 0..Levels
    BY <1>1
  <2> QED BY <1>9, <1>10, <2>1
<1> QED BY <1>7, <1>11 DEF v

\* Where the bit of a node points to a way that was touched, another way under
\* that node, on its other side, has been touched since.
PathInv ==
    /\ DOMAIN tree = 0..(Sets - 1) /\ DOMAIN later = 0..(Sets - 1)
    /\ \A s \in 0..(Sets - 1) : \A v \in DOMAIN later[s] :
          /\ v \in UocWays /\ later[s][v] \subseteq UocWays
          /\ \A l \in 0..(Levels - 1) :
                (GoesRight(v, l) <=> Ancestor(v, l) \in tree[s])
                => \E w \in later[s][v] : /\ Ancestor(w, l) = Ancestor(v, l)
                                          /\ GoesRight(w, l) <=> ~GoesRight(v, l)

\* After a touch each node over the way points to its other side, and the other
\* nodes are as they were.
LEMMA TouchTurns ==
  ASSUME NEW t, NEW x \in UocWays, NEW v \in UocWays, NEW l \in 0..(Levels - 1)
  PROVE Ancestor(v, l) \in Touch(t, x) <=>
            IF Ancestor(v, l) = Ancestor(x, l) THEN ~GoesRight(x, l)
            ELSE Ancestor(v, l) \in t
<1> DEFINE n == Ancestor(v, l)
<1>1. \A m \in 0..(Levels - 1) : n = Ancestor(x, m) => m = l
  BY LevelsApart
<1> HIDE DEF n
<1>2. n \in {Ancestor(x, k) : k \in {m \in 0..(Levels - 1) : ~GoesRight(x, m)}}
        <=> n = Ancestor(x, l) /\ ~GoesRight(x, l)
  BY <1>1
<1>3. (\A m \in 0..(Levels - 1) : n # Ancestor(x, m)) <=> n # Ancestor(x, l)
  BY <1>1
<1> QED BY <1>2, <1>3 DEF Touch, n

\* A way that is sealed or replaced is one of the ways.
LEMMA WayOfSeal ==
  ASSUME NEW s, NEW found, found = {} \/ (found # {} /\ found \subseteq UocWays)
  PROVE (IF found # {} THEN Min(found) ELSE Place(s)) \in UocWays
<1>1. ASSUME NEW S \in SUBSET UocWays, S # {} PROVE Min(S) \in UocWays
  <2>1. UocWays \subseteq Nat
    BY UocAssumption DEF UocWays
  <2>2. \E i \in S : \A j \in S : i <= j
    BY <1>1, <2>1, LeastExists
  <2> QED BY <2>2 DEF Min
<1>2. Victim(tree[s]) \in UocWays
  BY VictimIsPointedTo
<1>3. Place(s) \in UocWays
  <2> DEFINE free == {w \in UocWays : tags[s][w] = {}}
  <2>1. free \in SUBSET UocWays
    OBVIOUS
  <2>2. Place(s) = IF free # {} THEN Min(free) ELSE Victim(tree[s])
    BY DEF Place
  <2> HIDE DEF free
  <2> QED BY <1>1, <1>2, <2>1, <2>2
<1> QED BY <1>1, <1>3

\* Sealing an entry touches one way of one set.
LEMMA SealKeepsPaths ==
  ASSUME PathInv, NEW b, Seal(b)
  PROVE PathInv'
<1>1. PICK i, x : /\ x \in UocWays
                  /\ tree' = [tree EXCEPT ![i] = Touch(@, x)]
                  /\ later' = [later EXCEPT ![i] = Touched(@, x)]
  <2> DEFINE i == Index(b.head)
             found == Find(i, Tag(b.head))
             x == IF found # {} THEN Min(found) ELSE Place(i)
  <2>1. found \subseteq UocWays
    BY DEF Find
  <2>2. /\ tree' = [tree EXCEPT ![i] = Touch(@, x)]
        /\ later' = [later EXCEPT ![i] = Touched(@, x)]
    BY DEF Seal
  <2> HIDE DEF found
  <2>3. x \in UocWays
    BY <2>1, WayOfSeal
  <2> QED BY <2>2, <2>3
<1>2. DOMAIN tree' = 0..(Sets - 1) /\ DOMAIN later' = 0..(Sets - 1)
  BY <1>1 DEF PathInv
<1>3. ASSUME NEW s \in 0..(Sets - 1), NEW v \in DOMAIN later'[s]
      PROVE /\ v \in UocWays /\ later'[s][v] \subseteq UocWays
            /\ \A l \in 0..(Levels - 1) :
                  (GoesRight(v, l) <=> Ancestor(v, l) \in tree'[s])
                  => \E w \in later'[s][v] : /\ Ancestor(w, l) = Ancestor(v, l)
                                             /\ GoesRight(w, l) <=> ~GoesRight(v, l)
  <2>1. CASE s # i
    <3>1. later'[s] = later[s] /\ tree'[s] = tree[s]
      BY <1>1, <2>1 DEF PathInv
    <3> QED BY <1>3, <3>1 DEF PathInv
  <2>2. CASE s = i
    <3>1. tree'[s] = Touch(tree[s], x) /\ later'[s] = Touched(later[s], x)
      BY <1>1, <2>2 DEF PathInv
    <3>2. /\ v \in DOMAIN later[s] \union {x}
          /\ later'[s][v] = IF v = x THEN {} ELSE later[s][v] \union {x}
      BY <1>3, <3>1 DEF Touched
    <3>3. v \in UocWays /\ later'[s][v] \subseteq UocWays
      BY <1>1, <3>2 DEF PathInv
    <3>4. ASSUME NEW l \in 0..(Levels - 1), GoesRight(v, l) <=> Ancestor(v, l) \in tree'[s]
          PROVE \E w \in later'[s][v] : /\ Ancestor(w, l) = Ancestor(v, l)
                                        /\ GoesRight(w, l) <=> ~GoesRight(v, l)
      <4>1. Ancestor(v, l) \in tree'[s] <=>
                IF Ancestor(v, l) = Ancestor(x, l) THEN ~GoesRight(x, l)
                ELSE Ancestor(v, l) \in tree[s]
        BY <1>1, <3>1, <3>3, TouchTurns
      <4>2. CASE Ancestor(v, l) = Ancestor(x, l)
        <5>1. GoesRight(v, l) <=> ~GoesRight(x, l)
          BY <3>4, <4>1, <4>2
        <5>2. v # x
          BY <5>1
        <5>3. x \in later'[s][v]
          BY <3>2, <5>2
        <5> QED BY <4>2, <5>1, <5>3
      <4>3. CASE Ancestor(v, l) # Ancestor(x, l)
        <5>1. v # x
          BY <4>3
        <5>2. v \in DOMAIN later[s] /\ later[s][v] \subseteq later'[s][v]
          BY <3>2, <5>1
        <5>3. GoesRight(v, l) <=> Ancestor(v, l) \in tree[s]
          BY <3>4, <4>1, <4>3
        <5>4. \E w \in later[s][v] : /\ Ancestor(w, l) = Ancestor(v, l)
                                     /\ GoesRight(w, l) <=> ~GoesRight(v, l)
          BY <5>2, <5>3 DEF PathInv
        <5> QED BY <5>2, <5>4
      <4> QED BY <4>2, <4>3
    <3> QED BY <3>3, <3>4
  <2> QED BY <2>1, <2>2
<1> QED BY <1>2, <1>3 DEF PathInv

\* The other events of a trace touch no way.
LEMMA PathInvariant == UocSpec => []PathInv
<1>1. UocInit => PathInv
  <2> SUFFICES ASSUME UocInit PROVE PathInv
    OBVIOUS
  <2>1. DOMAIN tree = 0..(Sets - 1) /\ DOMAIN later = 0..(Sets - 1)
    BY DEF UocInit
  <2>2. ASSUME NEW s \in 0..(Sets - 1) PROVE DOMAIN later[s] = {}
    <3>1. later[s] = << >>
      BY DEF UocInit
    <3> QED BY <3>1
  <2> QED BY <2>1, <2>2 DEF PathInv
<1>2. PathInv /\ [UocNext]_uocVars => PathInv'
  <2> SUFFICES ASSUME PathInv, [UocNext]_uocVars PROVE PathInv'
    OBVIOUS
  <2>1. CASE UNCHANGED <<tree, later>>
    BY <2>1 DEF PathInv
  <2>2. ASSUME NEW b, Seal(b) PROVE PathInv'
    BY <2>2, SealKeepsPaths
  <2>3. ASSUME NEW g \in Groups, Deliver(g) PROVE PathInv'
    BY <2>1, <2>3 DEF Deliver
  <2>4. ASSUME NEW g \in group, Slot(g) PROVE PathInv'
    <3>1. (\E b : Seal(b)) \/ UNCHANGED <<tree, later>>
      BY <2>4 DEF Slot
    <3> QED BY <2>1, <2>2, <3>1
  <2>5. ASSUME FlushEntry PROVE PathInv'
    BY <2>1, <2>5 DEF FlushEntry
  <2>6. ASSUME EndTrace PROVE PathInv'
    <3>1. PICK b \in build : Seal(b)
      BY <2>6 DEF EndTrace
    <3> QED BY <2>2, <3>1
  <2>7. CASE UNCHANGED uocVars
    BY <2>1, <2>7 DEF uocVars
  <2> QED BY <2>3, <2>4, <2>5, <2>6, <2>7 DEF UocNext
<1> QED BY <1>1, <1>2, PTL DEF UocSpec

\* For a tree of any depth, no way is the victim before as many others as there
\* are levels have been touched since it was (PLRUSet.touch and PLRUSet.victim):
\* every bit on its path points to it, so each level has a witness of its own.
THEOREM VictimsAreOld == UocSpec => []VictimIsOld
<1>1. PathInv => VictimIsOld
  <2> SUFFICES ASSUME PathInv, NEW s \in 0..(Sets - 1),
                      Victim(tree[s]) \in DOMAIN later[s]
               PROVE Cardinality(later[s][Victim(tree[s])]) >= Levels
    BY DEF VictimIsOld, PathInv
  <2> DEFINE v == Victim(tree[s])
             T == later[s][v]
             L == 0..(Levels - 1)
             Parts(w, l) == /\ Ancestor(w, l) = Ancestor(v, l)
                            /\ GoesRight(w, l) <=> ~GoesRight(v, l)
  <2>1. v \in UocWays /\ \A l \in L : GoesRight(v, l) <=> Ancestor(v, l) \in tree[s]
    BY VictimIsPointedTo
  <2>2. T \subseteq UocWays /\ \A l \in L : \E w \in T : Parts(w, l)
    BY <2>1, Zenon DEF PathInv
  <2>3. ASSUME NEW w \in T, NEW l \in L, NEW m \in L, Parts(w, l), Parts(w, m), l < m
        PROVE FALSE
    <3>1. w \in UocWays /\ v \in UocWays /\ m \in 0..Levels /\ l \in 0..(m - 1)
      BY <2>1, <2>2, <2>3, UocAssumption
    <3> HIDE DEF v
    <3>2. GoesRight(w, l) <=> GoesRight(v, l)
      BY <2>3, <3>1, SharedAbove
    <3> QED BY <2>3, <3>2
  <2> HIDE DEF v, T, Parts
  <2> DEFINE f == [l \in L |-> CHOOSE w \in T : Parts(w, l)]
  <2>4. \A l \in L : f[l] \in T /\ Parts(f[l], l)
    BY <2>2
  <2>5. ASSUME NEW l \in L, NEW m \in L, f[l] = f[m] PROVE l = m
    <3>1. ~ (l < m) /\ ~ (m < l)
      BY <2>3, <2>4, <2>5
    <3> QED BY <3>1, UocAssumption
  <2>6. f \in [L -> T]
    BY <2>4
  <2> HIDE DEF f
  <2>7. f \in Injection(L, T)
    BY <2>5, <2>6 DEF Injection, IsInjective
  <2>8. IsFiniteSet(T)
    <3>1. IsFiniteSet(UocWays)
      <4>1. Levels \in 0..Levels
        BY UocAssumption
      <4>2. Power[Levels] - 1 \in Int
        BY <4>1, PowerDoubles
      <4> QED BY <4>2, FS_Interval DEF UocWays
    <3> QED BY <2>2, <3>1, FS_Subset
  <2>9. Cardinality(L) = Levels
    BY UocAssumption, FS_Interval
  <2>10. Cardinality(L) <= Cardinality(T)
    BY <2>7, <2>8, FS_Injection
  <2>11. Cardinality(T) \in Nat
    BY <2>8, FS_CardinalityType
  <2> QED BY <2>9, <2>10, <2>11, UocAssumption DEF v, T
<1> QED BY <1>1, PathInvariant, PTL

-----------------------------------------------------------------------------
\* sim_platform.py and elf2hex.py

\* A program whose sections can be placed.
IsProgram(file) ==
    /\ IsFiniteSet(file.sections)
    /\ \A s \in file.sections : s.lma \in Nat /\ s.size \in Nat

ImageFrom(b, r, program) ==
    IF PlatformRow[r].format = "elf" THEN Hex(program, program, PlatformRow[r].base, b.args.objdump)
    ELSE Binary(program)

\* The image of a row that was built, if all that was read of the program is v.
ImageFits(b, r, reads) ==
    /\ PlatformRow[r].format # "none"
    /\ \A v \in reads : v \in DOMAIN Program[r]
    /\ \A v \in reads : reads = {v} =>
          images[r] = {[bytes |-> ImageFrom(b, r, Program[r][v]), by |-> preps]}

\* A row that is ready keeps its image: no row that is still to come has it.
RowFits(b, row) ==
    /\ row.row \in Rows /\ \A i \in b.todo : RowSeq[i] # row.row
    /\ ~row.given =>
          /\ ImageFits(b, row.row, row.reads)
          /\ PlatformRow[row.row].format = "elf" /\ b.args.nm /\ PlatformRow[row.row].tohost = {} =>
                \A v \in row.reads : row.reads = {v} => row.tohost = Program[row.row][v].tohost

\* The row that is being prepared: what was read of its program so far.
UnderwayFits(b) ==
    /\ b.phase \in {"align", "symbols"} => b.todo # {}
    /\ b.phase = "align" =>
          /\ PlatformRow[NextRow(b)].format = "elf" /\ ~GivenHex(b, NextRow(b))
          /\ b.copied \in DOMAIN Program[NextRow(b)] /\ b.reads = {b.copied}
    /\ b.phase = "symbols" /\ ~GivenHex(b, NextRow(b)) =>
          b.reads # {} /\ ImageFits(b, NextRow(b), b.reads)

PrepShape(b) == [args : PlatformArgs, todo : SUBSET DOMAIN RowSeq, rows : {b.rows},
                 phase : {"prepare", "align", "symbols", "run"}, copied : {b.copied},
                 reads : {b.reads}]

PlatformInv ==
    /\ DOMAIN version = Rows /\ \A r \in Rows : version[r] \in DOMAIN Program[r]
    /\ DOMAIN images = Rows
    /\ \A b \in prep : b \in PrepShape(b) /\ UnderwayFits(b) /\ \A row \in b.rows : RowFits(b, row)

-----------------------------------------------------------------------------
\* The operator of the community module is the least member.
LEMMA LeastIs ==
  ASSUME NEW S \in SUBSET Nat, S # {}
  PROVE Min(S) \in S /\ \A x \in S : Min(S) <= x
BY LeastExists DEF Min

\* The operator of the community module is the greatest member.
LEMMA GreatestIs ==
  ASSUME NEW S \in SUBSET Nat, IsFiniteSet(S), S # {}
  PROVE Max(S) \in S /\ \A x \in S : x <= Max(S)
<1>1. S \in SUBSET Int
  OBVIOUS
<1> QED BY <1>1, GreatestExists DEF Max

\* The addresses of a program: a finite set, that begins at the lowest section.
LEMMA AddressesAre ==
  ASSUME NEW file, IsProgram(file), Placed(file) # {}
  PROVE LET all == UNION {Bytes(s) : s \in Placed(file)}
        IN  /\ Lowest(file) \in Nat /\ Max(all) \in Nat /\ Lowest(file) <= Max(all)
            /\ \A a \in all : a \in Nat /\ a >= Lowest(file)
            /\ \A s \in Placed(file) : Lowest(file) <= s.lma
<1> DEFINE all == UNION {Bytes(s) : s \in Placed(file)}
           lmas == {s.lma : s \in Placed(file)}
<1>1. lmas \in SUBSET Nat /\ lmas # {}
  BY DEF IsProgram, Placed
<1>2. Lowest(file) \in Nat /\ \A x \in lmas : Lowest(file) <= x
  <2> HIDE DEF lmas
  <2>1. Min(lmas) \in lmas /\ \A x \in lmas : Min(lmas) <= x
    BY <1>1, LeastIs
  <2>2. Lowest(file) = Min(lmas)
    BY DEF Lowest, lmas
  <2> QED BY <1>1, <2>1, <2>2
<1>3. \A s \in Placed(file) : s.lma \in Nat /\ s.size \in Nat /\ s.size > 0 /\ Lowest(file) <= s.lma
  BY <1>2 DEF IsProgram, Placed
<1>4. \A s \in Placed(file) : /\ IsFiniteSet(Bytes(s)) /\ s.lma \in Bytes(s)
                             /\ \A a \in Bytes(s) : a \in Nat /\ a >= Lowest(file)
  <2> TAKE s \in Placed(file)
  <2>1. PICK m \in Nat, n \in Nat : m = s.lma /\ n = s.size /\ n > 0 /\ Lowest(file) <= m
    BY <1>3
  <2>2. Bytes(s) = m..(m + n - 1)
    BY <2>1 DEF Bytes
  <2>3. IsFiniteSet(m..(m + n - 1))
    BY FS_Interval
  <2> QED BY <1>2, <2>1, <2>2, <2>3
<1>5. all \in SUBSET Nat /\ all # {} /\ \A a \in all : a >= Lowest(file)
  BY <1>4
<1>6. IsFiniteSet(all)
  <2> DEFINE parts == {Bytes(s) : s \in Placed(file)}
             f == [s \in Placed(file) |-> Bytes(s)]
  <2>1. IsFiniteSet(Placed(file))
    BY FS_Subset DEF IsProgram, Placed
  <2>2. f \in Surjection(Placed(file), parts)
    BY DEF Surjection
  <2>3. IsFiniteSet(parts)
    <3> HIDE DEF f, parts
    <3> QED BY <2>1, <2>2, FS_Surjection
  <2>4. \A x \in parts : IsFiniteSet(x)
    BY <1>4
  <2> HIDE DEF parts
  <2>5. IsFiniteSet(UNION parts)
    BY <2>3, <2>4, FS_UNION
  <2> QED BY <2>5 DEF parts
<1>7. Max(all) \in all
  <2> HIDE DEF all
  <2> QED BY <1>5, <1>6, GreatestIs
<1> HIDE DEF all
<1>8. Max(all) \in Nat /\ Lowest(file) <= Max(all)
  BY <1>5, <1>7
<1> QED BY <1>2, <1>3, <1>5, <1>8 DEF all

\* The gap that is filled is the one before the lowest section.
LEMMA GapIs ==
  ASSUME NEW file, IsProgram(file), NEW base \in Nat, base <= Lowest(file),
         \E s \in Placed(file) : s.lma = Lowest(file) /\ s.flags < 6
  PROVE Gap(file, base, TRUE) = Lowest(file) - base
<1> DEFINE read == {s \in Placed(file) : s.flags < 6}
           lmas == {s.lma : s \in read}
<1>1. Placed(file) # {}
  OBVIOUS
<1>2. Lowest(file) \in Nat /\ \A s \in Placed(file) : Lowest(file) <= s.lma /\ s.lma \in Nat
  BY <1>1, AddressesAre DEF IsProgram, Placed
<1>3. read # {} /\ Lowest(file) \in lmas /\ lmas \in SUBSET Nat /\ \A x \in lmas : Lowest(file) <= x
  BY <1>2
<1>4. Min(lmas) = Lowest(file)
  <2> HIDE DEF lmas
  <2>1. Min(lmas) \in lmas /\ \A x \in lmas : Min(lmas) <= x
    BY <1>3, LeastIs
  <2>2. PICK m \in Nat, l \in Nat : m = Min(lmas) /\ l = Lowest(file)
    BY <1>2, <1>3, <2>1
  <2>3. m <= l /\ l <= m
    BY <1>3, <2>1, <2>2
  <2> QED BY <2>2, <2>3
<1>5. LoadAddr(file, TRUE) = {Lowest(file)}
  BY <1>3, <1>4 DEF LoadAddr
<1> PICK l \in Nat : l = Lowest(file) /\ base <= l
  BY <1>2
<1> DEFINE above == {a \in LoadAddr(file, TRUE) : a > base}
<1>6. CASE l > base
  <2>1. above = {l}
    BY <1>5, <1>6
  <2>2. Min({l}) = l
    BY LeastIs
  <2> QED BY <1>6, <2>1, <2>2 DEF Gap
<1>7. CASE l = base
  <2>1. \A a \in LoadAddr(file, TRUE) : a = base
    BY <1>5, <1>7
  <2>2. ~(base > base) /\ l - base = 0
    BY <1>7
  <2>3. {a \in LoadAddr(file, TRUE) : a > base} = {}
    BY <2>1, <2>2
  <2>4. Gap(file, base, TRUE) = 0
    BY <2>3, Zenon DEF Gap
  <2> QED BY <2>2, <2>4
<1>8. l > base \/ l = base
  OBVIOUS
<1> QED BY <1>6, <1>7, <1>8

\* The zeros before the binary put every byte at its own address.
LEMMA HexIsLoaded ==
  ASSUME NEW file, IsProgram(file), NEW base \in Nat, base <= Lowest(file),
         \E s \in Placed(file) : s.lma = Lowest(file) /\ s.flags < 6
  PROVE Hex(file, file, base, TRUE) = Loaded(file, base)
<1> DEFINE all == UNION {Bytes(s) : s \in Placed(file)}
<1>0. /\ Lowest(file) \in Nat /\ Max(all) \in Nat /\ Lowest(file) <= Max(all)
      /\ \A a \in all : a \in Nat /\ a >= Lowest(file)
  BY AddressesAre
<1> PICK l \in Nat, m \in Nat : l = Lowest(file) /\ m = Max(all) /\ l <= m /\ base <= l
  BY <1>0
<1>1. Gap(file, base, TRUE) = l - base
  BY GapIs
<1>2. Binary(file) = [i \in 1..(m - l + 1) |-> IF l + i - 1 \in all THEN l + i - 1 ELSE Zero]
  BY DEF Binary
<1>3. Loaded(file, base) =
         [i \in 1..(m - base + 1) |-> IF base + i - 1 \in all THEN base + i - 1 ELSE Zero]
  BY DEF Loaded
<1>4. \A a \in all : a \in Nat /\ a >= l
  BY <1>0
<1> HIDE DEF all
<1> PICK g \in Nat : g = l - base
  OBVIOUS
<1> DEFINE zeros == [i \in 1..g |-> Zero]
           bytes == [i \in 1..(m - l + 1) |-> IF l + i - 1 \in all THEN l + i - 1 ELSE Zero]
<1>5. Hex(file, file, base, TRUE) = zeros \o bytes
  BY <1>1, <1>2 DEF Hex
<1> PICK k \in Nat : k = m - l + 1
  OBVIOUS
<1>6. /\ zeros \in Seq(Nat) /\ Len(zeros) = g /\ bytes \in Seq(Nat) /\ Len(bytes) = k
      /\ \A i \in 1..g : zeros[i] = Zero
      /\ \A i \in 1..k : bytes[i] = IF l + i - 1 \in all THEN l + i - 1 ELSE Zero
  <2>1. zeros \in [1..g -> Nat]
    BY DEF Zero
  <2>2. \A i \in 1..k : (IF l + i - 1 \in all THEN l + i - 1 ELSE Zero) \in Nat
    BY <1>4 DEF Zero
  <2>3. bytes \in [1..k -> Nat]
    BY <2>2
  <2> HIDE DEF zeros, bytes
  <2>4. zeros \in Seq(Nat) /\ bytes \in Seq(Nat)
    <3>1. \A n \in Nat : \A f \in [1..n -> Nat] : f \in Seq(Nat)
      BY SeqDef
    <3> QED BY <2>1, <2>3, <3>1
  <2>5. Len(zeros) = g /\ Len(bytes) = k
    BY <2>1, <2>3, <2>4
  <2> QED BY <2>4, <2>5 DEF zeros, bytes
<1> HIDE DEF zeros, bytes
<1>7. zeros \o bytes \in Seq(Nat) /\ Len(zeros \o bytes) = g + k
      /\ \A i \in 1..(g + k) : (zeros \o bytes)[i] = IF i <= g THEN zeros[i] ELSE bytes[i - g]
  <2>1. /\ zeros \o bytes \in Seq(Nat) /\ Len(zeros \o bytes) = Len(zeros) + Len(bytes)
        /\ \A i \in 1..(Len(zeros) + Len(bytes)) :
              (zeros \o bytes)[i] = IF i <= Len(zeros) THEN zeros[i] ELSE bytes[i - Len(zeros)]
    BY <1>6, ConcatProperties, Zenon
  <2> QED BY <1>6, <2>1
<1>8. g + k = m - base + 1
  OBVIOUS
<1>9. ASSUME NEW i \in 1..(g + k)
      PROVE (zeros \o bytes)[i] = IF base + i - 1 \in all THEN base + i - 1 ELSE Zero
  <2>1. CASE i <= g
    <3>1. base + i - 1 < l
      BY <2>1
    <3>2. base + i - 1 \notin all
      BY <1>4, <3>1
    <3> QED BY <1>6, <1>7, <2>1, <3>2
  <2>2. CASE ~(i <= g)
    <3>1. i - g \in 1..k /\ l + (i - g) - 1 = base + i - 1
      BY <2>2
    <3> QED BY <1>6, <1>7, <2>2, <3>1
  <2> QED BY <2>1, <2>2
<1>10. zeros \o bytes = [i \in 1..(g + k) |-> (zeros \o bytes)[i]]
  BY <1>7, LenProperties
<1>11. zeros \o bytes = [i \in 1..(g + k) |-> IF base + i - 1 \in all THEN base + i - 1 ELSE Zero]
  <2> PICK cat : cat = zeros \o bytes
    OBVIOUS
  <2>1. /\ cat = [i \in 1..(g + k) |-> cat[i]]
        /\ \A i \in 1..(g + k) : cat[i] = IF base + i - 1 \in all THEN base + i - 1 ELSE Zero
    BY <1>9, <1>10
  <2> QED BY <2>1
<1> QED BY <1>3, <1>5, <1>8, <1>11

\* What is written for a program that can be placed is that program.
LEMMA ImageIsLoaded ==
  ASSUME NEW b, NEW r \in Rows, NEW program, IsProgram(program), Placeable(b, r, program),
         PlatformRow[r].format # "none"
  PROVE ImageFrom(b, r, program) = Loaded(program, PlatformRow[r].base)
<1>1. PlatformRow[r].base \in Nat /\ PlatformRow[r].format \in {"elf", "bin"}
  BY PlatformAssumption
<1>2. CASE PlatformRow[r].format = "bin"
  BY <1>2 DEF ImageFrom, Loaded, Binary, Placeable
<1>3. CASE PlatformRow[r].format = "elf"
  <2>1. /\ PlatformRow[r].base <= Lowest(program) /\ b.args.objdump
        /\ \E s \in Placed(program) : s.lma = Lowest(program) /\ s.flags < 6
    BY <1>3 DEF Placeable
  <2>2. b.args.objdump = TRUE \/ Hex(program, program, PlatformRow[r].base, b.args.objdump)
                                   = Hex(program, program, PlatformRow[r].base, TRUE)
    BY <2>1 DEF Hex, Gap, LoadAddr
  <2> QED BY <1>1, <1>3, <2>1, <2>2, HexIsLoaded DEF ImageFrom
<1> QED BY <1>1, <1>2, <1>3

-----------------------------------------------------------------------------
\* The row whose turn it is: it is none of those that are ready.
LEMMA NextRowIs ==
  ASSUME PlatformInv, NEW b \in prep, b.todo # {}
  PROVE LET r == NextRow(b)
        IN  /\ r \in Rows /\ version[r] \in DOMAIN Program[r] /\ GivenHex(b, r) \in BOOLEAN
            /\ Min(b.todo) \in b.todo
            /\ \A i \in b.todo \ {Min(b.todo)} : RowSeq[i] # r
            /\ \A x \in b.rows : x.row # r
<1> DEFINE r == NextRow(b)
<1>1. b.todo \in SUBSET DOMAIN RowSeq /\ \A x \in b.rows : RowFits(b, x)
  BY DEF PlatformInv, PrepShape
<1>2. Min(b.todo) \in b.todo /\ b.todo \subseteq DOMAIN RowSeq
  <2>1. DOMAIN RowSeq = 1..Len(RowSeq) /\ Len(RowSeq) \in Nat
    BY PlatformAssumption
  <2>2. b.todo \in SUBSET Nat
    BY <1>1, <2>1
  <2> QED BY <1>1, <2>2, LeastIs
<1>3. r = RowSeq[Min(b.todo)] /\ Min(b.todo) \in DOMAIN RowSeq
  BY <1>2 DEF NextRow
<1>4. r \in Rows
  BY <1>3, PlatformAssumption
<1>5. \A i \in b.todo \ {Min(b.todo)} : RowSeq[i] # r
  BY <1>2, <1>3, PlatformAssumption
<1>6. \A x \in b.rows : x.row # r
  BY <1>1, <1>2, <1>3 DEF RowFits
<1>7. GivenHex(b, r) \in BOOLEAN
  BY DEF GivenHex
<1>8. version[r] \in DOMAIN Program[r]
  BY <1>4 DEF PlatformInv
<1> QED BY <1>2, <1>4, <1>5, <1>6, <1>7, <1>8

\* A step within a row: the rows that are ready keep their images.
LEMMA WithinRow ==
  ASSUME PlatformInv, NEW b \in prep, b.todo # {}, NEW d, prep' = {d}, d \in PrepShape(d),
         d.args = b.args, d.todo = b.todo, d.rows = b.rows, UnderwayFits(d)',
         UNCHANGED <<version, preps>>, DOMAIN images' = Rows,
         \A y \in Rows : y # NextRow(b) => images'[y] = images[y]
  PROVE PlatformInv'
<1>1. \A x \in b.rows : RowFits(b, x) /\ x.row # NextRow(b)
  BY NextRowIs DEF PlatformInv
<1>2. d.rows = b.rows
  OBVIOUS
<1>3. ASSUME NEW x \in d.rows PROVE RowFits(d, x)'
  <2>1. RowFits(b, x) /\ images'[x.row] = images[x.row]
    BY <1>1, <1>2, <1>3 DEF RowFits
  <2> QED BY <2>1 DEF RowFits, ImageFits, ImageFrom
<1>4. d \in PrepShape(d)' /\ PrepShape(d)' = PrepShape(d)
  BY DEF PrepShape
<1> QED BY <1>3, <1>4 DEF PlatformInv

\* An invocation starts with the rows it was asked for, and none is ready.
LEMMA StartPrepareStep ==
  ASSUME PlatformInv, NEW args \in PlatformArgs, StartPrepare(args)
  PROVE PlatformInv'
<1> PICK d : d = [args |-> args, todo |-> SelectedRows(args), rows |-> {}, phase |-> "prepare",
                  copied |-> 0, reads |-> {}]
  OBVIOUS
<1>1. UNCHANGED <<version, images, edits>> /\ prep' \in {{}, {d}}
  BY DEF StartPrepare
<1>2. d \in PrepShape(d) /\ d.rows = {} /\ d.phase = "prepare"
  BY DEF SelectedRows, PrepShape
<1>3. UnderwayFits(d)' /\ d \in PrepShape(d)'
  BY <1>2 DEF UnderwayFits, PrepShape
<1> QED BY <1>1, <1>2, <1>3 DEF PlatformInv

\* A hex file is taken as it is: there is nothing to be said of its row.
LEMMA TakeHexStep ==
  ASSUME PlatformInv, NEW b \in prep, TakeHex(b) PROVE PlatformInv'
<1> PICK d : d = [b EXCEPT !.phase = "symbols", !.reads = {}]
  OBVIOUS
<1>1. /\ b.todo # {} /\ GivenHex(b, NextRow(b)) /\ prep' = {d}
      /\ UNCHANGED <<version, images, edits, preps>> /\ b \in PrepShape(b) /\ DOMAIN images = Rows
  BY DEF TakeHex, PlatformInv
<1>2. /\ d \in PrepShape(d) /\ d.args = b.args /\ d.todo = b.todo /\ d.rows = b.rows
      /\ d.phase = "symbols"
  BY <1>1 DEF PrepShape
<1>3. UnderwayFits(d)'
  BY <1>1, <1>2 DEF UnderwayFits, NextRow, GivenHex
<1> QED BY <1>1, <1>2, <1>3, WithinRow

\* objcopy has read the version that is there.
LEMMA CopyProgramStep ==
  ASSUME PlatformInv, NEW b \in prep, CopyProgram(b) PROVE PlatformInv'
<1> DEFINE v == version[NextRow(b)]
<1>0. b.todo # {} /\ b \in PrepShape(b) /\ DOMAIN images = Rows
  BY DEF CopyProgram, PlatformInv
<1>1. v \in DOMAIN Program[NextRow(b)]
  BY <1>0, NextRowIs
<1> HIDE DEF v
<1> PICK d : d = [b EXCEPT !.phase = "align", !.copied = v, !.reads = {v}]
  OBVIOUS
<1>2. /\ Builds(b, NextRow(b), "elf") /\ prep' = {d} /\ UNCHANGED <<version, images, edits, preps>>
  BY DEF CopyProgram, v
<1>3. /\ d \in PrepShape(d) /\ d.args = b.args /\ d.todo = b.todo /\ d.rows = b.rows
      /\ d.phase = "align" /\ d.copied = v /\ d.reads = {v}
  BY <1>0 DEF PrepShape
<1>4. UnderwayFits(d)'
  BY <1>0, <1>1, <1>2, <1>3 DEF UnderwayFits, NextRow, GivenHex, Builds
<1> QED BY <1>0, <1>2, <1>3, <1>4, WithinRow

\* The image is written, and all that was read of the program is known.
LEMMA Written ==
  ASSUME PlatformInv, NEW b \in prep, b.todo # {}, NEW r, r = NextRow(b), NEW v, NEW bytes, NEW reads,
         images' = [images EXCEPT ![r] = {[bytes |-> bytes, by |-> preps]}],
         prep' = {[b EXCEPT !.phase = "symbols", !.reads = reads]},
         UNCHANGED <<version, edits, preps>>,
         v \in reads, \A u \in reads : u \in DOMAIN Program[r],
         PlatformRow[r].format # "none",
         reads = {v} => bytes = ImageFrom(b, r, Program[r][v])
  PROVE PlatformInv'
<1> PICK d : d = [b EXCEPT !.phase = "symbols", !.reads = reads]
  OBVIOUS
<1>1. b \in PrepShape(b) /\ r \in Rows /\ DOMAIN images = Rows
  BY NextRowIs DEF PlatformInv
<1>2. /\ d \in PrepShape(d) /\ d.args = b.args /\ d.todo = b.todo /\ d.rows = b.rows
      /\ d.phase = "symbols" /\ d.reads = reads /\ prep' = {d}
  BY <1>1 DEF PrepShape
<1>3. NextRow(d) = r /\ images'[r] = {[bytes |-> bytes, by |-> preps]}
  BY <1>1, <1>2 DEF NextRow
<1>4. ASSUME NEW u \in reads, reads = {u}
      PROVE images'[r] = {[bytes |-> ImageFrom(d, r, Program[r][u]), by |-> preps]}
  <2>1. u = v
    BY <1>4
  <2>2. ImageFrom(d, r, Program[r][u]) = ImageFrom(b, r, Program[r][u])
    BY <1>2 DEF ImageFrom
  <2> QED BY <1>3, <1>4, <2>1, <2>2
<1>5. /\ PlatformRow[r].format # "none" /\ \A u \in reads : u \in DOMAIN Program[r]
      /\ \A u \in reads : reads = {u} =>
            images'[r] = {[bytes |-> ImageFrom(d, r, Program[r][u]), by |-> preps']}
  BY <1>4
<1>6. ImageFits(d, r, reads)'
  BY <1>5 DEF ImageFits, ImageFrom
<1>7. UnderwayFits(d)'
  BY <1>2, <1>3, <1>6 DEF UnderwayFits, NextRow
<1>8. DOMAIN images' = Rows /\ \A y \in Rows : y # NextRow(b) => images'[y] = images[y]
  BY <1>1
<1> QED BY <1>2, <1>7, <1>8, WithinRow

\* If objdump has read what objcopy has, it is the image of that version.
LEMMA WriteImageStep ==
  ASSUME PlatformInv, NEW b \in prep, WriteImage(b) PROVE PlatformInv'
<1>a. PICK r, v, base : r = NextRow(b) /\ v = version[r] /\ base = PlatformRow[r].base
  OBVIOUS
<1>0. b.todo # {} /\ b \in PrepShape(b) /\ UnderwayFits(b) /\ UNCHANGED <<version, edits, preps>>
  BY DEF WriteImage, PlatformInv
<1>1. v \in DOMAIN Program[r]
  BY <1>a, <1>0, NextRowIs
<1>2. CASE b.phase = "align"
  <2>a. PICK bytes, reads :
         /\ bytes = Hex(Program[r][b.copied], Program[r][v], base, b.args.objdump)
         /\ reads = b.reads \union {v}
    OBVIOUS
  <2>1. /\ images' = [images EXCEPT ![r] = {[bytes |-> bytes, by |-> preps]}]
        /\ prep' = {[b EXCEPT !.phase = "symbols", !.reads = reads]}
    BY <2>a, <1>a, <1>2 DEF WriteImage
  <2>2. /\ PlatformRow[r].format = "elf"
        /\ b.copied \in DOMAIN Program[r] /\ b.reads = {b.copied}
    BY <1>a, <1>0, <1>2 DEF UnderwayFits
  <2>3. reads = {v} => b.copied = v
    BY <2>a, <2>2
  <2>4. reads = {v} => bytes = ImageFrom(b, r, Program[r][v])
    BY <2>a, <2>2, <1>a, <2>3 DEF ImageFrom
  <2>5. v \in reads /\ \A u \in reads : u \in DOMAIN Program[r]
    BY <1>1, <2>a, <2>2
  <2>6. PlatformRow[r].format # "none"
    BY <2>2
  <2> QED BY <1>0, <2>1, <2>4, <2>5, <2>6, <1>a, Written
<1>3. CASE b.phase = "prepare" /\ Builds(b, r, "bin")
  <2> PICK bytes, reads : bytes = Binary(Program[r][v]) /\ reads = {v}
    OBVIOUS
  <2>1. /\ images' = [images EXCEPT ![r] = {[bytes |-> bytes, by |-> preps]}]
        /\ prep' = {[b EXCEPT !.phase = "symbols", !.reads = reads]}
    BY <1>a, <1>3 DEF WriteImage
  <2>2. PlatformRow[r].format = "bin"
    BY <1>3 DEF Builds
  <2>3. bytes = ImageFrom(b, r, Program[r][v])
    BY <2>2 DEF ImageFrom
  <2>4. v \in reads /\ \A u \in reads : u \in DOMAIN Program[r]
    BY <1>1
  <2> QED BY <1>0, <2>1, <2>2, <2>3, <2>4, <1>a, Written
<1> QED BY <1>a, <1>2, <1>3 DEF WriteImage

\* A row more is ready, and no other row has its image.
LEMMA ReadSymbolsStep ==
  ASSUME PlatformInv, NEW b \in prep, ReadSymbols(b) PROVE PlatformInv'
<1>0. /\ b.todo # {} /\ b \in PrepShape(b) /\ UnderwayFits(b) /\ DOMAIN images = Rows
      /\ b.phase = "symbols" /\ images' = images /\ version' = version /\ preps' = preps
      /\ \A y \in b.rows : RowFits(b, y)
  BY DEF ReadSymbols, UnderwayFits, PlatformInv
<1>a. \E r, named, tohost, x, d :
         /\ r = NextRow(b) /\ named \subseteq {version[r]}
         /\ PlatformRow[r].format = "elf" /\ b.args.nm /\ PlatformRow[r].tohost = {} =>
               named = {version[r]} /\ tohost = Program[r][version[r]].tohost
         /\ x = [row |-> r, given |-> GivenHex(b, r), reads |-> b.reads \union named,
                 tohost |-> tohost]
         /\ d = [b EXCEPT !.phase = "prepare", !.todo = @ \ {Min(@)}, !.rows = @ \union {x}]
         /\ prep' = {d}
  <2> DEFINE r      == NextRow(b)
             named  == IF PlatformRow[r].format = "elf" /\ b.args.nm THEN {version[r]} ELSE {}
             found  == UNION {Program[r][v].tohost : v \in named}
             tohost == IF PlatformRow[r].tohost # {} THEN PlatformRow[r].tohost ELSE found
             x == [row |-> r, given |-> GivenHex(b, r), reads |-> b.reads \union named,
                   tohost |-> tohost]
             d == [b EXCEPT !.phase = "prepare", !.todo = @ \ {Min(@)}, !.rows = @ \union {x}]
  <2>1. prep' = {d}
    BY DEF ReadSymbols
  <2>2. /\ named \subseteq {version[r]}
        /\ PlatformRow[r].format = "elf" /\ b.args.nm /\ PlatformRow[r].tohost = {} =>
              named = {version[r]} /\ tohost = Program[r][version[r]].tohost
    OBVIOUS
  <2>3. r = NextRow(b)
    OBVIOUS
  <2>4. /\ x = [row |-> r, given |-> GivenHex(b, r), reads |-> b.reads \union named,
               tohost |-> tohost]
        /\ d = [b EXCEPT !.phase = "prepare", !.todo = @ \ {Min(@)}, !.rows = @ \union {x}]
    OBVIOUS
  <2> HIDE DEF r, named, tohost, x, d
  <2> QED BY <2>1, <2>2, <2>3, <2>4
<1>b. PICK r, named, tohost, x, d :
         /\ r = NextRow(b) /\ named \subseteq {version[r]}
         /\ PlatformRow[r].format = "elf" /\ b.args.nm /\ PlatformRow[r].tohost = {} =>
               named = {version[r]} /\ tohost = Program[r][version[r]].tohost
         /\ x = [row |-> r, given |-> GivenHex(b, r), reads |-> b.reads \union named,
                 tohost |-> tohost]
         /\ d = [b EXCEPT !.phase = "prepare", !.todo = @ \ {Min(@)}, !.rows = @ \union {x}]
         /\ prep' = {d}
  BY <1>a
<1>c. PICK reads, given, left :
         reads = b.reads \union named /\ given = GivenHex(b, r) /\ left = b.todo \ {Min(b.todo)}
  OBVIOUS
<1>1. /\ r \in Rows /\ version[r] \in DOMAIN Program[r] /\ given \in BOOLEAN
      /\ \A i \in left : RowSeq[i] # r
  BY <1>0, <1>b, <1>c, NextRowIs
<1>2. /\ prep' = {d} /\ r = NextRow(b) /\ b.reads \subseteq reads
      /\ reads \subseteq b.reads \union {version[r]} /\ (version[r] \in reads \/ named # {version[r]})
  BY <1>b, <1>c
<1>3. ~given => b.reads # {} /\ ImageFits(b, r, b.reads)
  BY <1>0, <1>b, <1>c DEF UnderwayFits
<1>4. PlatformRow[r].format = "elf" /\ b.args.nm /\ PlatformRow[r].tohost = {} =>
         version[r] \in reads /\ tohost = Program[r][version[r]].tohost
  BY <1>b, <1>c
<1>5. x.row = r /\ x.given = given /\ x.reads = reads /\ x.tohost = tohost
  BY <1>b, <1>c
<1>6. /\ d \in PrepShape(d) /\ d.args = b.args /\ d.todo = left /\ d.rows = b.rows \union {x}
      /\ d.phase = "prepare"
  BY <1>0, <1>b, <1>c DEF PrepShape
<1>7. ASSUME ~given
      PROVE /\ PlatformRow[r].format # "none" /\ \A v \in reads : v \in DOMAIN Program[r]
            /\ \A v \in reads : reads = {v} =>
                  images'[r] = {[bytes |-> ImageFrom(d, r, Program[r][v]), by |-> preps']}
  <2>1. \A v \in reads : reads = {v} => v \in b.reads /\ b.reads = {v}
    BY <1>2, <1>3, <1>7
  <2>2. PlatformRow[r].format # "none" /\ \A v \in reads : v \in DOMAIN Program[r]
    BY <1>1, <1>2, <1>3, <1>7 DEF ImageFits
  <2>3. ASSUME NEW v \in reads, reads = {v}
        PROVE images'[r] = {[bytes |-> ImageFrom(d, r, Program[r][v]), by |-> preps']}
    <3>1. images[r] = {[bytes |-> ImageFrom(b, r, Program[r][v]), by |-> preps]}
      BY <1>3, <1>7, <2>1, <2>3 DEF ImageFits
    <3>2. ImageFrom(d, r, Program[r][v]) = ImageFrom(b, r, Program[r][v])
      BY <1>6 DEF ImageFrom
    <3> QED BY <1>0, <3>1, <3>2
  <2> QED BY <2>2, <2>3
<1>8. ~given => ImageFits(d, r, reads)'
  BY <1>7 DEF ImageFits, ImageFrom
<1>9. PlatformRow[r].format = "elf" /\ d.args.nm /\ PlatformRow[r].tohost = {} =>
          \A v \in reads : reads = {v} => tohost = Program[r][v].tohost
  BY <1>4, <1>6
<1>10. RowFits(d, x)'
  BY <1>1, <1>5, <1>6, <1>8, <1>9 DEF RowFits
<1>11. ASSUME NEW y \in b.rows PROVE RowFits(d, y)'
  <2>1. RowFits(b, y) /\ d.todo \subseteq b.todo
    BY <1>0, <1>6, <1>c
  <2> QED BY <1>0, <1>6, <2>1 DEF RowFits, ImageFits, ImageFrom
<1>12. \A y \in d.rows : RowFits(d, y)'
  BY <1>6, <1>10, <1>11
<1>13. UnderwayFits(d)' /\ d \in PrepShape(d)'
  BY <1>6 DEF UnderwayFits, PrepShape
<1>14. DOMAIN version' = Rows /\ (\A y \in Rows : version'[y] \in DOMAIN Program[y])
       /\ DOMAIN images' = Rows
  BY <1>0 DEF PlatformInv
<1> QED BY <1>2, <1>12, <1>13, <1>14 DEF PlatformInv

\* Each row that is prepared, and the steps around them.
LEMMA PlatformStep ==
  ASSUME PlatformInv, PlatformNext PROVE PlatformInv'
<1>1. ASSUME NEW r \in Rows, EditProgram(r) PROVE PlatformInv'
  <2>1. /\ version[r] + 1 \in DOMAIN Program[r] /\ version' = [version EXCEPT ![r] = @ + 1]
        /\ UNCHANGED <<images, prep, preps>>
    BY <1>1 DEF EditProgram
  <2>2. DOMAIN version' = Rows /\ \A x \in Rows : version'[x] \in DOMAIN Program[x]
    BY <2>1 DEF PlatformInv
  <2>3. \A b \in prep : /\ b \in PrepShape(b)' /\ UnderwayFits(b)'
                        /\ \A x \in b.rows : RowFits(b, x)'
    BY <2>1 DEF PlatformInv, PrepShape, UnderwayFits, RowFits, ImageFits, ImageFrom, NextRow, GivenHex
  <2> QED BY <2>1, <2>2, <2>3 DEF PlatformInv
<1>2. ASSUME NEW b \in prep, PrepareFails(b) PROVE PlatformInv'
  <2>1. prep' = {} /\ UNCHANGED <<version, edits, preps>> /\ DOMAIN images' = DOMAIN images
    BY <1>2 DEF PrepareFails
  <2> QED BY <2>1 DEF PlatformInv
<1>3. ASSUME NEW b \in prep, RunPrepared(b) PROVE PlatformInv'
  <2> PICK d : d = [b EXCEPT !.phase = "run"]
    OBVIOUS
  <2>1. prep' \in {{}, {d}} /\ UNCHANGED <<version, images, edits, preps>>
    BY <1>3 DEF RunPrepared
  <2>2. b \in PrepShape(b) /\ \A x \in b.rows : RowFits(b, x)
    BY DEF PlatformInv
  <2>3. /\ d \in PrepShape(d) /\ d.args = b.args /\ d.todo = b.todo /\ d.rows = b.rows
        /\ d.phase = "run"
    BY <2>2 DEF PrepShape
  <2>4. \A x \in d.rows : RowFits(d, x)'
    BY <2>1, <2>2, <2>3 DEF RowFits, ImageFits, ImageFrom
  <2>5. UnderwayFits(d)' /\ d \in PrepShape(d)'
    BY <2>3 DEF UnderwayFits, PrepShape
  <2> QED BY <2>1, <2>4, <2>5 DEF PlatformInv
<1>4. ASSUME NEW b \in prep, EndPrepared(b) PROVE PlatformInv'
  BY <1>4 DEF EndPrepared, PlatformInv
<1> QED BY <1>1, <1>2, <1>3, <1>4, StartPrepareStep, TakeHexStep, CopyProgramStep, WriteImageStep,
           ReadSymbolsStep DEF PlatformNext

\* The image a simulator loads holds every byte of the program at its own address,
\* if the tools that made it have read one version: sim_platform.py converts under
\* one name for each row, elf2hex.py fills the gap that objcopy leaves before the
\* first section, and the simulator watches the tohost of that version.
THEOREM ProgramsAreLoaded == PlatformSpec => []LoadsProgram
<1>1. PlatformInit => PlatformInv
  BY PlatformAssumption DEF PlatformInit, PlatformInv
<1>2. PlatformInv /\ [PlatformNext]_platformVars => PlatformInv'
  <2>1. ASSUME PlatformInv, UNCHANGED platformVars PROVE PlatformInv'
    BY <2>1 DEF platformVars, PlatformInv, PrepShape, UnderwayFits, RowFits, ImageFits, ImageFrom,
                NextRow, GivenHex
  <2> QED BY <2>1, PlatformStep
<1>3. PlatformInv => LoadsProgram
  <2> SUFFICES ASSUME PlatformInv, NEW b \in prep, NEW row \in b.rows, NEW v \in row.reads,
                      ~row.given, row.reads = {v}, Placeable(b, row.row, Program[row.row][v])
               PROVE /\ images[row.row] =
                          {[bytes |-> Loaded(Program[row.row][v], PlatformRow[row.row].base), by |-> preps]}
                     /\ PlatformRow[row.row].format = "elf" /\ PlatformRow[row.row].tohost = {}
                          => (b.args.nm => row.tohost = Program[row.row][v].tohost)
    BY DEF LoadsProgram
  <2>1. RowFits(b, row)
    BY DEF PlatformInv
  <2>2. /\ row.row \in Rows /\ v \in DOMAIN Program[row.row] /\ PlatformRow[row.row].format # "none"
        /\ images[row.row] =
              {[bytes |-> ImageFrom(b, row.row, Program[row.row][v]), by |-> preps]}
    BY <2>1 DEF RowFits, ImageFits
  <2>3. IsProgram(Program[row.row][v])
    BY <2>2, PlatformAssumption DEF IsProgram
  <2>4. ImageFrom(b, row.row, Program[row.row][v])
           = Loaded(Program[row.row][v], PlatformRow[row.row].base)
    BY <2>2, <2>3, ImageIsLoaded
  <2>5. PlatformRow[row.row].format = "elf" /\ b.args.nm /\ PlatformRow[row.row].tohost = {} =>
           row.tohost = Program[row.row][v].tohost
    BY <2>1 DEF RowFits
  <2> QED BY <2>2, <2>4, <2>5
<1> QED BY <1>1, <1>2, <1>3, PTL DEF PlatformSpec

-----------------------------------------------------------------------------
\* What run_benchmarks.py reads

\* The lines of a log that was read twice: each place, and the same place in
\* the second reading.
LEMMA TwiceIs ==
  ASSUME NEW S, NEW log \in Seq(S)
  PROVE /\ log \o log \in Seq(S) /\ Len(log) \in Nat /\ DOMAIN log = 1..Len(log)
        /\ DOMAIN (log \o log) = 1..(Len(log) + Len(log))
        /\ \A i \in 1..Len(log) : (log \o log)[i] = log[i] /\ (log \o log)[i + Len(log)] = log[i]
OBVIOUS

\* The last line is that of the greatest place.
LEMMA LastLineIs ==
  ASSUME NEW log, NEW I \in SUBSET Nat, NEW j \in I, \A k \in I : k <= j
  PROVE LastLine(log, I) = {log[j]}
<1>1. \A m \in I : (\A k \in I : k <= m) => m = j
  OBVIOUS
<1> QED BY <1>1 DEF LastLine

\* The places of some lines in a log read twice.
Both(I, n) == I \union {i + n : i \in I}

\* A log that was read twice has the same last line of any kind.
LEMMA LastTwice ==
  ASSUME NEW S, NEW log \in Seq(S), NEW I \in SUBSET (1..Len(log))
  PROVE /\ LastLine(log \o log, Both(I, Len(log))) = LastLine(log, I)
        /\ LastValue(log \o log, Both(I, Len(log))) = LastValue(log, I)
        /\ Both(I, Len(log)) = {} <=> I = {}
<1> PICK n \in Nat : n = Len(log)
  OBVIOUS
<1>1. CASE I = {}
  BY <1>1 DEF LastLine, LastValue, Both
<1>2. CASE I # {}
  <2>1. PICK j \in I : \A k \in I : k <= j
    BY <1>2, MaxExists
  <2>2. Both(I, n) \in SUBSET Nat /\ j + n \in Both(I, n) /\ \A k \in Both(I, n) : k <= j + n
    <3>1. \A k : k \in Both(I, n) <=> k \in I \/ \E i \in I : k = i + n
      BY DEF Both
    <3>2. \A k \in I : k \in Nat /\ k + n \in Nat /\ k <= j + n /\ k + n <= j + n
      BY <2>1
    <3>3. j + n \in Both(I, n)
      BY <3>1
    <3>4. ASSUME NEW k \in Both(I, n) PROVE k \in Nat /\ k <= j + n
      <4>1. CASE k \in I
        BY <3>2, <4>1
      <4>2. ASSUME NEW i \in I, k = i + n PROVE k \in Nat /\ k <= j + n
        BY <3>2, <4>2
      <4> QED BY <3>1, <4>1, <4>2
    <3>5. Both(I, n) \in SUBSET Nat
      BY <3>4
    <3> QED BY <3>3, <3>4, <3>5
  <2>3. LastLine(log, I) = {log[j]}
    <3>1. I \in SUBSET Nat
      OBVIOUS
    <3> QED BY <2>1, <3>1, LastLineIs
  <2>4. LastLine(log \o log, Both(I, n)) = {(log \o log)[j + n]}
    BY <2>2, LastLineIs
  <2>5. LastLine(log, I) = {log[j]} /\ LastLine(log \o log, Both(I, n)) = {log[j]}
    BY <2>3, <2>4, TwiceIs
  <2> QED BY <1>2, <2>5 DEF LastValue, Both
<1> QED BY <1>1, <1>2

\* The places of lines of some kinds.
LEMMA PlacesTwice ==
  ASSUME NEW S, NEW log \in Seq(S)
  PROVE /\ \A K : Of(log, K) \in SUBSET (1..Len(log)) /\ Of(log \o log, K) = Both(Of(log, K), Len(log))
        /\ \A t, f : /\ Naming(log, t, f) \in SUBSET (1..Len(log))
                     /\ Naming(log \o log, t, f) = Both(Naming(log, t, f), Len(log))
<1> PICK n, l2 : n = Len(log) /\ l2 = log \o log
  OBVIOUS
<1>1. /\ n \in Nat /\ DOMAIN log = 1..n /\ DOMAIN l2 = 1..(n + n)
      /\ \A i \in 1..n : l2[i] = log[i] /\ l2[i + n] = log[i]
  BY TwiceIs
<1>2. \A i \in 1..(n + n) : i \in 1..n \/ \E j \in 1..n : i = j + n
  <2> SUFFICES ASSUME NEW i \in 1..(n + n), i \notin 1..n PROVE \E j \in 1..n : i = j + n
    OBVIOUS
  <2>1. i - n \in 1..n /\ i = (i - n) + n
    BY <1>1
  <2> QED BY <2>1
<1>3. ASSUME NEW K PROVE Of(log, K) \in SUBSET (1..n) /\ Of(l2, K) = Both(Of(log, K), n)
  <2> PICK I : I = Of(log, K)
    OBVIOUS
  <2>1. I \in SUBSET (1..n) /\ \A i \in 1..n : i \in I <=> log[i].t \in K
    BY <1>1 DEF Of
  <2>2. \A i : i \in Of(l2, K) <=> i \in 1..(n + n) /\ l2[i].t \in K
    BY <1>1 DEF Of
  <2>3. \A i : i \in Both(I, n) <=> i \in I \/ \E j \in I : i = j + n
    BY DEF Both
  <2>4. ASSUME NEW i \in Of(l2, K) PROVE i \in Both(I, n)
    <3>1. i \in 1..(n + n) /\ l2[i].t \in K
      BY <2>2, <2>4
    <3>2. CASE i \in 1..n
      BY <1>1, <2>1, <2>3, <3>1, <3>2
    <3>3. ASSUME NEW j \in 1..n, i = j + n PROVE i \in Both(I, n)
      <4>1. l2[i] = log[j]
        BY <1>1, <3>3
      <4> QED BY <2>1, <2>3, <3>1, <3>3, <4>1
    <3> QED BY <1>2, <3>1, <3>2, <3>3
  <2>5. ASSUME NEW i \in Both(I, n) PROVE i \in Of(l2, K)
    <3>1. CASE i \in I
      BY <1>1, <2>1, <2>2, <3>1
    <3>2. ASSUME NEW j \in I, i = j + n PROVE i \in Of(l2, K)
      BY <1>1, <2>1, <2>2, <3>2
    <3> QED BY <2>3, <3>1, <3>2
  <2> QED BY <2>1, <2>4, <2>5
<1>4. ASSUME NEW t, NEW f
      PROVE Naming(log, t, f) \in SUBSET (1..n) /\ Naming(l2, t, f) = Both(Naming(log, t, f), n)
  <2>1. Of(log, {t}) \in SUBSET (1..n) /\ Of(l2, {t}) = Both(Of(log, {t}), n)
    BY <1>3
  <2> PICK I, J : I = Of(log, {t}) /\ J = Naming(log, t, f)
    OBVIOUS
  <2>2. J \in SUBSET (1..n) /\ \A i : i \in J <=> i \in I /\ log[i].f = f
    BY <2>1 DEF Naming
  <2>3. \A i : i \in Naming(l2, t, f) <=> i \in Both(I, n) /\ l2[i].f = f
    BY <2>1 DEF Naming
  <2>4. /\ \A i : i \in Both(I, n) <=> i \in I \/ \E j \in I : i = j + n
        /\ \A i : i \in Both(J, n) <=> i \in J \/ \E j \in J : i = j + n
    BY DEF Both
  <2>5. \A i \in I : l2[i] = log[i] /\ l2[i + n] = log[i]
    BY <1>1, <2>1
  <2>6. ASSUME NEW i PROVE i \in Naming(l2, t, f) <=> i \in Both(J, n)
    <3>1. \A j \in I : l2[j + n].f = f <=> j \in J
      BY <2>2, <2>5
    <3>2. \A j \in I : l2[j].f = f <=> j \in J
      BY <2>2, <2>5
    <3>3. J \subseteq I
      BY <2>2
    <3>4. ASSUME NEW j \in I, i = j + n, l2[i].f = f PROVE i \in Both(J, n)
      BY <2>4, <3>1, <3>4
    <3>5. ASSUME NEW j \in J, i = j + n PROVE i \in Naming(l2, t, f)
      BY <2>3, <2>4, <3>1, <3>3, <3>5
    <3>6. i \in I /\ l2[i].f = f => i \in Both(J, n)
      BY <2>4, <3>2
    <3>7. i \in J => i \in Naming(l2, t, f)
      BY <2>3, <2>4, <3>2, <3>3
    <3>8. ASSUME i \in Naming(l2, t, f) PROVE i \in Both(J, n)
      <4>1. i \in Both(I, n) /\ l2[i].f = f
        BY <2>3, <3>8
      <4>2. i \in I \/ \E j \in I : i = j + n
        BY <2>4, <4>1
      <4> QED BY <3>4, <3>6, <4>1, <4>2
    <3>9. i \in Both(J, n) => i \in Naming(l2, t, f)
      BY <2>4, <3>5, <3>7
    <3> QED BY <3>8, <3>9
  <2> QED BY <2>2, <2>6
<1> QED BY <1>3, <1>4

\* Each value that is read.
LEMMA ValuesTwice ==
  ASSUME NEW S, NEW log \in Seq(S)
  PROVE /\ \A K : /\ LastLine(log \o log, Of(log \o log, K)) = LastLine(log, Of(log, K))
                  /\ LastValue(log \o log, Of(log \o log, K)) = LastValue(log, Of(log, K))
                  /\ Of(log \o log, K) = {} <=> Of(log, K) = {}
        /\ \A c : Counter(log \o log, c) = Counter(log, c)
        /\ \A f : Field(log \o log, f) = Field(log, f)
<1> PICK n, l2 : n = Len(log) /\ l2 = log \o log
  OBVIOUS
<1>1. ASSUME NEW K
      PROVE /\ LastLine(l2, Of(l2, K)) = LastLine(log, Of(log, K))
            /\ LastValue(l2, Of(l2, K)) = LastValue(log, Of(log, K))
            /\ Of(l2, K) = {} <=> Of(log, K) = {}
  BY PlacesTwice, LastTwice
<1>2. ASSUME NEW c PROVE Counter(l2, c) = Counter(log, c)
  BY PlacesTwice, LastTwice DEF Counter
<1>3. ASSUME NEW f PROVE Field(l2, f) = Field(log, f)
  <2> PICK I, J : I = Naming(log, "bench", f) /\ J = {i \in I : log[i].v # 0}
    OBVIOUS
  <2>1. I \in SUBSET (1..n) /\ J \in SUBSET (1..n) /\ Naming(l2, "bench", f) = Both(I, n)
    BY PlacesTwice
  <2>2. {i \in Both(I, n) : l2[i].v # 0} = Both(J, n)
    BY <2>1, TwiceIs DEF Both
  <2>3. /\ LastValue(l2, Both(I, n)) = LastValue(log, I)
        /\ LastValue(l2, Both(J, n)) = LastValue(log, J)
        /\ Both(J, n) = {} <=> J = {}
    BY <2>1, LastTwice
  <2>4. Field(l2, f) = LastValue(l2, IF f \in {"cycles", "instret"} /\ Both(J, n) # {}
                                     THEN Both(J, n) ELSE Both(I, n))
    BY <2>1, <2>2 DEF Field
  <2>5. Field(log, f) = LastValue(log, IF f \in {"cycles", "instret"} /\ J # {} THEN J ELSE I)
    BY DEF Field
  <2> QED BY <2>3, <2>4, <2>5
<1> QED BY <1>1, <1>2, <1>3

\* What the runner makes of a log does not change when it reads it twice, as it
\* does when the simulator prints what it also writes to its log.
LEMMA VerdictTwice ==
  ASSUME NEW S, NEW log \in Seq(S), NEW args, NEW n, NEW files, NEW base
  PROVE /\ Reading(n, log \o log) = Reading(n, log)
        /\ Gate(args, Bench[n], n, log \o log, files, base) = Gate(args, Bench[n], n, log, files, base)
<1> PICK l2 : l2 = log \o log
  OBVIOUS
<1>1. /\ \A K : /\ LastLine(l2, Of(l2, K)) = LastLine(log, Of(log, K))
                /\ LastValue(l2, Of(l2, K)) = LastValue(log, Of(log, K))
                /\ Of(l2, K) = {} <=> Of(log, K) = {}
      /\ \A c : Counter(l2, c) = Counter(log, c)
      /\ \A f : Field(l2, f) = Field(log, f)
  BY ValuesTwice
<1>2. End(l2) = End(log)
  BY <1>1 DEF End
<1>3. Status(l2) = Status(log) /\ Tohost(l2) = Tohost(log) /\ (Trips(l2) <=> Trips(log))
  BY <1>1, <1>2 DEF Status, Tohost, Trips
<1>4. \A b : TimedCycles(b, l2) = TimedCycles(b, log)
  BY <1>1, <1>3 DEF TimedCycles
<1>5. \A b : Metric(b, l2) = Metric(b, log)
  BY <1>1, <1>3, <1>4 DEF Metric
<1>6. Reading(n, l2) = Reading(n, log)
  BY <1>1, <1>3, <1>5 DEF Reading
<1> PICK b : b = Bench[n]
  OBVIOUS
<1>7. EndpointReasons(b, l2, files) = EndpointReasons(b, log, files)
  BY <1>1, <1>3 DEF EndpointReasons, If
<1>8. MovementFailures(args, n, l2, base) = MovementFailures(args, n, log, base)
  BY <1>1 DEF MovementFailures
<1>9. \A bounds : Outside(l2, bounds) = Outside(log, bounds)
  BY <1>1 DEF Outside
<1>10. GateReasons(args, b, n, l2, files, base) = GateReasons(args, b, n, log, files, base)
  BY <1>1, <1>7, <1>8, <1>9 DEF GateReasons
<1>11. Gate(args, b, n, l2, files, base) = Gate(args, b, n, log, files, base)
  BY <1>10 DEF Gate
<1> QED BY <1>6, <1>11

\* The end of a log that follows a log without an end, or itself, is its own.
LEMMA EndIsOfLast ==
  ASSUME NEW S, NEW a \in Seq(S), NEW b \in Seq(S), a = b \/ End(a) = {}
  PROVE End(a \o b) = End(b)
<1> PICK n, m, c : n = Len(a) /\ m = Len(b) /\ c = a \o b
  OBVIOUS
<1> PICK K : K = {"pass", "fail", "timeout"}
  OBVIOUS
<1>1. CASE a = b
  BY <1>1, ValuesTwice DEF End
<1>2. CASE End(a) = {}
  <2>1. /\ n \in Nat /\ m \in Nat /\ DOMAIN a = 1..n /\ DOMAIN b = 1..m /\ DOMAIN c = 1..(n + m)
        /\ \A i \in 1..n : c[i] = a[i]
        /\ \A i \in 1..m : c[i + n] = b[i]
    OBVIOUS
  <2>2. Of(a, K) = {}
    <3> SUFFICES ASSUME Of(a, K) # {} PROVE FALSE
      OBVIOUS
    <3>1. Of(a, K) \in SUBSET (1..n)
      BY <2>1 DEF Of
    <3>2. PICK j \in Of(a, K) : \A k \in Of(a, K) : k <= j
      BY <2>1, <3>1, MaxExists
    <3>3. a[j] \in End(a)
      BY <3>2 DEF End, LastLine
    <3> QED BY <1>2, <3>3
  <2>3. Of(c, K) = {i + n : i \in Of(b, K)}
    <3>1. ASSUME NEW i \in Of(c, K) PROVE \E j \in Of(b, K) : i = j + n
      <4>1. i \in 1..(n + m) /\ c[i].t \in K /\ i \notin 1..n
        BY <2>1, <2>2, <3>1 DEF Of
      <4>2. i - n \in 1..m /\ i = (i - n) + n
        BY <2>1, <4>1
      <4> QED BY <2>1, <4>1, <4>2 DEF Of
    <3>2. ASSUME NEW j \in Of(b, K) PROVE j + n \in Of(c, K)
      BY <2>1 DEF Of
    <3> QED BY <3>1, <3>2
  <2>4. Of(b, K) \in SUBSET (1..m)
    BY <2>1 DEF Of
  <2>5. LastLine(c, Of(c, K)) = LastLine(b, Of(b, K))
    <3>1. CASE Of(b, K) = {}
      BY <2>3, <3>1 DEF LastLine
    <3>2. CASE Of(b, K) # {}
      <4>1. PICK j \in Of(b, K) : \A k \in Of(b, K) : k <= j
        BY <2>1, <2>4, <3>2, MaxExists
      <4>2. Of(b, K) \in SUBSET Nat /\ LastLine(b, Of(b, K)) = {b[j]}
        <5>1. Of(b, K) \in SUBSET Nat
          BY <2>4
        <5> QED BY <4>1, <5>1, LastLineIs
      <4>3. Of(c, K) \in SUBSET Nat /\ j + n \in Of(c, K) /\ \A k \in Of(c, K) : k <= j + n
        BY <2>1, <2>3, <4>1, <4>2
      <4>4. LastLine(c, Of(c, K)) = {c[j + n]}
        BY <4>3, LastLineIs
      <4> QED BY <2>1, <2>4, <4>2, <4>4
    <3> QED BY <3>1, <3>2
  <2> QED BY <2>5 DEF End
<1> QED BY <1>1, <1>2

\* A log whose last end says PASS has a line that says so, and it is the last.
LEMMA PassIsLast ==
  ASSUME NEW S, NEW log \in Seq(S), \A l \in End(log) : l.t \in {"pass", "fail", "timeout"},
         \E l \in End(log) : l.t \notin {"fail", "timeout"} /\ l.v = 1
  PROVE LastValue(log, Of(log, {"pass"})) = {1}
<1> PICK n \in Nat : n = Len(log) /\ DOMAIN log = 1..n
  OBVIOUS
<1> PICK K : K = {"pass", "fail", "timeout"}
  OBVIOUS
<1>1. PICK j \in Of(log, K) : /\ \A k \in Of(log, K) : k <= j
                             /\ log[j].t \notin {"fail", "timeout"} /\ log[j].v = 1
  BY DEF End, LastLine
<1>2. j \in Of(log, {"pass"}) /\ \A k \in Of(log, {"pass"}) : k <= j
  BY <1>1 DEF Of
<1>3. {i \in Of(log, {"pass"}) : \A k \in Of(log, {"pass"}) : k <= i} = {j}
  BY <1>2 DEF Of
<1>4. LastLine(log, Of(log, {"pass"})) = {log[j]}
  BY <1>3 DEF LastLine
<1> QED BY <1>1, <1>4 DEF LastValue

\* Where the runner reads a PASS off what it was told and the log after it, the
\* other parser reads it off the log.
LEMMA BothParsers ==
  ASSUME NEW S, NEW a \in Seq(S), NEW b \in Seq(S), a = b \/ End(a) = {},
         Status(a \o b) = "PASS"
  PROVE ProfileStatus(b) # "NO_PASS"
<1>1. End(a \o b) = End(b)
  BY EndIsOfLast
<1>2. \E l \in End(b) : l.t \notin {"fail", "timeout"} /\ l.v = 1
  BY <1>1 DEF Status
<1>3. \A l \in End(b) : l.t \in {"pass", "fail", "timeout"}
  BY DEF End, LastLine, Of
<1>4. LastValue(b, Of(b, {"pass"})) = {1}
  BY <1>2, <1>3, PassIsLast
<1> QED BY <1>4 DEF ProfileStatus

-----------------------------------------------------------------------------
\* golden_pc_stream.py

\* The fields of an invocation.
IsRun(r) ==
    r \in [front : {r.front}, args : {r.args}, dir : {r.dir}, rows : {r.rows}, todo : {r.todo},
           out : {r.out}, phase : {r.phase}, fresh : {r.fresh}]

\* An emit under way has removed the file, or its simulation has written it.
EmitInv ==
    /\ golden = {} \/ \E i : golden = {i}
    /\ \A r \in run : IsRun(r) /\ (r.front = "emit" => golden \subseteq {runs})
    /\ EmitIsFresh

\* An invocation that is refused has failed.
LEMMA FailCodes ==
  ASSUME NEW c, NEW bs, NEW repo, NEW built, NEW force
  PROVE FailCode(c, bs, repo, built, force) \subseteq {1, 2}
<1>1. \A x, y, z, w, v \in BOOLEAN :
         (IF x THEN {IF w THEN 1 ELSE 2} ELSE IF y THEN {2} ELSE IF z THEN {1}
          ELSE IF v THEN {2} ELSE {}) \subseteq {1, 2}
  OBVIOUS
<1> QED BY <1>1, Zenon DEF FailCode

\* An invocation that fails claims nothing.
LEMMA FailedExits ==
  ASSUME NEW c, NEW d, NEW code, NEW fresh, code # 0, Exit(c, d, code, fresh)
  PROVE EmitIsFresh'
<1>1. last' = [NoExit EXCEPT !.code = code]
  BY DEF Exit
<1>2. last'.front = "none"
  BY <1>1 DEF NoExit
<1> QED BY <1>2 DEF EmitIsFresh

\* Each step of the runner and of the programs around it.
LEMMA EmitStep ==
  ASSUME EmitInv, BenchNext PROVE EmitInv'
<1>1. ASSUME NEW c \in Commands, NEW repo \in Repos, NEW built \in BOOLEAN, NEW force \in BOOLEAN,
             Refuse(c, repo, built, force)
      PROVE EmitInv'
  <2>1. PICK code \in FailCode(c, Selected(c.args), repo, built, force) : Exit(c, {}, code, FALSE)
    BY <1>1 DEF Refuse
  <2>2. code # 0
    BY FailCodes
  <2> QED BY <1>1, <2>1, <2>2, FailedExits DEF Refuse, EmitInv
<1>2. ASSUME NEW c \in Commands, NEW repo \in Repos, DryRun(c, repo) PROVE EmitInv'
  <2>1. c.front # "emit"
    <3>1. c.args.dry
      BY <1>2 DEF DryRun
    <3>2. c.front = "emit" => \E n : c.args = GoldenArgs(n, "EMIT_COMMIT_PC_HEX")
      BY DEF Commands
    <3>3. \A n : ~GoldenArgs(n, "EMIT_COMMIT_PC_HEX").dry
      BY DEF GoldenArgs, Plain
    <3> QED BY <3>1, <3>2, <3>3
  <2>2. PICK code : Exit(c, {}, code, FALSE)
    BY <1>2 DEF DryRun
  <2>3. last'.front # "emit"
    BY <2>1, <2>2 DEF Exit, NoExit
  <2> QED BY <1>2, <2>3 DEF DryRun, EmitInv, EmitIsFresh
<1>3. ASSUME NEW c \in Commands, NEW repo \in Repos, NEW d \in Dirs, Begin(c, d, repo)
      PROVE EmitInv'
  <2> DEFINE r == [front |-> c.front, args |-> c.args, dir |-> d, rows |-> <<>>,
                   todo |-> Selected(c.args), out |-> "none", phase |-> "rows",
                   fresh |-> Unused(d)]
  <2>a. run' = {r}
    BY <1>3 DEF Begin
  <2>b. r.front = c.front /\ IsRun(r)
    BY DEF IsRun
  <2>1. PICK q : run' = {q} /\ q.front = c.front /\ IsRun(q)
    BY <2>a, <2>b
  <2>2. golden' = IF c.front = "emit" THEN {} ELSE golden
    BY <1>3 DEF Begin, GoldenAtStart
  <2> QED BY <2>1, <2>2 DEF EmitInv, EmitIsFresh
<1>4. ASSUME NEW r \in run, NEW o \in DOMAIN Outcome, Simulate(r, o) PROVE EmitInv'
  <2> IsRun(r)
    BY DEF EmitInv
  <2>1. PICK q : q = [r EXCEPT !.phase = "score", !.out = o]
    OBVIOUS
  <2>2. run' = {q} /\ q.front = r.front /\ IsRun(q) /\ runs' = runs
    BY <1>4, <2>1 DEF Simulate, IsRun
  <2>3. golden' = golden \/ golden' = {runs}
    BY <1>4 DEF Simulate
  <2> QED BY <2>2, <2>3 DEF EmitInv, EmitIsFresh
<1>5. ASSUME NEW r \in run, Score(r) \/ Finish(r) PROVE EmitInv'
  <2> IsRun(r)
    BY DEF EmitInv
  <2>1. ASSUME NEW rows, NEW todo, NEW out, NEW phase
        PROVE \E q : /\ q = [r EXCEPT !.phase = phase, !.out = out, !.rows = rows, !.todo = todo]
                     /\ q.front = r.front /\ IsRun(q)
    <3> PICK q : q = [r EXCEPT !.phase = phase, !.out = out, !.rows = rows, !.todo = todo]
      OBVIOUS
    <3>1. q.front = r.front /\ IsRun(q)
      BY DEF IsRun
    <3> QED BY <3>1
  <2>2. CASE Score(r)
    <3>0. PICK row : row = Row(r, Head(r.todo))
      OBVIOUS
    <3>1. run' = {[r EXCEPT !.phase = "rows", !.out = "none", !.rows = Append(r.rows, row),
                            !.todo = Tail(r.todo)]}
      BY <2>2, <3>0, Zenon DEF Score
    <3>2. PICK q : run' = {q} /\ q.front = r.front /\ IsRun(q)
      BY <2>1, <3>1, Zenon
    <3> QED BY <2>2, <3>2 DEF EmitInv, EmitIsFresh, Score
  <2>3. CASE Finish(r)
    <3>1. PICK q : q = [r EXCEPT !.phase = "done"]
      OBVIOUS
    <3>2. run' = {q} /\ q.front = r.front /\ IsRun(q)
      BY <2>3, <3>1 DEF Finish, IsRun
    <3> QED BY <2>3, <3>2 DEF EmitInv, EmitIsFresh, Finish
  <2> QED BY <1>5, <2>2, <2>3
<1>6. ASSUME NEW r \in run, Return(r) PROVE EmitInv'
  <2>1. Exit(r, {r.dir}, Code(r), r.fresh) /\ run' = {} /\ UNCHANGED <<golden, runs>>
    BY <1>6 DEF Return
  <2>2. ASSUME Code(r) = 0, r.front = "emit" PROVE golden = {runs}
    <3>1. golden # {}
      BY <2>2 DEF Code
    <3> QED BY <2>2, <3>1 DEF EmitInv
  <2>3. Code(r) = 0 => last'.front = r.front /\ last'.run = runs
    BY <2>1 DEF Exit
  <2> QED BY <2>1, <2>2, <2>3, FailedExits DEF EmitInv, EmitIsFresh
<1>7. ASSUME NEW r \in run, Stop(r) PROVE EmitInv'
  <2>1. 130 # 0
    OBVIOUS
  <2>2. EmitIsFresh'
    BY <1>7, <2>1, FailedExits DEF Stop
  <2> QED BY <1>7, <2>2 DEF Stop, EmitInv
<1>8. ASSUME NEW d \in Dirs, Evaluate(d) PROVE EmitInv'
  <2>1. last'.front # "emit"
    BY <1>8 DEF Evaluate, Exit, NoExit
  <2> QED BY <1>8, <2>1 DEF Evaluate, EmitInv, EmitIsFresh
<1>9. ASSUME NEW o \in DOMAIN Outcome, RunByHand(o) PROVE EmitInv'
  BY <1>9 DEF RunByHand, EmitInv, EmitIsFresh, NoExit
<1> QED BY <1>1, <1>2, <1>3, <1>4, <1>5, <1>6, <1>7, <1>8, <1>9 DEF BenchNext

\* A golden file that golden_pc_stream.py reports as written is that of its own
\* simulation: --force removes the file first, and emit looks for it after the run.
THEOREM EmitsAreFresh == BenchSpec => []EmitIsFresh
<1>1. BenchInit => EmitInv
  <2> SUFFICES ASSUME BenchInit PROVE EmitInv
    OBVIOUS
  <2>1. golden = {0} /\ run = {} /\ last.front # "emit"
    BY DEF BenchInit, NoExit
  <2> QED BY <2>1 DEF EmitInv, EmitIsFresh
<1>2. EmitInv /\ [BenchNext]_benchVars => EmitInv'
  <2>1. ASSUME EmitInv, UNCHANGED benchVars PROVE EmitInv'
    BY <2>1 DEF benchVars, EmitInv, EmitIsFresh
  <2> QED BY <2>1, EmitStep
<1>3. EmitInv => EmitIsFresh
  BY DEF EmitInv
<1> QED BY <1>1, <1>2, <1>3, PTL DEF BenchSpec

-----------------------------------------------------------------------------
\* run_stage3_rtl_guard.py

\* A row of the guard is of this invocation, and if its simulation was started
\* the log it speaks of is that simulation's.
GuardRowFits(row, now) ==
    /\ row.run = now /\ row.rc = Outcome[row.out].rc
    /\ row.out \in DOMAIN Outcome \cap Possible[row.name] /\ ~Trips(Outcome[row.out].lines)
    /\ Launched(row.out) =>
          /\ row.sim = now
          /\ WellScored(row) => WellScored(Reading(row.name, Outcome[row.out].lines))

GuardRunFits(r, now) ==
    /\ r.args = GuardArgs /\ r.dir \in Dirs
    /\ r.phase \in {"rows", "score", "done"}
    /\ \E S : r.rows \in Seq(S) /\ \A row \in S : GuardRowFits(row, now)
    /\ r.phase = "score" =>
          LET n == Head(r.todo)
          IN  /\ n \in Names /\ r.out \in DOMAIN Outcome \cap Possible[n]
              /\ ~Trips(Outcome[r.out].lines)
              /\ Launched(r.out) => disk[r.dir].log[n] = [run |-> now, out |-> r.out]
    /\ r.phase = "done" => disk[r.dir].results = r.rows

\* The files of a run directory.
IsDir(x) ==
    x \in [manifest : {x.manifest}, results : {x.results}, log : {x.log}, profile : {x.profile},
           uses : {x.uses}, fresh : {x.fresh}, code : {x.code}]

DiskType ==
    /\ DOMAIN disk = Dirs
    /\ \A d \in Dirs :
          /\ IsDir(disk[d])
          /\ DOMAIN disk[d].log = Names

GuardInv ==
    /\ DiskType /\ runs \in Nat
    /\ run = {} \/ \E r : run = {r} /\ IsRun(r)
    /\ \A r \in run : runs # 0 /\ r.dir \in Dirs /\ (r.front = "guard" => GuardRunFits(r, runs))
    /\ GuardHolds

\* The guard starts the runner with one command line.
LEMMA GuardCommand ==
  ASSUME NEW c \in Commands, c.front = "guard"
  PROVE c.args = GuardArgs
<1>1. \/ \E a \in Args : c = [front |-> "user", args |-> a]
      \/ c = [front |-> "guard", args |-> GuardArgs]
      \/ \E n : c = [front |-> "emit", args |-> GoldenArgs(n, "EMIT_COMMIT_PC_HEX")]
      \/ \E n : c = [front |-> "verify", args |-> GoldenArgs(n, "CHECK_GOLDEN_PCS")]
  BY DEF Commands
<1> QED BY <1>1

\* An invocation that fails claims nothing.
LEMMA FailedGuards ==
  ASSUME NEW c, NEW d, NEW code, NEW fresh, Exit(c, d, code, fresh), code # 0 \/ c.front # "guard"
  PROVE GuardHolds'
<1>1. code # 0 => last' = [NoExit EXCEPT !.code = code]
  BY DEF Exit
<1>2. last'.front # "guard"
  BY <1>1 DEF Exit, NoExit
<1> QED BY <1>2 DEF GuardHolds

\* A simulation is started, or not.
LEMMA GuardSimulates ==
  ASSUME GuardInv, NEW r \in run, NEW o \in DOMAIN Outcome, Simulate(r, o)
  PROVE GuardInv'
<1>1. IsRun(r) /\ run = {r} /\ runs # 0 /\ DiskType
  BY DEF GuardInv
<1> PICK q : q = [r EXCEPT !.phase = "score", !.out = o]
  OBVIOUS
<1>2. run' = {q} /\ UNCHANGED <<legacy, last, runs>>
  BY DEF Simulate
<1>3. /\ q.front = r.front /\ q.args = r.args /\ q.dir = r.dir /\ q.rows = r.rows
      /\ q.todo = r.todo /\ q.out = o /\ q.phase = "score" /\ IsRun(q)
  BY <1>1 DEF IsRun
<1> PICK n : n = Head(r.todo)
  OBVIOUS
<1>4. /\ n \in Images /\ o \in Possible[n]
      /\ disk' = IF Launched(o) /\ r.args.runner = "dsim"
                 THEN [disk EXCEPT ![r.dir].log[n] = [run |-> runs, out |-> o]] ELSE disk
  BY DEF Simulate
<1>5. DiskType'
  <2> PICK now : now = runs
    OBVIOUS
  <2>1. CASE disk' = disk
    BY <1>1, <2>1 DEF DiskType
  <2>2. CASE disk' = [disk EXCEPT ![r.dir].log[n] = [run |-> runs, out |-> o]]
    <3> SUFFICES ASSUME NEW d \in Dirs
                 PROVE IsDir(disk'[d]) /\ DOMAIN disk'[d].log = Names
      BY <1>1, <2>2 DEF DiskType
    <3>1. IsDir(disk[d]) /\ DOMAIN disk[d].log = Names /\ DOMAIN disk = Dirs
      BY <1>1 DEF DiskType
    <3> PICK x : x = disk[d]
      OBVIOUS
    <3> PICK log : log = [x.log EXCEPT ![n] = [run |-> runs, out |-> o]]
      OBVIOUS
    <3>2. disk'[d] = x \/ disk'[d] = [x EXCEPT !.log = log]
      BY <2>2, <3>1
    <3>3. DOMAIN log = Names
      BY <3>1
    <3> QED BY <3>1, <3>2, <3>3 DEF IsDir
  <2> QED BY <1>4, <2>1, <2>2
<1>6. ASSUME q.front = "guard" PROVE GuardRunFits(q, runs)'
  <2>1. /\ r.args = GuardArgs /\ r.dir \in Dirs
        /\ \E S : r.rows \in Seq(S) /\ \A row \in S : GuardRowFits(row, runs)
    BY <1>3, <1>6 DEF GuardInv, GuardRunFits
  <2>2. r.args.runner = "dsim" /\ ~GoldenChecked(r.args, n)
    BY <2>1 DEF GuardArgs, Plain, GoldenChecked, GoalPlusargs
  <2>3. ~Trips(Outcome[o].lines)
    BY <2>2 DEF Simulate
  <2>4. Launched(o) => disk'[r.dir].log[n] = [run |-> runs, out |-> o]
    <3> SUFFICES ASSUME Launched(o) PROVE disk'[r.dir].log[n] = [run |-> runs, out |-> o]
      OBVIOUS
    <3>1. DOMAIN disk = Dirs /\ DOMAIN disk[r.dir].log = Names /\ n \in Names
          /\ IsDir(disk[r.dir])
      BY <1>1, <1>4, <2>1, BenchAssumption DEF DiskType
    <3> PICK x : x = disk[r.dir]
      OBVIOUS
    <3> PICK log : log = [x.log EXCEPT ![n] = [run |-> runs, out |-> o]]
      OBVIOUS
    <3>2. disk'[r.dir] = [x EXCEPT !.log = log]
      BY <1>4, <2>1, <2>2, <3>1
    <3>3. log[n] = [run |-> runs, out |-> o] /\ [x EXCEPT !.log = log].log = log
      BY <3>1 DEF IsDir
    <3> QED BY <3>2, <3>3
  <2> PICK now : now = runs /\ now = runs'
    BY <1>2
  <2>5. GuardRunFits(q, now)'
    BY <1>3, <1>4, <2>1, <2>3, <2>4, BenchAssumption DEF GuardRunFits
  <2> QED BY <2>5
<1>7. GuardHolds'
  BY <1>2 DEF GuardHolds
<1> QED BY <1>1, <1>2, <1>3, <1>5, <1>6, <1>7 DEF GuardInv

\* The row of a simulation that was started speaks of its own log.
LEMMA GuardRowIsOwn ==
  ASSUME NEW r, r.args = GuardArgs, NEW n \in Names, r.out \in DOMAIN Outcome \cap Possible[n],
         ~Trips(Outcome[r.out].lines), runs # 0,
         Launched(r.out) => disk[r.dir].log[n] = [run |-> runs, out |-> r.out]
  PROVE GuardRowFits(Row(r, n), runs)
<1> PICK row : row = Row(r, n)
  OBVIOUS
<1>1. /\ row.name = n /\ row.run = runs /\ row.out = r.out /\ row.rc = Outcome[r.out].rc
      /\ row.sim = IF LogRead(r, n) = NoLog THEN runs ELSE LogRead(r, n).run
      /\ row.status = Reading(n, Text(r, n)).status /\ row.metric = Reading(n, Text(r, n)).metric
      /\ row.counters = Reading(n, Text(r, n)).counters /\ row.loop = Reading(n, Text(r, n)).loop
      /\ row.decoded = Reading(n, Text(r, n)).decoded
  BY DEF Row
<1>2. WellScored(row) => WellScored(Reading(n, Text(r, n)))
  <2> PICK said : said = Reading(n, Text(r, n))
    OBVIOUS
  <2> QED BY <1>1 DEF WellScored
<1>3. ASSUME Launched(r.out)
      PROVE row.sim = runs /\ Reading(n, Text(r, n)) = Reading(n, Outcome[r.out].lines)
  <2> PICK log : log = [run |-> runs, out |-> r.out]
    OBVIOUS
  <2>1. r.args.runner = "dsim"
    BY DEF GuardArgs, Plain
  <2>2. LogRead(r, n) = log /\ log # NoLog /\ log.out = r.out /\ log.run = runs
    BY <1>3, <2>1 DEF LogRead, NoLog
  <2>3. Text(r, n) = Outcome[r.out].lines \o Outcome[r.out].lines
    BY <2>2 DEF Text
  <2>4. Reading(n, Text(r, n)) = Reading(n, Outcome[r.out].lines)
    BY <2>3, BenchAssumption, VerdictTwice
  <2> QED BY <1>1, <2>2, <2>4
<1> QED BY <1>1, <1>2, <1>3 DEF GuardRowFits

\* What a run directory holds is replaced, and its logs stay.
LEMMA FilesReplaced ==
  ASSUME DiskType, NEW d \in Dirs, NEW x, disk' = [disk EXCEPT ![d] = x],
         IsDir(x),
         x.log = disk[d].log
  PROVE DiskType' /\ disk'[d] = x
<1>1. DOMAIN disk = Dirs /\ DOMAIN x.log = Names
  BY DEF DiskType
<1>2. DOMAIN disk' = Dirs /\ disk'[d] = x /\ \A e \in Dirs : e # d => disk'[e] = disk[e]
  BY <1>1
<1> QED BY <1>1, <1>2 DEF DiskType

\* The results of a row, and the last ones with their summary.
LEMMA ResultsReplaced ==
  ASSUME DiskType, NEW d \in Dirs, NEW rows, NEW profile,
         \/ disk' = [disk EXCEPT ![d].results = rows]
         \/ disk' = [disk EXCEPT ![d].results = rows, ![d].profile = profile]
  PROVE DiskType' /\ disk'[d].results = rows
<1>1. IsDir(disk[d]) /\ DOMAIN disk = Dirs
  BY DEF DiskType
<1> PICK x : x = disk[d]
  OBVIOUS
<1> PICK y, z : /\ y = [x EXCEPT !.results = rows]
                /\ z = [x EXCEPT !.results = rows, !.profile = profile]
  OBVIOUS
<1>2. /\ IsDir(y) /\ y.results = rows /\ y.log = disk[d].log
      /\ IsDir(z) /\ z.results = rows /\ z.log = disk[d].log
  BY <1>1 DEF IsDir
<1>3. disk' = [disk EXCEPT ![d] = y] \/ disk' = [disk EXCEPT ![d] = z]
  <2>1. CASE disk' = [disk EXCEPT ![d].results = rows]
    BY <2>1
  <2>2. CASE disk' = [disk EXCEPT ![d].results = rows, ![d].profile = profile]
    BY <1>1, <2>2
  <2> QED BY <2>1, <2>2
<1> QED BY <1>2, <1>3, FilesReplaced

\* The row is added to the results, with what its own log says.
LEMMA GuardScores ==
  ASSUME GuardInv, NEW r \in run, Score(r)
  PROVE GuardInv'
<1>1. IsRun(r) /\ run = {r} /\ runs # 0 /\ DiskType
  BY DEF GuardInv
<1> PICK n, row, rows, todo : n = Head(r.todo) /\ row = Row(r, n) /\ rows = Append(r.rows, row)
                              /\ todo = Tail(r.todo)
  OBVIOUS
<1> PICK q : q = [r EXCEPT !.phase = "rows", !.out = "none", !.rows = rows, !.todo = todo]
  OBVIOUS
<1>2. /\ run' = {q} /\ UNCHANGED <<legacy, last, runs>> /\ r.phase = "score"
      /\ disk' = [disk EXCEPT ![r.dir].results = rows]
  BY DEF Score
<1>3. /\ q.front = r.front /\ q.args = r.args /\ q.dir = r.dir /\ q.rows = rows
      /\ q.phase = "rows" /\ IsRun(q)
  BY <1>1 DEF IsRun
<1>4. DiskType'
  BY <1>1, <1>2, ResultsReplaced DEF GuardInv
<1>5. ASSUME q.front = "guard" PROVE GuardRunFits(q, runs)'
  <2>1. GuardRunFits(r, runs)
    BY <1>3, <1>5 DEF GuardInv
  <2>2. GuardRowFits(row, runs)
    BY <1>1, <1>2, <2>1, GuardRowIsOwn DEF GuardRunFits
  <2>3. \E S : rows \in Seq(S) /\ \A x \in S : GuardRowFits(x, runs)
    <3> PICK S : r.rows \in Seq(S) /\ \A x \in S : GuardRowFits(x, runs)
      BY <2>1 DEF GuardRunFits
    <3> PICK T : T = S \union {row}
      OBVIOUS
    <3>1. r.rows \in Seq(T)
      OBVIOUS
    <3>2. rows \in Seq(T)
      BY <3>1
    <3> QED BY <2>2, <3>2
  <2> QED BY <1>2, <1>3, <2>1, <2>3 DEF GuardRunFits
<1>6. GuardHolds'
  BY <1>2 DEF GuardHolds
<1> QED BY <1>1, <1>2, <1>3, <1>4, <1>5, <1>6 DEF GuardInv

\* The last results are written, with the summary.
LEMMA GuardFinishes ==
  ASSUME GuardInv, NEW r \in run, Finish(r)
  PROVE GuardInv'
<1>1. IsRun(r) /\ run = {r} /\ runs # 0 /\ DiskType
  BY DEF GuardInv
<1> PICK q : q = [r EXCEPT !.phase = "done"]
  OBVIOUS
<1>2. /\ run' = {q} /\ UNCHANGED <<legacy, last, runs>>
      /\ disk' = [disk EXCEPT ![r.dir].results = r.rows,
                              ![r.dir].profile = IF r.args.no_summary \/ Profile(r) = {}
                                                  THEN @ ELSE Profile(r)]
  BY DEF Finish
<1>3. /\ q.front = r.front /\ q.args = r.args /\ q.dir = r.dir /\ q.rows = r.rows
      /\ q.phase = "done" /\ IsRun(q)
  BY <1>1 DEF IsRun
<1>4. DiskType' /\ disk'[r.dir].results = r.rows
  <2> PICK d, profile : /\ d = r.dir
                        /\ profile = IF r.args.no_summary \/ Profile(r) = {}
                                     THEN disk[d].profile ELSE Profile(r)
    OBVIOUS
  <2>1. disk' = [disk EXCEPT ![d].results = r.rows, ![d].profile = profile] /\ d \in Dirs
    BY <1>2 DEF GuardInv
  <2> QED BY <1>1, <2>1, ResultsReplaced
<1>5. q.front = "guard" => GuardRunFits(q, runs)'
  BY <1>2, <1>3, <1>4 DEF GuardInv, GuardRunFits
<1>6. GuardHolds'
  BY <1>2 DEF GuardHolds
<1> QED BY <1>1, <1>2, <1>3, <1>4, <1>5, <1>6 DEF GuardInv

\* An invocation starts, and has no rows yet.
LEMMA GuardBegins ==
  ASSUME GuardInv, NEW c \in Commands, NEW d \in Dirs, NEW repo \in Repos, Begin(c, d, repo)
  PROVE GuardInv'
<1>1. /\ runs' = runs + 1 /\ last' = NoExit /\ runs \in Nat /\ DiskType
      /\ run' = {[front |-> c.front, args |-> c.args, dir |-> d, rows |-> <<>>,
                  todo |-> Selected(c.args), out |-> "none", phase |-> "rows",
                  fresh |-> Unused(d)]}
  BY DEF Begin, GuardInv
<1> PICK q : q = [front |-> c.front, args |-> c.args, dir |-> d, rows |-> <<>>,
                  todo |-> Selected(c.args), out |-> "none", phase |-> "rows",
                  fresh |-> Unused(d)]
  OBVIOUS
<1>2. /\ q.front = c.front /\ q.args = c.args /\ q.dir = d /\ q.rows = <<>> /\ q.phase = "rows"
      /\ IsRun(q) /\ run' = {q}
  BY <1>1 DEF IsRun
<1>3. DiskType'
  <2> PICK m, fresh : m = {RunManifest(c.args, repo)} /\ fresh = Unused(d)
    OBVIOUS
  <2> PICK x : x = disk[d]
    OBVIOUS
  <2>1. IsDir(x) /\ d \in DOMAIN disk
    BY <1>1 DEF DiskType
  <2> PICK y : y = [x EXCEPT !.manifest = m, !.uses = @ + 1, !.fresh = fresh, !.code = {}]
    OBVIOUS
  <2>2. disk' = [disk EXCEPT ![d] = y]
    BY <2>1 DEF Begin
  <2>3. IsDir(y) /\ y.log = disk[d].log
    BY <2>1 DEF IsDir
  <2> QED BY <1>1, <2>2, <2>3, FilesReplaced
<1>4. ASSUME q.front = "guard" PROVE GuardRunFits(q, runs)'
  <2>1. c.args = GuardArgs
    BY <1>2, <1>4, GuardCommand
  <2>2. \E S : q.rows \in Seq(S) /\ \A row \in S : GuardRowFits(row, runs')
    <3> PICK S : S = {}
      OBVIOUS
    <3>1. q.rows \in Seq(S)
      BY <1>2
    <3>2. \A row \in S : GuardRowFits(row, runs')
      OBVIOUS
    <3> QED BY <3>1, <3>2
  <2> QED BY <1>2, <2>1, <2>2 DEF GuardRunFits
<1>5. GuardHolds'
  BY <1>1 DEF GuardHolds
<1> QED BY <1>1, <1>2, <1>3, <1>4, <1>5 DEF GuardInv

\* The guard lets the run pass: its row of every benchmark was started, for a
\* simulation that was not has failed, and so speaks of its own log.
LEMMA GuardPasses ==
  ASSUME GuardInv, NEW r \in run, r.front = "guard", r.phase = "done", Code(r) = 0,
         NEW n \in GuardBenches
  PROVE \E i \in DOMAIN disk[r.dir].results :
           LET row == disk[r.dir].results[i]
           IN  row.name = n /\ row.run = runs /\ row.sim = runs /\ row.out \in Kept
<1>1. GuardRunFits(r, runs)
  BY DEF GuardInv
<1>2. r.args.run_class = "dse" /\ r.args.run_class # "signoff" /\ disk[r.dir].results = r.rows
  BY <1>1 DEF GuardRunFits, GuardArgs, Plain
<1>3. RunCode(r) = 0 /\ GuardCode(r.rows) = 0
  BY <1>2 DEF Code
<1>4. \A i \in DOMAIN r.rows : r.rows[i].rc = 0
  BY <1>2, <1>3 DEF RunCode
<1>5. PICK i \in DOMAIN r.rows : r.rows[i].name = n /\ WellScored(r.rows[i])
  BY <1>3 DEF GuardCode, GuardRow
<1> PICK row : row = r.rows[i]
  OBVIOUS
<1>6. GuardRowFits(row, runs)
  <2> PICK S : r.rows \in Seq(S) /\ \A x \in S : GuardRowFits(x, runs)
    BY <1>1 DEF GuardRunFits
  <2> QED BY <1>5
<1>7. row.name = n /\ row.rc = 0 /\ WellScored(row)
  BY <1>4, <1>5
<1>8. Launched(row.out)
  BY <1>6, <1>7, BenchAssumption DEF GuardRowFits
<1>9. row.run = runs /\ row.sim = runs /\ row.out \in Kept
  BY <1>6, <1>7, <1>8, BenchAssumption DEF GuardRowFits
<1> QED BY <1>2, <1>5, <1>7, <1>9

\* The program that started the run returns its own verdict.
LEMMA GuardReturns ==
  ASSUME GuardInv, NEW r \in run, Return(r)
  PROVE GuardInv'
<1>1. IsRun(r) /\ runs # 0 /\ DiskType /\ r.dir \in Dirs
  BY DEF GuardInv
<1>2. /\ Exit(r, {r.dir}, Code(r), r.fresh) /\ run' = {} /\ runs' = runs /\ r.phase = "done"
      /\ disk' = [disk EXCEPT ![r.dir].code = {Code(r)}]
  BY DEF Return
<1> PICK d, code : d = r.dir /\ code = {Code(r)}
  OBVIOUS
<1>3. DiskType' /\ disk'[d].results = disk[d].results
  <2> PICK x : x = disk[d]
    OBVIOUS
  <2>1. IsDir(x) /\ d \in DOMAIN disk /\ d \in Dirs
    BY <1>1 DEF DiskType
  <2> PICK y : y = [x EXCEPT !.code = code]
    OBVIOUS
  <2>2. disk' = [disk EXCEPT ![d] = y]
    BY <1>2, <2>1
  <2>3. IsDir(y) /\ y.log = disk[d].log /\ y.results = disk[d].results
    BY <2>1 DEF IsDir
  <2> QED BY <1>1, <2>1, <2>2, <2>3, FilesReplaced
<1>4. GuardHolds'
  <2>1. CASE r.front = "guard" /\ Code(r) = 0
    <3>1. \A n \in GuardBenches : \E i \in DOMAIN disk[d].results :
             LET row == disk[d].results[i]
             IN  row.name = n /\ row.run = runs /\ row.sim = runs /\ row.out \in Kept
      BY <1>2, <2>1, GuardPasses
    <3>2. last'.dir = {d} /\ last'.run = runs
      BY <1>2, <2>1 DEF Exit
    <3> QED BY <1>3, <3>1, <3>2 DEF GuardHolds
  <2>2. CASE ~(r.front = "guard" /\ Code(r) = 0)
    BY <1>2, <2>2, FailedGuards
  <2> QED BY <2>1, <2>2
<1> QED BY <1>1, <1>2, <1>3, <1>4 DEF GuardInv

\* Each step of the runner and of the programs around it.
LEMMA GuardStep ==
  ASSUME GuardInv, BenchNext PROVE GuardInv'
<1>1. ASSUME UNCHANGED <<disk, run>>, runs \in Nat, runs' = runs + 1, run = {}, GuardHolds'
      PROVE GuardInv'
  BY <1>1 DEF GuardInv, DiskType
<1>2. ASSUME NEW c \in Commands, NEW repo \in Repos, NEW built \in BOOLEAN, NEW force \in BOOLEAN,
             Refuse(c, repo, built, force)
      PROVE GuardInv'
  <2>1. PICK code \in FailCode(c, Selected(c.args), repo, built, force) : Exit(c, {}, code, FALSE)
    BY <1>2 DEF Refuse
  <2>2. code # 0
    BY FailCodes
  <2> QED BY <1>1, <1>2, <2>1, <2>2, FailedGuards DEF Refuse, GuardInv
<1>3. ASSUME NEW c \in Commands, NEW repo \in Repos, DryRun(c, repo) PROVE GuardInv'
  <2>1. c.front # "guard"
    <3>1. c.args.dry
      BY <1>3 DEF DryRun
    <3>2. c.front = "guard" => c.args = GuardArgs
      BY GuardCommand
    <3>3. ~GuardArgs.dry
      BY DEF GuardArgs, Plain
    <3> QED BY <3>1, <3>2, <3>3
  <2>2. PICK code : Exit(c, {}, code, FALSE)
    BY <1>3 DEF DryRun
  <2> QED BY <1>1, <1>3, <2>1, <2>2, FailedGuards DEF DryRun, GuardInv
<1>4. ASSUME NEW r \in run, Stop(r) PROVE GuardInv'
  <2>1. 130 # 0
    OBVIOUS
  <2>2. GuardHolds'
    BY <1>4, <2>1, FailedGuards DEF Stop
  <2> QED BY <1>4, <2>2 DEF Stop, GuardInv, DiskType
<1>5. ASSUME NEW d \in Dirs, Evaluate(d) PROVE GuardInv'
  <2>1. last'.front # "guard"
    BY <1>5 DEF Evaluate, Exit, NoExit
  <2>2. GuardHolds'
    BY <2>1 DEF GuardHolds
  <2> QED BY <1>1, <1>5, <2>2 DEF Evaluate, GuardInv
<1>6. ASSUME NEW o \in DOMAIN Outcome, RunByHand(o) PROVE GuardInv'
  <2>1. GuardHolds'
    BY <1>6 DEF RunByHand, GuardHolds, NoExit
  <2> QED BY <1>1, <1>6, <2>1 DEF RunByHand, GuardInv
<1> QED BY <1>2, <1>3, <1>4, <1>5, <1>6, GuardBegins, GuardSimulates, GuardScores, GuardFinishes,
           GuardReturns DEF BenchNext

\* run_stage3_rtl_guard.py lets a change pass only after every one of its
\* benchmarks was simulated in this run and scored well, whatever logs and results
\* the directory held: a simulation that was not started returns a code that is
\* not zero, and only its own log can be read of one that was.
THEOREM GuardsHold == BenchSpec => []GuardHolds
<1>1. BenchInit => GuardInv
  <2> SUFFICES ASSUME BenchInit PROVE GuardInv
    OBVIOUS
  <2>1. run = {} /\ last.front # "guard" /\ runs = 0 /\ disk = [d \in Dirs |-> EmptyDir]
    BY DEF BenchInit, NoExit
  <2>2. DiskType
    BY <2>1 DEF DiskType, IsDir, EmptyDir
  <2> QED BY <2>1, <2>2 DEF GuardInv, GuardHolds
<1>2. GuardInv /\ [BenchNext]_benchVars => GuardInv'
  <2>1. ASSUME GuardInv, UNCHANGED benchVars PROVE GuardInv'
    BY <2>1 DEF benchVars, GuardInv, GuardHolds, GuardRunFits, DiskType
  <2> QED BY <2>1, GuardStep
<1>3. GuardInv => GuardHolds
  BY DEF GuardInv
<1> QED BY <1>1, <1>2, <1>3, PTL DEF BenchSpec

-----------------------------------------------------------------------------
\* run_benchmarks.py started by a user, and what is read of its results.

\* What each benchmark's manifest entry asks of its log is what makes an outcome
\* right: the gate passes no other, nor one that has not moved the counter its
\* mechanism promised to move.
GateJudges ==
    \A args \in Args, n \in Names : \A o \in DOMAIN Outcome \cap Possible[n] :
        /\ args.run_class = "signoff"
        /\ Gate(args, Bench[n], n, Outcome[o].lines, Provenance(o), BaselineRows(args)) = "PASS"
        => o \in Sound[n] /\ (args.mech \in MovingClasses => o \in Faster)

\* A log that a simulation wrote.
IsLog(l) == l \in [run : Nat \ {0}, out : DOMAIN Outcome]

\* The log that is read of a benchmark, in directory x.
ReadIn(r, n, x, left) ==
    IF r.args.runner # "dsim" THEN NoLog
    ELSE IF x.log[n].run # 0 THEN x.log[n]
    ELSE IF left # {} THEN CHOOSE l \in left : TRUE ELSE NoLog

\* What the summary says of a row.
SummaryIn(r, row, x, left) ==
    ProfileStatus(Outcome[IF ReadIn(r, row.name, x, left) = NoLog THEN row.out
                          ELSE ReadIn(r, row.name, x, left).out].lines)

\* A directory that was not used is empty, and a summary is of an earlier
\* invocation or this one.
DirFits(x, now) ==
    /\ x.uses \in Nat /\ (x.uses = 0 => x = EmptyDir)
    /\ \A n \in Names : x.log[n] = NoLog \/ IsLog(x.log[n])
    /\ \A p \in x.profile : p.run \in Nat /\ p.run <= now

\* A row of a run in a directory of its own.
OwnRow(args, row, now) ==
    /\ row.run = now /\ row.sim = now
    /\ row.name \in Names /\ row.out \in DOMAIN Outcome \cap Possible[row.name]
    /\ row.gate = Gate(args, Bench[row.name], row.name, Outcome[row.out].lines,
                       Provenance(row.out), BaselineRows(args))

\* The rows are those of the first benchmarks selected, and the others are
\* still to do.
Follows(rows, todo, all) ==
    /\ Len(rows) + Len(todo) = Len(all)
    /\ \A i \in 1..Len(rows) : rows[i].name = all[i]
    /\ \A i \in 1..Len(todo) : todo[i] = all[Len(rows) + i]

InOrder(r) == r.todo \in Seq(Names) /\ Follows(r.rows, r.todo, Selected(r.args))

\* The benchmarks that have no log yet in a directory of this run only.
Waiting(r) ==
    {r.todo[i] : i \in {j \in 1..Len(r.todo) :
        j = 1 /\ r.phase = "score" => ~(Launched(r.out) /\ r.args.runner = "dsim")}}

\* A run for the goal is one of all its benchmarks.
GoalFits(args, repo) ==
    args.goal => /\ args.run_class = "signoff" /\ args.manifest = "stage1" /\ args.bench = {}
                 /\ repo.contract /\ GoalPlusargs \subseteq args.plus

\* A run of a user has its rows and logs in order, and in a directory that no other
\* run has used they speak of this one.
UserFits(r, x, left, now) ==
    /\ r.args \in Args /\ Selected(r.args) # <<>> /\ InOrder(r)
    /\ \A i \in DOMAIN r.rows :
          /\ r.rows[i].run = now
          /\ r.rows[i].gate = "PASS" => SummaryIn(r, r.rows[i], x, left) # "NO_PASS"
    /\ r.phase = "score" =>
          /\ r.todo # <<>> /\ r.out \in DOMAIN Outcome \cap Possible[Head(r.todo)]
          /\ Launched(r.out) /\ r.args.runner = "dsim" =>
                x.log[Head(r.todo)] = [run |-> now, out |-> r.out]
    /\ r.phase = "done" => r.todo = <<>>
    /\ r.fresh =>
          /\ left = {} /\ x.results = r.rows
          /\ \A i \in DOMAIN r.rows : OwnRow(r.args, r.rows[i], now)
          /\ \A n \in Waiting(r) : x.log[n] = NoLog

\* What ParsersAgree, SignoffIsEarned and GoalEvidence say of one directory.
AgreeIn(x) ==
    \A p \in x.profile, i \in DOMAIN x.results :
        p.name = x.results[i].name /\ p.run = x.results[i].run /\ x.results[i].gate = "PASS"
            => p.status # "NO_PASS"

EarnedIn(x, names, args, i) ==
    /\ [k \in DOMAIN x.results |-> x.results[k].name] = names
    /\ \A k \in DOMAIN x.results :
          /\ x.results[k].run = i /\ x.results[k].sim = i
          /\ x.results[k].out \in Sound[x.results[k].name]
          /\ args.mech \in MovingClasses => x.results[k].out \in Faster

PassesIn(x) ==
    /\ x.manifest # {}
    /\ LET m == CHOOSE y \in x.manifest : TRUE
       IN  /\ m.goal /\ m.run_class = "signoff" /\ m.stage1 /\ m.contract
           /\ GoalPlusargs \subseteq m.plus
    /\ x.results # <<>> /\ \A i \in DOMAIN x.results : x.results[i].gate = "PASS"

EvidenceIn(x) ==
    x.fresh /\ x.code \subseteq {0, 1} =>
        /\ PassesIn(x) =>
              \A i \in DOMAIN x.results :
                 /\ x.results[i].sim = x.results[1].run
                 /\ x.results[i].out \in Sound[x.results[i].name]
                 /\ x.results[i].name = Manifest["stage1"][i]
        /\ \A m \in x.manifest, c \in x.code :
              m.goal => (PassesIn(x) <=> c = 0 /\ Len(x.results) = Len(Manifest["stage1"]))

\* An invocation under way, in directory x.
RunFits(r, x, left, now) ==
    /\ now # 0 /\ r.dir \in Dirs /\ r.phase \in {"rows", "score", "done"}
    /\ x.code = {} /\ x.uses # 0 /\ x.fresh = r.fresh
    /\ \E repo \in Repos : x.manifest = {RunManifest(r.args, repo)} /\ GoalFits(r.args, repo)
    /\ \E S : r.rows \in Seq(S)
    /\ IF r.front = "user" THEN UserFits(r, x, left, now)
       ELSE /\ r.args.run_class = "dse" /\ ~r.args.goal
            /\ \A i \in DOMAIN r.rows : r.rows[i].gate # "PASS"
    /\ IF r.phase = "done" THEN x.results = r.rows /\ AgreeIn(x)
       ELSE \A p \in x.profile : p.run < now

\* The same, with the types of the files.
Under(r, x, left, now) ==
    /\ IsRun(r) /\ IsDir(x) /\ DOMAIN x.log = Names /\ now \in Nat
    /\ DirFits(x, now) /\ RunFits(r, x, left, now)

SignoffInv ==
    /\ DiskType /\ runs \in Nat
    /\ \A d \in Dirs : DirFits(disk[d], runs)
    /\ legacy = {} \/ \E l : legacy = {l} /\ IsLog(l)
    /\ run = {} \/ \E r : run = {r} /\ IsRun(r)
    /\ \A r \in run : RunFits(r, disk[r.dir], legacy, runs)
    /\ \A d \in Dirs : disk[d].code # {} => AgreeIn(disk[d])
    /\ GateJudges => SignoffIsEarned /\ \A d \in Dirs : EvidenceIn(disk[d])

-----------------------------------------------------------------------------
\* A benchmark is selected once.
LEMMA SelectedOnce ==
  ASSUME NEW args \in Args
  PROVE /\ Selected(args) \in Seq(Names) /\ Len(Selected(args)) \in Nat
        /\ DOMAIN Selected(args) = 1..Len(Selected(args))
        /\ \A i, j \in 1..Len(Selected(args)) : Selected(args)[i] = Selected(args)[j] => i = j
<1>1. Selected(args) \in Seq(Names)
  BY BenchAssumption
<1>2. Len(Selected(args)) \in Nat /\ DOMAIN Selected(args) = 1..Len(Selected(args))
  BY <1>1
<1> QED BY <1>1, <1>2, BenchAssumption

Once(all, n) == \A i, j \in 1..n : all[i] = all[j] => i = j

Apart(all, m, k) ==
    /\ \A i \in 1..m, j \in 1..k : all[i] # all[m + j]
    /\ \A i, j \in 1..m : all[i] = all[j] => i = j
    /\ \A i, j \in 1..k : all[m + i] = all[m + j] => i = j
    /\ \A i \in 1..m : i \in 1..(m + k)

\* A sequence that names each benchmark once has no name twice in its two parts.
LEMMA TwoParts ==
  ASSUME NEW m \in Nat, NEW k \in Nat, NEW all, Once(all, m + k)
  PROVE Apart(all, m, k)
<1>1. \A i \in 1..m : i \in 1..(m + k)
  OBVIOUS
<1>2. \A j \in 1..k : m + j \in 1..(m + k) /\ m + j \notin 1..m
  OBVIOUS
<1>3. \A i, j \in 1..k : m + i = m + j => i = j
  OBVIOUS
<1> QED BY <1>1, <1>2, <1>3 DEF Once, Apart

\* So the rows are of other benchmarks than those that are still to do.
LEMMA OtherNames ==
  ASSUME NEW r, r.args \in Args, InOrder(r), NEW S, r.rows \in Seq(S)
  PROVE /\ \A i \in 1..Len(r.rows), j \in 1..Len(r.todo) : r.rows[i].name # r.todo[j]
        /\ \A i, j \in 1..Len(r.rows) : r.rows[i].name = r.rows[j].name => i = j
        /\ \A i, j \in 1..Len(r.todo) : r.todo[i] = r.todo[j] => i = j
        /\ Len(r.rows) \in Nat /\ Len(r.todo) \in Nat
        /\ DOMAIN r.rows = 1..Len(r.rows) /\ DOMAIN r.todo = 1..Len(r.todo)
        /\ \A i \in 1..Len(r.rows) : r.rows[i].name \in Names
<1> PICK all : all = Selected(r.args)
  OBVIOUS
<1>1. /\ r.todo \in Seq(Names) /\ Len(r.rows) + Len(r.todo) = Len(all)
      /\ \A i \in 1..Len(r.rows) : r.rows[i].name = all[i]
      /\ \A i \in 1..Len(r.todo) : r.todo[i] = all[Len(r.rows) + i]
  BY DEF InOrder, Follows
<1>2. \A i, j \in 1..Len(all) : all[i] = all[j] => i = j
  BY SelectedOnce
<1>3. Len(r.rows) \in Nat /\ DOMAIN r.rows = 1..Len(r.rows)
  OBVIOUS
<1>4. Len(r.todo) \in Nat /\ DOMAIN r.todo = 1..Len(r.todo)
  BY <1>1
<1>5. PICK m \in Nat, k \in Nat : m = Len(r.rows) /\ k = Len(r.todo)
  BY <1>3, <1>4
<1>6. Len(all) = m + k
  BY <1>1, <1>5
<1>7. Apart(all, m, k)
  BY <1>2, <1>6, TwoParts DEF Once
<1>8. \A i \in 1..m : all[i] \in Names
  BY <1>6, <1>7, SelectedOnce DEF Apart
<1>9. \A i \in 1..m, j \in 1..k : r.rows[i].name # r.todo[j]
  BY <1>1, <1>5, <1>7 DEF Apart
<1>10. \A i, j \in 1..m : r.rows[i].name = r.rows[j].name => i = j
  BY <1>1, <1>5, <1>7 DEF Apart
<1>11. \A i, j \in 1..k : r.todo[i] = r.todo[j] => i = j
  BY <1>1, <1>5, <1>7 DEF Apart
<1>12. \A i \in 1..m : r.rows[i].name \in Names
  BY <1>1, <1>5, <1>8
<1> QED BY <1>3, <1>4, <1>5, <1>9, <1>10, <1>11, <1>12

\* In a directory of this run only, what the audit takes for evidence is.
LEMMA EvidenceOfRun ==
  ASSUME GateJudges, NEW r, NEW x, NEW left, NEW now, RunFits(r, x, left, now)
  PROVE EvidenceIn(x)
<1> SUFFICES ASSUME x.fresh, PassesIn(x)
             PROVE \A i \in DOMAIN x.results :
                      /\ x.results[i].sim = x.results[1].run
                      /\ x.results[i].out \in Sound[x.results[i].name]
                      /\ x.results[i].name = Manifest["stage1"][i]
  BY DEF RunFits, EvidenceIn
<1>1. PICK repo \in Repos : x.manifest = {RunManifest(r.args, repo)} /\ GoalFits(r.args, repo)
  BY DEF RunFits
<1>2. r.args.goal
  <2> PICK m : m = RunManifest(r.args, repo)
    OBVIOUS
  <2>1. (CHOOSE y \in x.manifest : TRUE) = m
    BY <1>1
  <2>2. m.goal
    BY <2>1 DEF PassesIn
  <2> QED BY <2>2 DEF RunManifest
<1>3. /\ UserFits(r, x, left, now) /\ r.fresh /\ \E S : r.rows \in Seq(S)
  BY <1>2 DEF RunFits
<1>4. /\ x.results = r.rows /\ \A i \in DOMAIN r.rows : OwnRow(r.args, r.rows[i], now)
      /\ r.args \in Args /\ InOrder(r) /\ r.rows # <<>>
  BY <1>3 DEF UserFits, PassesIn
<1>5. Selected(r.args) = Manifest["stage1"] /\ r.args.run_class = "signoff"
  BY <1>1, <1>2 DEF GoalFits, Selected
<1>6. \A i \in DOMAIN r.rows : r.rows[i].out \in Sound[r.rows[i].name]
  <2> SUFFICES ASSUME NEW i \in DOMAIN r.rows PROVE r.rows[i].out \in Sound[r.rows[i].name]
    OBVIOUS
  <2>1. OwnRow(r.args, r.rows[i], now) /\ r.rows[i].gate = "PASS"
    BY <1>4 DEF PassesIn
  <2> QED BY <1>4, <1>5, <2>1 DEF OwnRow, GateJudges
<1>7. /\ DOMAIN r.rows = 1..Len(r.rows) /\ 1 \in DOMAIN r.rows
      /\ \A i \in 1..Len(r.rows) : r.rows[i].name = Selected(r.args)[i]
  BY <1>3, <1>4 DEF InOrder, Follows
<1> QED BY <1>4, <1>5, <1>6, <1>7 DEF OwnRow

\* When nothing is left to do, there is a row of each.
LEMMA NamesOfAll ==
  ASSUME NEW r, r.args \in Args, InOrder(r), NEW S, r.rows \in Seq(S), r.todo = <<>>
  PROVE /\ [k \in DOMAIN r.rows |-> r.rows[k].name] = Selected(r.args)
        /\ Len(r.rows) = Len(Selected(r.args))
        /\ Selected(r.args) # <<>> => r.rows # <<>>
<1> PICK all : all = Selected(r.args)
  OBVIOUS
<1>1. all \in Seq(Names) /\ DOMAIN all = 1..Len(all) /\ Len(all) \in Nat
  BY SelectedOnce
<1>2. Len(r.rows) \in Nat /\ DOMAIN r.rows = 1..Len(r.rows)
  OBVIOUS
<1>3. Len(r.rows) + 0 = Len(all) /\ \A i \in 1..Len(r.rows) : r.rows[i].name = all[i]
  BY DEF InOrder, Follows
<1>4. Len(r.rows) = Len(all)
  BY <1>2, <1>3
<1>5. [k \in DOMAIN r.rows |-> r.rows[k].name] = all
  BY <1>1, <1>2, <1>3, <1>4
<1>6. all # <<>> => r.rows # <<>>
  BY <1>1, <1>4
<1> QED BY <1>4, <1>5, <1>6

\* A simulation is started, or not: its log is that of its own benchmark.
SimulatedRun(r, o) == [r EXCEPT !.phase = "score", !.out = o]
SimulatedDir(r, x, o, now) ==
    IF Launched(o) /\ r.args.runner = "dsim"
    THEN [x EXCEPT !.log = [x.log EXCEPT ![Head(r.todo)] = [run |-> now, out |-> o]]] ELSE x

\* So the other benchmarks keep the logs they had.
LEMMA SimulatedFits ==
  ASSUME NEW r, NEW x, NEW left, NEW now, Under(r, x, left, now), r.phase = "rows", r.todo # <<>>,
         Head(r.todo) \in Names, NEW o \in DOMAIN Outcome, o \in Possible[Head(r.todo)]
  PROVE Under(SimulatedRun(r, o), SimulatedDir(r, x, o, now), left, now)
<1> PICK n, log : n = Head(r.todo) /\ log = [x.log EXCEPT ![n] = [run |-> now, out |-> o]]
  OBVIOUS
<1> PICK q, y : q = SimulatedRun(r, o) /\ y = SimulatedDir(r, x, o, now)
  OBVIOUS
<1>0. /\ q = [r EXCEPT !.phase = "score", !.out = o]
      /\ y = IF Launched(o) /\ r.args.runner = "dsim" THEN [x EXCEPT !.log = log] ELSE x
      /\ IsRun(r) /\ IsDir(x) /\ DOMAIN x.log = Names /\ now \in Nat
      /\ DirFits(x, now) /\ RunFits(r, x, left, now) /\ n \in Names /\ o \in Possible[n]
  BY DEF SimulatedRun, SimulatedDir, Under
<1> USE <1>0
<1>1. /\ q.front = r.front /\ q.args = r.args /\ q.dir = r.dir /\ q.rows = r.rows
      /\ q.todo = r.todo /\ q.out = o /\ q.phase = "score" /\ q.fresh = r.fresh
  BY DEF IsRun
<1>2. DOMAIN log = Names /\ \A m \in Names : log[m] = IF m = n THEN [run |-> now, out |-> o] ELSE x.log[m]
  OBVIOUS
<1>3. /\ y.manifest = x.manifest /\ y.results = x.results /\ y.profile = x.profile
      /\ y.uses = x.uses /\ y.fresh = x.fresh /\ y.code = x.code /\ IsDir(y)
      /\ y.log = IF Launched(o) /\ r.args.runner = "dsim" THEN log ELSE x.log
  <2> PICK z : z = [x EXCEPT !.log = log]
    OBVIOUS
  <2>1. /\ z.manifest = x.manifest /\ z.results = x.results /\ z.profile = x.profile
        /\ z.uses = x.uses /\ z.fresh = x.fresh /\ z.code = x.code /\ z.log = log /\ IsDir(z)
    BY DEF IsDir
  <2> QED BY <2>1
<1>4. now # 0 /\ x.uses # 0
  BY DEF RunFits
<1>5. DirFits(y, now)
  <2>1. IsLog([run |-> now, out |-> o])
    BY <1>4 DEF IsLog
  <2>2. \A m \in Names : y.log[m] = NoLog \/ IsLog(y.log[m])
    BY <1>2, <1>3, <2>1 DEF DirFits
  <2> QED BY <1>3, <1>4, <2>2 DEF DirFits
<1>6. ASSUME r.front = "user" PROVE UserFits(q, y, left, now)
  <2>1. UserFits(r, x, left, now) /\ \E S : r.rows \in Seq(S)
    BY <1>6 DEF RunFits
  <2>2. r.args \in Args /\ InOrder(r) /\ InOrder(q) /\ Selected(r.args) # <<>>
    BY <1>1, <2>1 DEF UserFits, InOrder, Follows
  <2>3. /\ \A i \in DOMAIN r.rows : r.rows[i].name # n
        /\ \A j \in 1..Len(r.todo) : j # 1 => r.todo[j] # n
        /\ Len(r.todo) \in Nat /\ 1 \in 1..Len(r.todo) /\ n = r.todo[1] /\ r.todo \in Seq(Names)
    <3>1. r.todo \in Seq(Names)
      BY <2>2 DEF InOrder, Follows
    <3>2. Len(r.todo) \in Nat /\ 1 \in 1..Len(r.todo) /\ n = r.todo[1]
      BY <3>1
    <3>3. PICK S : r.rows \in Seq(S)
      BY <2>1
    <3>4. /\ \A i \in 1..Len(r.rows), j \in 1..Len(r.todo) : r.rows[i].name # r.todo[j]
          /\ \A i, j \in 1..Len(r.todo) : r.todo[i] = r.todo[j] => i = j
          /\ DOMAIN r.rows = 1..Len(r.rows)
      BY <2>2, <3>3, OtherNames
    <3>5. \A i \in DOMAIN r.rows : r.rows[i].name # n
      BY <3>2, <3>4
    <3>6. \A j \in 1..Len(r.todo) : j # 1 => r.todo[j] # n
      BY <3>2, <3>4
    <3> QED BY <3>1, <3>2, <3>5, <3>6
  <2>4. ASSUME NEW i \in DOMAIN r.rows
        PROVE r.rows[i].run = now /\ (r.rows[i].gate = "PASS" => SummaryIn(q, r.rows[i], y, left) # "NO_PASS")
    <3> PICK row : row = r.rows[i]
      OBVIOUS
    <3>1. row.run = now /\ (row.gate = "PASS" => SummaryIn(r, row, x, left) # "NO_PASS")
      BY <2>1 DEF UserFits
    <3>2. row.name \in Names /\ row.name # n
      BY <2>1, <2>2, <2>3, OtherNames
    <3>3. y.log[row.name] = x.log[row.name]
      BY <1>2, <1>3, <3>2
    <3>4. ReadIn(q, row.name, y, left) = ReadIn(r, row.name, x, left)
      BY <1>1, <3>3 DEF ReadIn
    <3> QED BY <3>1, <3>4 DEF SummaryIn
  <2>5. /\ q.todo # <<>> /\ q.out \in DOMAIN Outcome \cap Possible[Head(q.todo)]
        /\ Launched(q.out) /\ q.args.runner = "dsim" =>
              y.log[Head(q.todo)] = [run |-> now, out |-> q.out]
    BY <1>1, <1>2, <1>3
  <2>6. ASSUME r.fresh
        PROVE /\ left = {} /\ y.results = q.rows
              /\ \A i \in DOMAIN q.rows : OwnRow(q.args, q.rows[i], now)
              /\ \A m \in Waiting(q) : y.log[m] = NoLog
    <3>1. /\ left = {} /\ x.results = r.rows
          /\ \A i \in DOMAIN r.rows : OwnRow(r.args, r.rows[i], now)
          /\ \A m \in Waiting(r) : x.log[m] = NoLog
      BY <2>1, <2>6 DEF UserFits
    <3>2. ASSUME NEW m \in Waiting(q) PROVE y.log[m] = NoLog
      <4>1. PICK j \in 1..Len(r.todo) :
               m = r.todo[j] /\ (j = 1 => ~(Launched(o) /\ r.args.runner = "dsim"))
        BY <1>1 DEF Waiting
      <4>2. m \in Names /\ x.log[m] = NoLog
        BY <2>3, <3>1, <4>1 DEF Waiting
      <4>3. CASE j = 1
        BY <1>3, <4>1, <4>2, <4>3
      <4>4. CASE j # 1
        BY <1>2, <1>3, <2>3, <4>1, <4>2, <4>4
      <4> QED BY <4>3, <4>4
    <3> QED BY <1>1, <1>3, <3>1, <3>2
  <2> QED BY <1>1, <2>2, <2>4, <2>5, <2>6 DEF UserFits
<1>7. RunFits(q, y, left, now)
  <2>1. \E repo \in Repos : y.manifest = {RunManifest(q.args, repo)} /\ GoalFits(q.args, repo)
    BY <1>1, <1>3 DEF RunFits
  <2>2. q.front # "user" => /\ q.args.run_class = "dse" /\ ~q.args.goal
                            /\ \A i \in DOMAIN q.rows : q.rows[i].gate # "PASS"
    BY <1>1 DEF RunFits
  <2>3. \A p \in y.profile : p.run < now
    BY <1>3 DEF RunFits
  <2>4. /\ now # 0 /\ q.dir \in Dirs /\ q.phase \in {"rows", "score", "done"} /\ q.phase # "done"
        /\ y.code = {} /\ y.uses # 0 /\ y.fresh = q.fresh /\ \E S : q.rows \in Seq(S)
    BY <1>1, <1>3 DEF RunFits
  <2> QED BY <1>1, <1>6, <2>1, <2>2, <2>3, <2>4 DEF RunFits
<1>8. IsRun(q)
  BY DEF IsRun
<1> QED BY <1>2, <1>3, <1>5, <1>7, <1>8 DEF Under

\* A row that passes the gate has the status PASS.
LEMMA PassedStatus ==
  ASSUME NEW args, NEW b, NEW n, NEW text, NEW files, NEW base,
         Gate(args, b, n, text, files, base) = "PASS"
  PROVE Status(text) = "PASS"
<1>1. GateReasons(args, b, n, text, files, base) = {}
  <2>1. CASE args.run_class = "debug"
    BY <2>1 DEF Gate
  <2>2. CASE args.run_class = "dse"
    BY <2>2 DEF Gate
  <2>3. CASE args.run_class # "debug" /\ args.run_class # "dse"
    BY <2>3 DEF Gate
  <2> QED BY <2>1, <2>2, <2>3
<1>2. EndpointReasons(b, text, files) = {}
  BY <1>1 DEF GateReasons
<1> QED BY <1>2 DEF EndpointReasons, If

\* What the lines of an outcome are.
LEMMA LinesOf ==
  ASSUME NEW o \in DOMAIN Outcome
  PROVE /\ Outcome[o].lines \in Seq([t : STRING, f : STRING, v : Nat])
        /\ Outcome[o].lines \o <<>> = Outcome[o].lines
        /\ <<>> \o Outcome[o].lines = Outcome[o].lines
        /\ ~Launched(o) => End(Outcome[o].lines) = {}
<1>1. /\ Outcome[o].lines \in Seq([t : STRING, f : STRING, v : Nat])
      /\ ~Launched(o) => End(Outcome[o].lines) = {}
  BY BenchAssumption
<1> PICK s : s = Outcome[o].lines
  OBVIOUS
<1>2. s \o <<>> = s /\ <<>> \o s = s
  BY <1>1
<1> QED BY <1>1, <1>2

\* The gate says the same of a log that was read twice.
Lines == Seq([t : STRING, f : STRING, v : Nat])
Twice(args, n, lines, files, base) ==
    Gate(args, Bench[n], n, lines \o lines, files, base) = Gate(args, Bench[n], n, lines, files, base)

\* A simulator prints what it also writes to its log.
LEMMA GateTwice ==
  ASSUME NEW lines \in Lines, NEW args, NEW n, NEW files, NEW base
  PROVE Twice(args, n, lines, files, base)
BY VerdictTwice DEF Lines, Twice

\* So it does of the log of an outcome.
LEMMA GateOfOutcome ==
  ASSUME NEW o \in DOMAIN Outcome, NEW args, NEW n, NEW files, NEW base
  PROVE Twice(args, n, Outcome[o].lines, files, base)
<1>1. Outcome[o].lines \in Lines
  BY LinesOf DEF Lines
<1> QED BY <1>1, GateTwice

\* An empty log reports no end.
LEMMA NothingEnds == End(<<>>) = {}
<1>1. Of(<<>>, {"pass", "fail", "timeout"}) = {}
  BY DEF Of
<1> QED BY <1>1 DEF End, LastLine

\* The row of a simulation, in a run of a user: where it passes the gate, the
\* summary says no other of the same log.
LEMMA RowAgrees ==
  ASSUME NEW r, r.dir \in Dirs, NEW n \in Names, r.out \in DOMAIN Outcome, runs # 0,
         Launched(r.out) /\ r.args.runner = "dsim" =>
            disk[r.dir].log[n] = [run |-> runs, out |-> r.out],
         DirFits(disk[r.dir], runs), legacy = {} \/ \E l : legacy = {l} /\ IsLog(l),
         Row(r, n).gate = "PASS"
  PROVE SummaryIn(r, Row(r, n), disk[r.dir], legacy) # "NO_PASS"
<1> PICK read : read = LogRead(r, n)
  OBVIOUS
<1> PICK lines : lines = Outcome[r.out].lines
  OBVIOUS
<1> PICK S : S = [t : STRING, f : STRING, v : Nat]
  OBVIOUS
<1>1. lines \in Seq(S) /\ lines \o <<>> = lines /\ <<>> \o lines = lines
  BY LinesOf
<1>2. Status(Text(r, n)) = "PASS"
  <2>1. Row(r, n).gate = Gate(r.args, Bench[n], n, Text(r, n), Provenance(r.out), BaselineRows(r.args))
    BY DEF Row
  <2> QED BY <2>1, PassedStatus
<1>3. ReadIn(r, n, disk[r.dir], legacy) = read
  BY DEF ReadIn, LogRead
<1>4. Row(r, n).name = n /\ Row(r, n).out = r.out
  BY DEF Row
<1>5. SummaryIn(r, Row(r, n), disk[r.dir], legacy)
         = ProfileStatus(Outcome[IF read = NoLog THEN r.out ELSE read.out].lines)
  BY <1>3, <1>4 DEF SummaryIn
<1>6. Text(r, n) = lines \o (IF read = NoLog THEN <<>> ELSE Outcome[read.out].lines)
  BY DEF Text
<1>7. CASE read = NoLog
  <2>1. Status(<<>> \o lines) = "PASS"
    BY <1>1, <1>2, <1>6, <1>7
  <2>2. <<>> \in Seq(S)
    OBVIOUS
  <2>3. ProfileStatus(lines) # "NO_PASS"
    BY <1>1, <2>1, <2>2, NothingEnds, BothParsers
  <2> QED BY <1>5, <1>7, <2>3
<1>8. CASE read # NoLog
  <2>1. r.args.runner = "dsim" /\ IsLog(read)
    BY <1>8 DEF LogRead, DirFits
  <2>2. read.out \in DOMAIN Outcome
    BY <2>1 DEF IsLog
  <2> PICK b : b = Outcome[read.out].lines
    OBVIOUS
  <2>3. b \in Seq(S)
    BY <2>2, LinesOf
  <2>4. lines = b \/ End(lines) = {}
    <3>1. CASE Launched(r.out)
      <4>1. disk[r.dir].log[n] = [run |-> runs, out |-> r.out]
        BY <2>1, <3>1
      <4>2. read.out = r.out
        BY <2>1, <4>1 DEF LogRead
      <4> QED BY <4>2
    <3>2. CASE ~Launched(r.out)
      BY <3>2, LinesOf
    <3> QED BY <3>1, <3>2
  <2>5. Status(lines \o b) = "PASS"
    BY <1>2, <1>6, <1>8
  <2>6. ProfileStatus(b) # "NO_PASS"
    BY <1>1, <2>3, <2>4, <2>5, BothParsers
  <2> QED BY <1>5, <1>8, <2>6
<1> QED BY <1>7, <1>8

\* In a directory of its own, the row is that of its own simulation.
LEMMA RowIsOwn ==
  ASSUME NEW r, r.dir \in Dirs, NEW n \in Names, r.out \in DOMAIN Outcome \cap Possible[n], runs # 0,
         Launched(r.out) /\ r.args.runner = "dsim" =>
            disk[r.dir].log[n] = [run |-> runs, out |-> r.out],
         ~(Launched(r.out) /\ r.args.runner = "dsim") => disk[r.dir].log[n] = NoLog,
         legacy = {}
  PROVE OwnRow(r.args, Row(r, n), runs)
<1> PICK read : read = LogRead(r, n)
  OBVIOUS
<1> PICK lines : lines = Outcome[r.out].lines
  OBVIOUS
<1>1. /\ Row(r, n).name = n /\ Row(r, n).out = r.out /\ Row(r, n).run = runs
      /\ Row(r, n).sim = IF read = NoLog THEN runs ELSE read.run
      /\ Row(r, n).gate = Gate(r.args, Bench[n], n, Text(r, n), Provenance(r.out), BaselineRows(r.args))
  BY DEF Row
<1>2. lines \in Seq([t : STRING, f : STRING, v : Nat]) /\ lines \o <<>> = lines
  BY LinesOf
<1>3. Text(r, n) = lines \o (IF read = NoLog THEN <<>> ELSE Outcome[read.out].lines)
  BY DEF Text
<1>4. \/ read = NoLog
      \/ read.run = runs /\ read.out = r.out /\ read # NoLog
  <2>1. CASE Launched(r.out) /\ r.args.runner = "dsim"
    <3> PICK own : own = [run |-> runs, out |-> r.out]
      OBVIOUS
    <3>1. disk[r.dir].log[n] = own /\ own.run = runs /\ own.out = r.out /\ own # NoLog
      BY <2>1 DEF NoLog
    <3>2. read = own
      BY <2>1, <3>1 DEF LogRead
    <3> QED BY <3>1, <3>2
  <2>2. CASE ~(Launched(r.out) /\ r.args.runner = "dsim")
    <3>1. disk[r.dir].log[n].run = 0
      BY <2>2 DEF NoLog
    <3>2. read = NoLog
      BY <3>1 DEF LogRead
    <3> QED BY <3>2
  <2> QED BY <2>1, <2>2
<1>5. Row(r, n).sim = runs /\ (Text(r, n) = lines \/ Text(r, n) = lines \o lines)
  BY <1>1, <1>2, <1>3, <1>4
<1>6. Row(r, n).gate = Gate(r.args, Bench[n], n, lines, Provenance(r.out), BaselineRows(r.args))
  <2>1. CASE Text(r, n) = lines
    BY <1>1, <2>1
  <2>2. CASE Text(r, n) = lines \o lines
    <3>1. Twice(r.args, n, lines, Provenance(r.out), BaselineRows(r.args))
      BY GateOfOutcome
    <3> QED BY <1>1, <2>2, <3>1 DEF Twice
  <2> QED BY <1>5, <2>1, <2>2
<1> QED BY <1>1, <1>5, <1>6 DEF OwnRow

\* The first benchmark that is to do gets its row.
LEMMA OneDone ==
  ASSUME NEW S, NEW rows \in Seq(S), NEW todo \in Seq(Names), todo # <<>>, NEW all,
         Follows(rows, todo, all), NEW row, row.name = Head(todo)
  PROVE Tail(todo) \in Seq(Names) /\ Follows(Append(rows, row), Tail(todo), all)
<1>1. /\ Len(rows) \in Nat /\ Len(todo) \in Nat \ {0} /\ Head(todo) = todo[1]
      /\ Tail(todo) \in Seq(Names) /\ Len(Tail(todo)) = Len(todo) - 1
      /\ \A i \in 1..(Len(todo) - 1) : Tail(todo)[i] = todo[i + 1]
  OBVIOUS
<1>2. /\ Len(Append(rows, row)) = Len(rows) + 1
      /\ \A i \in 1..(Len(rows) + 1) : Append(rows, row)[i] = IF i = Len(rows) + 1 THEN row ELSE rows[i]
  OBVIOUS
<1>3. \A m \in Nat, k \in Nat \ {0} :
         /\ (m + 1) + (k - 1) = m + k /\ 1 \in 1..k
         /\ \A i \in 1..(m + 1) : i = m + 1 \/ i \in 1..m
         /\ \A i \in 1..(k - 1) : i + 1 \in 1..k /\ m + (i + 1) = (m + 1) + i
  OBVIOUS
<1>4. Len(Append(rows, row)) + Len(Tail(todo)) = Len(all)
  BY <1>1, <1>2, <1>3 DEF Follows
<1>5. \A i \in 1..(Len(rows) + 1) : Append(rows, row)[i].name = all[i]
  BY <1>1, <1>2, <1>3 DEF Follows
<1>6. \A i \in 1..(Len(todo) - 1) : Tail(todo)[i] = all[(Len(rows) + 1) + i]
  BY <1>1, <1>3 DEF Follows
<1> QED BY <1>1, <1>2, <1>4, <1>5, <1>6 DEF Follows

\* The row is added to the results.
ScoredRun(r, row) ==
    [r EXCEPT !.phase = "rows", !.out = "none", !.rows = Append(r.rows, row), !.todo = Tail(r.todo)]
ScoredDir(r, x, row) == [x EXCEPT !.results = Append(r.rows, row)]

\* The row is the next of the selection.
LEMMA ScoredFits ==
  ASSUME NEW r, NEW x, NEW left, NEW now, Under(r, x, left, now), r.phase = "score",
         NEW row, row.name = Head(r.todo), row.run = now,
         r.front # "user" => row.gate # "PASS",
         r.front = "user" /\ row.gate = "PASS" => SummaryIn(r, row, x, left) # "NO_PASS",
         r.front = "user" /\ r.fresh => OwnRow(r.args, row, now)
  PROVE Under(ScoredRun(r, row), ScoredDir(r, x, row), left, now)
<1> PICK n : n = Head(r.todo)
  OBVIOUS
<1> PICK q, y : q = ScoredRun(r, row) /\ y = ScoredDir(r, x, row)
  OBVIOUS
<1>0. /\ q = [r EXCEPT !.phase = "rows", !.out = "none", !.rows = Append(r.rows, row),
                       !.todo = Tail(r.todo)]
      /\ y = [x EXCEPT !.results = Append(r.rows, row)]
      /\ IsRun(r) /\ IsDir(x) /\ DOMAIN x.log = Names /\ now \in Nat
      /\ DirFits(x, now) /\ RunFits(r, x, left, now) /\ row.name = n
  BY DEF ScoredRun, ScoredDir, Under
<1> USE <1>0
<1> PICK rows, todo : rows = Append(r.rows, row) /\ todo = Tail(r.todo)
  OBVIOUS
<1>1. /\ q.front = r.front /\ q.args = r.args /\ q.dir = r.dir /\ q.rows = rows
      /\ q.todo = todo /\ q.phase = "rows" /\ q.fresh = r.fresh
  BY DEF IsRun
<1>2. /\ y.manifest = x.manifest /\ y.results = rows /\ y.profile = x.profile /\ y.log = x.log
      /\ y.uses = x.uses /\ y.fresh = x.fresh /\ y.code = x.code /\ IsDir(y)
  BY DEF IsDir
<1>3. now # 0 /\ x.uses # 0 /\ \E S : r.rows \in Seq(S)
  BY DEF RunFits
<1>4. DirFits(y, now)
  BY <1>2, <1>3 DEF DirFits
<1>5. /\ \E S : rows \in Seq(S)
      /\ Len(r.rows) \in Nat /\ Len(rows) = Len(r.rows) + 1
      /\ \A i \in 1..Len(rows) : rows[i] = IF i = Len(r.rows) + 1 THEN row ELSE r.rows[i]
      /\ \A i \in 1..Len(rows) : i = Len(r.rows) + 1 \/ i \in 1..Len(r.rows)
      /\ DOMAIN rows = 1..Len(rows) /\ DOMAIN r.rows = 1..Len(r.rows)
  <2> PICK S : r.rows \in Seq(S)
    BY <1>3
  <2> PICK T : T = S \union {row}
    OBVIOUS
  <2>1. r.rows \in Seq(T)
    OBVIOUS
  <2>2. rows \in Seq(T)
    BY <2>1
  <2>3. /\ Len(r.rows) \in Nat /\ Len(rows) = Len(r.rows) + 1
        /\ \A i \in 1..Len(rows) : rows[i] = IF i = Len(r.rows) + 1 THEN row ELSE r.rows[i]
        /\ DOMAIN rows = 1..Len(rows) /\ DOMAIN r.rows = 1..Len(r.rows)
    BY <2>1
  <2> QED BY <2>2, <2>3
<1>6. ASSUME r.front = "user" PROVE UserFits(q, y, left, now)
  <2>1. UserFits(r, x, left, now)
    BY <1>6 DEF RunFits
  <2>2. r.args \in Args /\ InOrder(r) /\ Selected(r.args) # <<>> /\ r.todo # <<>> /\ r.todo \in Seq(Names)
    BY <2>1 DEF UserFits, InOrder, Follows
  <2>3. /\ todo \in Seq(Names) /\ Len(todo) \in Nat /\ Len(todo) = Len(r.todo) - 1
        /\ n = r.todo[1] /\ 1 \in 1..Len(r.todo) /\ Len(r.todo) \in Nat
        /\ \A i \in 1..Len(todo) : todo[i] = r.todo[i + 1] /\ i + 1 \in 1..Len(r.todo) /\ i + 1 # 1
    BY <2>2
  <2>4. InOrder(q)
    <3>1. Follows(r.rows, r.todo, Selected(r.args))
      BY <2>2 DEF InOrder
    <3>2. todo \in Seq(Names) /\ Follows(rows, todo, Selected(r.args))
      BY <1>3, <2>2, <3>1, OneDone
    <3> QED BY <1>1, <3>2 DEF InOrder
  <2>5. \A z : SummaryIn(q, z, y, left) = SummaryIn(r, z, x, left)
    BY <1>1, <1>2 DEF SummaryIn, ReadIn
  <2>6. ASSUME NEW i \in DOMAIN rows
        PROVE rows[i].run = now /\ (rows[i].gate = "PASS" => SummaryIn(q, rows[i], y, left) # "NO_PASS")
    <3>1. CASE i = Len(r.rows) + 1
      BY <1>5, <1>6, <2>5, <3>1
    <3>2. CASE i \in 1..Len(r.rows)
      <4>1. rows[i] = r.rows[i] /\ i \in DOMAIN r.rows
        BY <1>5, <3>2
      <4>2. /\ r.rows[i].run = now
            /\ r.rows[i].gate = "PASS" => SummaryIn(r, r.rows[i], x, left) # "NO_PASS"
        BY <2>1, <4>1 DEF UserFits
      <4> QED BY <2>5, <4>1, <4>2
    <3> QED BY <1>5, <3>1, <3>2
  <2>7. ASSUME r.fresh
        PROVE /\ left = {} /\ y.results = q.rows
              /\ \A i \in DOMAIN q.rows : OwnRow(q.args, q.rows[i], now)
              /\ \A m \in Waiting(q) : y.log[m] = NoLog
    <3>1. /\ left = {} /\ \A i \in DOMAIN r.rows : OwnRow(r.args, r.rows[i], now)
          /\ \A m \in Waiting(r) : x.log[m] = NoLog
      BY <2>1, <2>7 DEF UserFits
    <3>2. ASSUME NEW i \in DOMAIN rows PROVE OwnRow(r.args, rows[i], now)
      <4>1. CASE i = Len(r.rows) + 1
        BY <1>5, <1>6, <2>7, <4>1
      <4>2. CASE i \in 1..Len(r.rows)
        BY <1>5, <3>1, <4>2
      <4> QED BY <1>5, <4>1, <4>2
    <3>3. ASSUME NEW m \in Waiting(q) PROVE y.log[m] = NoLog
      <4>1. PICK i \in 1..Len(todo) : m = todo[i]
        BY <1>1, <3>3 DEF Waiting
      <4>2. m = r.todo[i + 1] /\ i + 1 \in 1..Len(r.todo) /\ i + 1 # 1
        BY <2>3, <4>1
      <4>3. m \in Waiting(r)
        BY <4>2 DEF Waiting
      <4> QED BY <1>2, <3>1, <4>3
    <3> QED BY <1>1, <1>2, <3>1, <3>2, <3>3
  <2> QED BY <1>1, <2>2, <2>4, <2>6, <2>7 DEF UserFits
<1>7. RunFits(q, y, left, now)
  <2>1. \E repo \in Repos : y.manifest = {RunManifest(q.args, repo)} /\ GoalFits(q.args, repo)
    BY <1>1, <1>2 DEF RunFits
  <2>2. q.front # "user" => /\ q.args.run_class = "dse" /\ ~q.args.goal
                            /\ \A i \in DOMAIN q.rows : q.rows[i].gate # "PASS"
    BY <1>1, <1>5 DEF RunFits
  <2>3. \A p \in y.profile : p.run < now
    BY <1>2 DEF RunFits
  <2>4. /\ now # 0 /\ q.dir \in Dirs /\ q.phase \in {"rows", "score", "done"} /\ q.phase # "done"
        /\ y.code = {} /\ y.uses # 0 /\ y.fresh = q.fresh /\ \E S : q.rows \in Seq(S)
    BY <1>1, <1>2, <1>5 DEF RunFits
  <2> QED BY <1>1, <1>6, <2>1, <2>2, <2>3, <2>4 DEF RunFits
<1>8. IsRun(q)
  BY DEF IsRun
<1> QED BY <1>2, <1>4, <1>7, <1>8 DEF Under

\* The summary is written, or the old one stays.
SummaryOf(r, x, left, now) ==
    {[name |-> row.name, run |-> now, status |-> SummaryIn(r, row, x, left)] :
        row \in {r.rows[i] : i \in {j \in DOMAIN r.rows :
                    r.args.runner # "dsim" \/ ReadIn(r, r.rows[j].name, x, left) # NoLog}}}

FinishedRun(r) == [r EXCEPT !.phase = "done"]
FinishedDir(r, x, profile) == [x EXCEPT !.results = r.rows, !.profile = profile]

\* The summary says no other of a row than its log does.
LEMMA FinishedFits ==
  ASSUME NEW r, NEW x, NEW left, NEW now, Under(r, x, left, now), r.phase = "rows", r.todo = <<>>,
         NEW profile, profile = x.profile \/ profile = SummaryOf(r, x, left, now)
  PROVE Under(FinishedRun(r), FinishedDir(r, x, profile), left, now)
<1> PICK q, y : q = FinishedRun(r) /\ y = FinishedDir(r, x, profile)
  OBVIOUS
<1>0. /\ q = [r EXCEPT !.phase = "done"]
      /\ y = [x EXCEPT !.results = r.rows, !.profile = profile]
      /\ IsRun(r) /\ IsDir(x) /\ DOMAIN x.log = Names /\ now \in Nat
      /\ DirFits(x, now) /\ RunFits(r, x, left, now)
  BY DEF FinishedRun, FinishedDir, Under
<1> USE <1>0
<1>1. /\ q.front = r.front /\ q.args = r.args /\ q.dir = r.dir /\ q.rows = r.rows
      /\ q.todo = r.todo /\ q.phase = "done" /\ q.fresh = r.fresh
  BY DEF IsRun
<1>2. /\ y.manifest = x.manifest /\ y.results = r.rows /\ y.profile = profile /\ y.log = x.log
      /\ y.uses = x.uses /\ y.fresh = x.fresh /\ y.code = x.code /\ IsDir(y)
  BY DEF IsDir
<1>3. now # 0 /\ x.uses # 0 /\ \E S : r.rows \in Seq(S)
  BY DEF RunFits
<1>4. \A p \in SummaryOf(r, x, left, now) :
         \E j \in DOMAIN r.rows :
            /\ p.name = r.rows[j].name /\ p.run = now
            /\ p.status = SummaryIn(r, r.rows[j], x, left)
  BY DEF SummaryOf
<1>5. DirFits(y, now)
  <2>1. \A p \in profile : p.run \in Nat /\ p.run <= now
    BY <1>4 DEF DirFits
  <2> QED BY <1>2, <1>3, <2>1 DEF DirFits
<1>6. ASSUME r.front = "user" PROVE UserFits(q, y, left, now)
  <2>1. UserFits(r, x, left, now)
    BY <1>6 DEF RunFits
  <2>2. InOrder(q)
    BY <1>1, <2>1 DEF UserFits, InOrder
  <2>3. \A z : SummaryIn(q, z, y, left) = SummaryIn(r, z, x, left)
    BY <1>1, <1>2 DEF SummaryIn, ReadIn
  <2>4. Waiting(q) = {}
    BY <1>1 DEF Waiting
  <2> QED BY <1>1, <1>2, <2>1, <2>2, <2>3, <2>4 DEF UserFits
<1>7. AgreeIn(y)
  <2> SUFFICES ASSUME NEW p \in profile, NEW i \in DOMAIN r.rows,
                      p.name = r.rows[i].name, p.run = r.rows[i].run, r.rows[i].gate = "PASS"
               PROVE p.status # "NO_PASS"
    BY <1>2 DEF AgreeIn
  <2>1. UserFits(r, x, left, now)
    BY DEF RunFits
  <2>2. r.rows[i].run = now /\ SummaryIn(r, r.rows[i], x, left) # "NO_PASS"
    BY <2>1 DEF UserFits
  <2>3. CASE profile = x.profile
    <3>1. p.run \in Nat /\ p.run < now
      BY <2>3 DEF RunFits, DirFits
    <3> QED BY <2>2, <3>1
  <2>4. CASE profile = SummaryOf(r, x, left, now)
    <3>1. PICK j \in DOMAIN r.rows :
             p.name = r.rows[j].name /\ p.status = SummaryIn(r, r.rows[j], x, left)
      BY <1>4, <2>4
    <3>2. i = j
      <4>1. r.args \in Args /\ InOrder(r)
        BY <2>1 DEF UserFits
      <4>2. /\ DOMAIN r.rows = 1..Len(r.rows)
            /\ \A a, b \in 1..Len(r.rows) : r.rows[a].name = r.rows[b].name => a = b
        BY <1>3, <4>1, OtherNames
      <4>3. r.rows[i].name = r.rows[j].name
        BY <3>1
      <4> QED BY <4>2, <4>3
    <3> QED BY <2>2, <3>1, <3>2
  <2> QED BY <2>3, <2>4
<1>8. RunFits(q, y, left, now)
  <2>1. \E repo \in Repos : y.manifest = {RunManifest(q.args, repo)} /\ GoalFits(q.args, repo)
    BY <1>1, <1>2 DEF RunFits
  <2>2. q.front # "user" => /\ q.args.run_class = "dse" /\ ~q.args.goal
                            /\ \A i \in DOMAIN q.rows : q.rows[i].gate # "PASS"
    BY <1>1 DEF RunFits
  <2>3. /\ now # 0 /\ q.dir \in Dirs /\ q.phase \in {"rows", "score", "done"}
        /\ y.code = {} /\ y.uses # 0 /\ y.fresh = q.fresh /\ \E S : q.rows \in Seq(S)
    BY <1>1, <1>2 DEF RunFits
  <2> QED BY <1>1, <1>2, <1>6, <1>7, <2>1, <2>2, <2>3 DEF RunFits
<1>9. IsRun(q)
  BY DEF IsRun
<1> QED BY <1>2, <1>5, <1>8, <1>9 DEF Under

\* Who starts an invocation, with what.
LEMMA CommandIs ==
  ASSUME NEW c \in Commands
  PROVE IF c.front = "user" THEN c.args \in Args ELSE c.args.run_class = "dse" /\ ~c.args.goal
<1>1. \/ \E a \in Args : c = [front |-> "user", args |-> a]
      \/ c = [front |-> "guard", args |-> GuardArgs]
      \/ \E n : c = [front |-> "emit", args |-> GoldenArgs(n, "EMIT_COMMIT_PC_HEX")]
      \/ \E n : c = [front |-> "verify", args |-> GoldenArgs(n, "CHECK_GOLDEN_PCS")]
  BY DEF Commands
<1>2. \A n, option : GoldenArgs(n, option).run_class = "dse" /\ ~GoldenArgs(n, option).goal
  BY DEF GoldenArgs, Plain
<1>3. GuardArgs.run_class = "dse" /\ ~GuardArgs.goal
  BY DEF GuardArgs, Plain
<1> QED BY <1>1, <1>2, <1>3

\* An invocation that is not refused has benchmarks to run, and if it is for
\* the goal it runs all of the goal's.
LEMMA Accepted ==
  ASSUME NEW c \in Commands, NEW repo \in Repos, ~c.args.dry, NEW bs,
         FailCode(c, bs, repo, TRUE, TRUE) = {}
  PROVE GoalFits(c.args, repo) /\ (c.front = "user" => bs # <<>>)
<1> PICK benches, list : benches = {Bench[bs[i]] : i \in DOMAIN bs} /\ list = Manifest[c.args.manifest]
  OBVIOUS
<1>1. Errors(c.args, list, benches, repo) = {} /\ bs # <<>>
  <2> PICK z : z = IF c.front = "guard" THEN 1 ELSE 2
    OBVIOUS
  <2>1. \A u, v, w, t \in BOOLEAN :
           (IF u THEN {z} ELSE IF v THEN {2} ELSE IF w THEN {1} ELSE IF t THEN {2} ELSE {}) = {}
              => ~v /\ ~t
    OBVIOUS
  <2>2. /\ FrontFails(c, TRUE, TRUE) \in BOOLEAN
        /\ (Errors(c.args, list, benches, repo) # {}) \in BOOLEAN
        /\ (c.args.baseline = "absent") \in BOOLEAN /\ (bs = <<>>) \in BOOLEAN
    BY DEF FrontFails
  <2>3. (IF FrontFails(c, TRUE, TRUE) THEN {z}
         ELSE IF Errors(c.args, list, benches, repo) # {} THEN {2}
         ELSE IF c.args.baseline = "absent" THEN {1} ELSE IF bs = <<>> THEN {2} ELSE {}) = {}
    BY Zenon DEF FailCode
  <2> QED BY <2>3
<1>2. ASSUME c.args.goal PROVE GoalFits(c.args, repo)
  <2>1. c.args.run_class = "signoff"
    BY <1>1, <1>2 DEF Errors, If
  <2>2. GoalErrors(c.args, list, repo) = {}
    BY <1>1, <1>2, <2>1 DEF Errors
  <2>3. c.args.manifest = "stage1" /\ repo.contract /\ c.args.bench = {}
        /\ GoalPlusargs \subseteq c.args.plus
    BY <2>2 DEF GoalErrors, If
  <2> QED BY <2>1, <2>3 DEF GoalFits
<1> QED BY <1>1, <1>2 DEF GoalFits

\* An invocation starts.
BegunRun(c, d, fresh) ==
    [front |-> c.front, args |-> c.args, dir |-> d, rows |-> <<>>, todo |-> Selected(c.args),
     out |-> "none", phase |-> "rows", fresh |-> fresh]
BegunDir(c, x, repo, fresh) ==
    [x EXCEPT !.manifest = {RunManifest(c.args, repo)}, !.uses = x.uses + 1, !.fresh = fresh,
              !.code = {}]

\* An invocation that starts has no rows, and an unused directory no logs.
LEMMA BegunFits ==
  ASSUME NEW c \in Commands, NEW repo \in Repos, ~c.args.dry,
         FailCode(c, Selected(c.args), repo, TRUE, TRUE) = {},
         NEW d \in Dirs, NEW x, IsDir(x), DOMAIN x.log = Names, NEW left, NEW now \in Nat,
         DirFits(x, now), NEW fresh, fresh = (x.uses = 0 /\ left = {})
  PROVE Under(BegunRun(c, d, fresh), BegunDir(c, x, repo, fresh), left, now + 1)
<1> PICK q, y : q = BegunRun(c, d, fresh) /\ y = BegunDir(c, x, repo, fresh)
  OBVIOUS
<1>0. /\ q = [front |-> c.front, args |-> c.args, dir |-> d, rows |-> <<>>,
              todo |-> Selected(c.args), out |-> "none", phase |-> "rows", fresh |-> fresh]
      /\ y = [x EXCEPT !.manifest = {RunManifest(c.args, repo)}, !.uses = x.uses + 1,
                       !.fresh = fresh, !.code = {}]
  BY DEF BegunRun, BegunDir
<1> USE <1>0
<1>1. /\ q.front = c.front /\ q.args = c.args /\ q.dir = d /\ q.rows = <<>>
      /\ q.todo = Selected(c.args) /\ q.phase = "rows" /\ q.fresh = fresh /\ IsRun(q)
  BY DEF IsRun
<1>2. /\ y.manifest = {RunManifest(c.args, repo)} /\ y.results = x.results
      /\ y.profile = x.profile /\ y.log = x.log
      /\ y.uses = x.uses + 1 /\ y.fresh = fresh /\ y.code = {} /\ IsDir(y)
  BY DEF IsDir
<1>3. /\ x.uses \in Nat /\ now + 1 \in Nat /\ now + 1 # 0 /\ x.uses + 1 \in Nat /\ x.uses + 1 # 0
      /\ \A p \in x.profile : p.run \in Nat /\ p.run <= now + 1 /\ p.run < now + 1
  BY DEF DirFits
<1>4. DirFits(y, now + 1)
  BY <1>2, <1>3 DEF DirFits
<1>5. ASSUME c.front = "user" PROVE UserFits(q, y, left, now + 1)
  <2>1. c.args \in Args /\ Selected(c.args) # <<>>
    BY <1>5, CommandIs, Accepted
  <2>2. Selected(c.args) \in Seq(Names)
    BY <2>1, SelectedOnce
  <2>3. InOrder(q)
    <3> PICK all : all = Selected(c.args)
      OBVIOUS
    <3>1. /\ Len(<<>>) = 0 /\ Len(all) \in Nat /\ 0 + Len(all) = Len(all)
          /\ \A i \in 1..Len(all) : 0 + i = i
      BY <2>2
    <3>2. \A i \in 1..0 : FALSE
      OBVIOUS
    <3>3. Follows(<<>>, all, all)
      BY <3>1, <3>2 DEF Follows
    <3> QED BY <1>1, <2>2, <3>3 DEF InOrder
  <2>4. DOMAIN q.rows = {}
    BY <1>1
  <2>5. ASSUME fresh PROVE left = {} /\ y.results = q.rows /\ \A n \in Waiting(q) : y.log[n] = NoLog
    <3>1. x = EmptyDir /\ left = {}
      BY <2>5 DEF DirFits
    <3>2. x.results = <<>> /\ \A n \in Names : x.log[n] = NoLog
      BY <3>1 DEF EmptyDir
    <3>3. \A n \in Waiting(q) : n \in Names
      BY <1>1, <2>2 DEF Waiting
    <3> QED BY <1>1, <1>2, <3>1, <3>2, <3>3
  <2> QED BY <1>1, <2>1, <2>3, <2>4, <2>5 DEF UserFits
<1>6. RunFits(q, y, left, now + 1)
  <2>1. \E r \in Repos : y.manifest = {RunManifest(q.args, r)} /\ GoalFits(q.args, r)
    BY <1>1, <1>2, Accepted
  <2>2. q.front # "user" => /\ q.args.run_class = "dse" /\ ~q.args.goal
                            /\ \A i \in DOMAIN q.rows : q.rows[i].gate # "PASS"
    BY <1>1, CommandIs
  <2>3. \E S : q.rows \in Seq(S)
    <3>1. <<>> \in Seq({})
      OBVIOUS
    <3> QED BY <1>1, <3>1
  <2>4. /\ q.dir \in Dirs /\ q.phase \in {"rows", "score", "done"} /\ q.phase # "done"
        /\ y.code = {} /\ y.uses # 0 /\ y.fresh = q.fresh /\ \A p \in y.profile : p.run < now + 1
    BY <1>1, <1>2, <1>3
  <2> QED BY <1>1, <1>3, <1>5, <2>1, <2>2, <2>3, <2>4 DEF RunFits
<1> QED BY <1>1, <1>2, <1>3, <1>4, <1>6 DEF Under

\* The gate has decided each row of a signoff, so the exit code says what the
\* rows of a directory of its own do.
LEMMA CodeTells ==
  ASSUME GateJudges, NEW r, r.front = "user", NEW x, NEW left, NEW now, RunFits(r, x, left, now),
         r.phase = "done", r.args.run_class = "signoff", Code(r) = 0, r.fresh
  PROVE EarnedIn(x, Selected(r.args), r.args, now)
<1>1. UserFits(r, x, left, now) /\ \E S : r.rows \in Seq(S)
  BY DEF RunFits
<1>2. /\ x.results = r.rows /\ \A i \in DOMAIN r.rows : OwnRow(r.args, r.rows[i], now)
      /\ r.args \in Args /\ InOrder(r) /\ r.todo = <<>>
  BY <1>1 DEF UserFits
<1>3. RunCode(r) = 0
  BY DEF Code
<1>4. \A i \in DOMAIN r.rows : r.rows[i].gate = "PASS"
  BY <1>3 DEF RunCode
<1>5. ASSUME NEW i \in DOMAIN r.rows
      PROVE /\ r.rows[i].run = now /\ r.rows[i].sim = now
            /\ r.rows[i].out \in Sound[r.rows[i].name]
            /\ r.args.mech \in MovingClasses => r.rows[i].out \in Faster
  <2>1. OwnRow(r.args, r.rows[i], now) /\ r.rows[i].gate = "PASS"
    BY <1>2, <1>4
  <2> QED BY <1>2, <2>1 DEF OwnRow, GateJudges
<1>6. [k \in DOMAIN r.rows |-> r.rows[k].name] = Selected(r.args)
  BY <1>1, <1>2, NamesOfAll
<1> QED BY <1>2, <1>5, <1>6 DEF EarnedIn

\* The directory of a run that has returned.
ReturnedDir(x, code) == [x EXCEPT !.code = {code}]

\* The exit code and the audit agree.
LEMMA ReturnedFits ==
  ASSUME NEW r, NEW x, NEW left, NEW now, Under(r, x, left, now), r.phase = "done",
         NEW code, r.front = "user" => code = RunCode(r)
  PROVE LET y == ReturnedDir(x, code)
        IN  /\ DirFits(y, now) /\ (GateJudges => EvidenceIn(y)) /\ AgreeIn(y) /\ IsDir(y) /\ DOMAIN y.log = Names
            /\ y.results = x.results
<1> PICK y : y = ReturnedDir(x, code)
  OBVIOUS
<1>0. /\ y = [x EXCEPT !.code = {code}] /\ IsDir(x) /\ DOMAIN x.log = Names
      /\ DirFits(x, now) /\ RunFits(r, x, left, now)
  BY DEF ReturnedDir, Under
<1> USE <1>0
<1>1. /\ y.manifest = x.manifest /\ y.results = x.results /\ y.profile = x.profile /\ y.log = x.log
      /\ y.uses = x.uses /\ y.fresh = x.fresh /\ y.code = {code} /\ IsDir(y)
  BY DEF IsDir
<1>2. x.uses # 0 /\ AgreeIn(x) /\ (GateJudges => EvidenceIn(x)) /\ x.code = {}
  BY EvidenceOfRun DEF RunFits
<1>3. DirFits(y, now) /\ AgreeIn(y) /\ (PassesIn(y) <=> PassesIn(x))
  BY <1>1, <1>2 DEF DirFits, AgreeIn, PassesIn
<1>4. ASSUME x.fresh, NEW m \in x.manifest, m.goal
      PROVE PassesIn(x) <=> code = 0 /\ Len(x.results) = Len(Manifest["stage1"])
  <2>1. PICK repo \in Repos : x.manifest = {RunManifest(r.args, repo)} /\ GoalFits(r.args, repo)
    BY DEF RunFits
  <2>2. m = RunManifest(r.args, repo) /\ r.args.goal
    BY <1>4, <2>1 DEF RunManifest
  <2>3. UserFits(r, x, left, now) /\ r.front = "user" /\ r.fresh /\ \E S : r.rows \in Seq(S)
    BY <1>4, <2>2 DEF RunFits
  <2>4. /\ x.results = r.rows /\ r.args \in Args /\ InOrder(r) /\ r.todo = <<>>
        /\ Selected(r.args) # <<>>
    BY <2>3 DEF UserFits
  <2>5. Selected(r.args) = Manifest["stage1"] /\ r.args.run_class = "signoff"
    BY <2>1, <2>2 DEF GoalFits, Selected
  <2>6. Len(r.rows) = Len(Selected(r.args)) /\ r.rows # <<>>
    BY <2>3, <2>4, NamesOfAll
  <2>7. code = 0 <=> \A i \in DOMAIN r.rows : r.rows[i].gate = "PASS"
    BY <2>3, <2>5 DEF RunCode
  <2>8. /\ m.goal /\ m.run_class = "signoff" /\ m.stage1 /\ m.contract /\ GoalPlusargs \subseteq m.plus
        /\ x.manifest = {m} /\ (CHOOSE z \in x.manifest : TRUE) = m
    BY <2>1, <2>2 DEF GoalFits, RunManifest
  <2>9. PassesIn(x) <=> \A i \in DOMAIN r.rows : r.rows[i].gate = "PASS"
    BY <2>4, <2>6, <2>8 DEF PassesIn
  <2> QED BY <2>4, <2>5, <2>6, <2>7, <2>9
<1>5. ASSUME GateJudges PROVE EvidenceIn(y)
  <2>1. ASSUME x.fresh, PassesIn(x)
        PROVE \A i \in DOMAIN x.results :
                 /\ x.results[i].sim = x.results[1].run
                 /\ x.results[i].out \in Sound[x.results[i].name]
                 /\ x.results[i].name = Manifest["stage1"][i]
    BY <1>2, <1>5, <2>1 DEF EvidenceIn
  <2>2. \A m \in y.manifest, c \in y.code :
           y.fresh /\ m.goal => (PassesIn(y) <=> c = 0 /\ Len(y.results) = Len(Manifest["stage1"]))
    BY <1>1, <1>3, <1>4
  <2> QED BY <1>1, <1>3, <2>1, <2>2 DEF EvidenceIn
<1> QED BY <1>1, <1>3, <1>5

\* Files fit a later invocation too.
LEMMA LaterFits ==
  ASSUME NEW x, NEW now \in Nat, DirFits(x, now)
  PROVE DirFits(x, now + 1)
BY DEF DirFits

\* One directory is changed, and the others stay.
LEMMA OneChanges ==
  ASSUME DiskType, NEW d \in Dirs, NEW y, disk' = [disk EXCEPT ![d] = y], IsDir(y), DOMAIN y.log = Names
  PROVE /\ DiskType' /\ disk'[d] = y /\ \A e \in Dirs : e # d => disk'[e] = disk[e]
<1>1. DOMAIN disk = Dirs
  BY DEF DiskType
<1>2. DOMAIN disk' = Dirs /\ disk'[d] = y /\ \A e \in Dirs : e # d => disk'[e] = disk[e]
  BY <1>1
<1> QED BY <1>2 DEF DiskType

\* A step of an invocation under way.
LEMMA RunGoesOn ==
  ASSUME SignoffInv, NEW r \in run, NEW q, NEW y, Under(q, y, legacy, runs),
         q.dir = r.dir, run' = {q},
         disk' = [disk EXCEPT ![r.dir] = y] \/ (disk' = disk /\ y = disk[r.dir]),
         UNCHANGED <<legacy, last, runs>>
  PROVE SignoffInv'
<1>0. /\ IsRun(q) /\ IsDir(y) /\ DOMAIN y.log = Names
      /\ DirFits(y, runs) /\ RunFits(q, y, legacy, runs)
  BY DEF Under
<1> USE <1>0
<1> PICK d \in Dirs : d = r.dir
  BY DEF SignoffInv, RunFits
<1>1. DiskType' /\ disk'[d] = y /\ \A e \in Dirs : e # d => disk'[e] = disk[e]
  <2>1. DiskType
    BY DEF SignoffInv
  <2>2. CASE disk' = disk /\ y = disk[r.dir]
    BY <2>1, <2>2 DEF DiskType
  <2> QED BY <2>1, <2>2, OneChanges
<1>2. runs' = runs /\ legacy' = legacy /\ runs \in Nat
  BY DEF SignoffInv
<1>3. \A e \in Dirs : DirFits(disk'[e], runs')
  BY <1>1, <1>2 DEF SignoffInv
<1>4. \A z \in run' : RunFits(z, disk'[z.dir], legacy', runs')
  BY <1>1, <1>2
<1>5. y.code = {}
  BY DEF RunFits
<1>6. \A e \in Dirs : disk'[e].code # {} => AgreeIn(disk'[e])
  BY <1>1, <1>5 DEF SignoffInv
<1>7. ASSUME GateJudges PROVE SignoffIsEarned' /\ \A e \in Dirs : EvidenceIn(disk'[e])
  <2>1. EvidenceIn(y)
    BY <1>7, EvidenceOfRun
  <2>2. SignoffIsEarned'
    BY DEF SignoffIsEarned
  <2> QED BY <1>1, <1>7, <2>1, <2>2 DEF SignoffInv
<1> QED BY <1>1, <1>2, <1>3, <1>4, <1>6, <1>7 DEF SignoffInv

\* What is known of the invocation under way.
LEMMA UnderWay ==
  ASSUME SignoffInv, NEW r \in run
  PROVE /\ Under(r, disk[r.dir], legacy, runs) /\ IsRun(r) /\ r.dir \in Dirs /\ runs # 0
        /\ IsDir(disk[r.dir]) /\ DOMAIN disk[r.dir].log = Names /\ DOMAIN disk = Dirs
        /\ legacy = {} \/ \E l : legacy = {l} /\ IsLog(l)
        /\ DirFits(disk[r.dir], runs) /\ RunFits(r, disk[r.dir], legacy, runs)
<1>1. /\ IsRun(r) /\ DiskType /\ runs \in Nat /\ runs # 0
      /\ RunFits(r, disk[r.dir], legacy, runs)
      /\ r.dir \in Dirs /\ (legacy = {} \/ \E l : legacy = {l} /\ IsLog(l))
  BY DEF SignoffInv, RunFits
<1>2. /\ IsDir(disk[r.dir]) /\ DOMAIN disk[r.dir].log = Names /\ DOMAIN disk = Dirs
      /\ DirFits(disk[r.dir], runs)
  BY <1>1 DEF SignoffInv, DiskType
<1> QED BY <1>1, <1>2 DEF Under

\* A simulation is started, or not.
LEMMA SignoffSimulates ==
  ASSUME SignoffInv, NEW r \in run, NEW o \in DOMAIN Outcome, Simulate(r, o)
  PROVE SignoffInv'
<1> PICK x, n : x = disk[r.dir] /\ n = Head(r.todo)
  OBVIOUS
<1>1. /\ Under(r, x, legacy, runs) /\ IsRun(r) /\ r.dir \in Dirs /\ DOMAIN disk = Dirs
      /\ IsDir(x) /\ DOMAIN x.log = Names
  BY UnderWay
<1>2. /\ n \in Names /\ o \in Possible[n] /\ r.phase = "rows" /\ r.todo # <<>>
      /\ UNCHANGED <<legacy, last, runs>> /\ run' = {SimulatedRun(r, o)}
      /\ disk' = IF Launched(o) /\ r.args.runner = "dsim"
                 THEN [disk EXCEPT ![r.dir].log[n] = [run |-> runs, out |-> o]] ELSE disk
  BY BenchAssumption DEF Simulate, SimulatedRun
<1> PICK q, y : q = SimulatedRun(r, o) /\ y = SimulatedDir(r, x, o, runs)
  OBVIOUS
<1>3. Under(q, y, legacy, runs)
  BY <1>1, <1>2, SimulatedFits
<1>4. q.dir = r.dir
  BY <1>1 DEF SimulatedRun, IsRun
<1>5. disk' = [disk EXCEPT ![r.dir] = y] \/ (disk' = disk /\ y = disk[r.dir])
  <2> PICK log : log = [x.log EXCEPT ![n] = [run |-> runs, out |-> o]]
    OBVIOUS
  <2>1. CASE Launched(o) /\ r.args.runner = "dsim"
    <3>1. y = [x EXCEPT !.log = log]
      BY <2>1 DEF SimulatedDir
    <3> QED BY <1>1, <1>2, <2>1, <3>1
  <2>2. CASE ~(Launched(o) /\ r.args.runner = "dsim")
    BY <1>1, <1>2, <2>2 DEF SimulatedDir
  <2> QED BY <2>1, <2>2
<1> QED BY <1>2, <1>3, <1>4, <1>5, RunGoesOn

\* The row is added to the results, with what the logs say.
LEMMA SignoffScores ==
  ASSUME SignoffInv, NEW r \in run, Score(r)
  PROVE SignoffInv'
<1> PICK x, n, row : x = disk[r.dir] /\ n = Head(r.todo) /\ row = Row(r, n)
  OBVIOUS
<1>1. /\ Under(r, x, legacy, runs) /\ IsRun(r) /\ r.dir \in Dirs /\ DOMAIN disk = Dirs /\ runs # 0
      /\ IsDir(x) /\ DOMAIN x.log = Names /\ DirFits(x, runs) /\ RunFits(r, x, legacy, runs)
      /\ (legacy = {} \/ \E l : legacy = {l} /\ IsLog(l))
  BY UnderWay
<1> PICK q, y : q = ScoredRun(r, row) /\ y = ScoredDir(r, x, row)
  OBVIOUS
<1>2. /\ UNCHANGED <<legacy, last, runs>> /\ r.phase = "score"
      /\ disk' = [disk EXCEPT ![r.dir].results = Append(r.rows, row)]
  BY DEF Score
<1>3. run' = {q}
  BY Zenon DEF Score, ScoredRun
<1>4. q.dir = r.dir
  BY <1>1 DEF ScoredRun, IsRun
<1>5. disk' = [disk EXCEPT ![r.dir] = y]
  BY <1>1, <1>2 DEF ScoredDir
<1>6. row.name = n /\ row.run = runs
  BY DEF Row
<1>7. ASSUME r.front # "user" PROVE row.gate # "PASS"
  <2>1. r.args.run_class = "dse"
    BY <1>1, <1>7 DEF RunFits
  <2>2. row.gate = Gate(r.args, Bench[n], n, Text(r, n), Provenance(r.out), BaselineRows(r.args))
    BY DEF Row
  <2> QED BY <2>1, <2>2 DEF Gate
<1>8. ASSUME r.front = "user"
      PROVE /\ row.gate = "PASS" => SummaryIn(r, row, x, legacy) # "NO_PASS"
            /\ r.fresh => OwnRow(r.args, row, runs)
  <2>1. UserFits(r, x, legacy, runs)
    BY <1>1, <1>8 DEF RunFits
  <2>2. /\ r.todo # <<>> /\ r.todo \in Seq(Names) /\ r.out \in DOMAIN Outcome \cap Possible[n]
        /\ Launched(r.out) /\ r.args.runner = "dsim" => x.log[n] = [run |-> runs, out |-> r.out]
    BY <1>2, <2>1 DEF UserFits, InOrder
  <2>3. n \in Names /\ 1 \in 1..Len(r.todo) /\ n = r.todo[1]
    BY <2>2
  <2>4. row.gate = "PASS" => SummaryIn(r, row, x, legacy) # "NO_PASS"
    BY <1>1, <2>2, <2>3, RowAgrees
  <2>5. ASSUME r.fresh PROVE OwnRow(r.args, row, runs)
    <3>1. legacy = {} /\ \A m \in Waiting(r) : x.log[m] = NoLog
      BY <2>1, <2>5 DEF UserFits
    <3>2. ~(Launched(r.out) /\ r.args.runner = "dsim") => n \in Waiting(r)
      BY <2>3 DEF Waiting
    <3> QED BY <1>1, <2>2, <2>3, <3>1, <3>2, RowIsOwn
  <2> QED BY <2>4, <2>5
<1>9. Under(q, y, legacy, runs)
  BY <1>1, <1>2, <1>6, <1>7, <1>8, ScoredFits
<1> QED BY <1>2, <1>3, <1>4, <1>5, <1>9, RunGoesOn

\* The last results are written, with the summary.
LEMMA SignoffFinishes ==
  ASSUME SignoffInv, NEW r \in run, Finish(r)
  PROVE SignoffInv'
<1> PICK x : x = disk[r.dir]
  OBVIOUS
<1>1. /\ Under(r, x, legacy, runs) /\ IsRun(r) /\ r.dir \in Dirs /\ DOMAIN disk = Dirs
      /\ IsDir(x)
  BY UnderWay
<1> PICK profile : profile = IF r.args.no_summary \/ Profile(r) = {} THEN x.profile ELSE Profile(r)
  OBVIOUS
<1> PICK q, y : q = FinishedRun(r) /\ y = FinishedDir(r, x, profile)
  OBVIOUS
<1>2. /\ run' = {q} /\ UNCHANGED <<legacy, last, runs>> /\ r.phase = "rows" /\ r.todo = <<>>
      /\ disk' = [disk EXCEPT ![r.dir].results = r.rows,
                              ![r.dir].profile = IF r.args.no_summary \/ Profile(r) = {}
                                                  THEN @ ELSE Profile(r)]
  BY DEF Finish, FinishedRun
<1>3. q.dir = r.dir
  BY <1>1 DEF FinishedRun, IsRun
<1>4. disk' = [disk EXCEPT ![r.dir] = y]
  <2>1. disk' = [disk EXCEPT ![r.dir].results = r.rows, ![r.dir].profile = profile]
    BY <1>1, <1>2
  <2> QED BY <1>1, <2>1 DEF FinishedDir
<1>5. profile = x.profile \/ profile = SummaryOf(r, x, legacy, runs)
  <2>1. Profile(r) = SummaryOf(r, x, legacy, runs)
    BY DEF Profile, SummaryOf, SummaryIn, ReadIn, LogRead
  <2> QED BY <2>1
<1>6. Under(q, y, legacy, runs)
  BY <1>1, <1>2, <1>5, FinishedFits
<1> QED BY <1>2, <1>3, <1>4, <1>6, RunGoesOn

\* An invocation starts.
LEMMA SignoffBegins ==
  ASSUME SignoffInv, NEW c \in Commands, NEW d \in Dirs, NEW repo \in Repos,
         Begin(c, d, repo)
  PROVE SignoffInv'
<1> PICK x, fresh : x = disk[d] /\ fresh = (x.uses = 0 /\ legacy = {})
  OBVIOUS
<1> PICK q, y : q = BegunRun(c, d, fresh) /\ y = BegunDir(c, x, repo, fresh)
  OBVIOUS
<1>1. /\ IsDir(x) /\ DOMAIN x.log = Names /\ DirFits(x, runs) /\ DiskType /\ DOMAIN disk = Dirs
      /\ runs \in Nat
  BY DEF SignoffInv, DiskType
<1>2. Unused(d) = fresh
  BY DEF Unused
<1>3. /\ runs' = runs + 1 /\ last' = NoExit /\ legacy' = legacy /\ ~c.args.dry
      /\ FailCode(c, Selected(c.args), repo, TRUE, TRUE) = {}
  BY DEF Begin
<1>4. run' = {q}
  BY <1>2 DEF Begin, BegunRun
<1>5. disk' = [disk EXCEPT ![d] = y]
  <2>1. disk' = [disk EXCEPT ![d].manifest = {RunManifest(c.args, repo)}, ![d].uses = @ + 1,
                             ![d].fresh = Unused(d), ![d].code = {}]
    BY DEF Begin
  <2>2. disk' = [disk EXCEPT ![d].manifest = {RunManifest(c.args, repo)}, ![d].uses = @ + 1,
                             ![d].fresh = fresh, ![d].code = {}]
    BY <1>2, <2>1
  <2> QED BY <1>1, <2>2 DEF BegunDir
<1>6. Under(q, y, legacy, runs + 1)
  BY <1>1, <1>3, BegunFits
<1>7. /\ IsRun(q) /\ IsDir(y) /\ DOMAIN y.log = Names /\ DirFits(y, runs + 1)
      /\ RunFits(q, y, legacy, runs + 1) /\ runs + 1 \in Nat
  BY <1>6 DEF Under
<1>8. q.dir = d
  BY DEF BegunRun
<1>9. DiskType' /\ disk'[d] = y /\ \A e \in Dirs : e # d => disk'[e] = disk[e]
  BY <1>1, <1>5, <1>7, OneChanges
<1>10. \A e \in Dirs : DirFits(disk'[e], runs')
  <2>1. \A e \in Dirs : DirFits(disk[e], runs + 1)
    BY LaterFits DEF SignoffInv
  <2> QED BY <1>3, <1>7, <1>9, <2>1
<1>11. \A e \in Dirs : disk'[e].code # {} => AgreeIn(disk'[e])
  <2>1. y.code = {}
    BY <1>7 DEF RunFits
  <2> QED BY <1>9, <2>1 DEF SignoffInv
<1>12. ASSUME GateJudges PROVE \A e \in Dirs : EvidenceIn(disk'[e])
  <2>1. EvidenceIn(y)
    BY <1>7, <1>12, EvidenceOfRun
  <2> QED BY <1>9, <1>12, <2>1 DEF SignoffInv
<1>13. \A z \in run' : RunFits(z, disk'[z.dir], legacy', runs')
  BY <1>3, <1>4, <1>7, <1>8, <1>9
<1>14. legacy' = {} \/ \E l : legacy' = {l} /\ IsLog(l)
  BY <1>3 DEF SignoffInv
<1>15. SignoffIsEarned'
  BY <1>4 DEF SignoffIsEarned
<1> QED BY <1>3, <1>4, <1>7, <1>9, <1>10, <1>11, <1>12, <1>13, <1>14, <1>15 DEF SignoffInv

\* An invocation that fails, or that a program of its own started, has no score.
LEMMA FailedSignoffs ==
  ASSUME NEW c, NEW d, NEW code, NEW fresh, Exit(c, d, code, fresh), code # 0 \/ d = {} \/ c.front # "user"
  PROVE SignoffIsEarned'
<1>1. code # 0 => last' = [NoExit EXCEPT !.code = code]
  BY DEF Exit
<1>2. code # 0 => last'.dir = {}
  BY <1>1 DEF NoExit
<1>3. code = 0 => last'.dir = d /\ last'.front = c.front
  BY DEF Exit
<1> QED BY <1>2, <1>3 DEF SignoffIsEarned, Scored

\* The exit code is known.
LEMMA SignoffReturns ==
  ASSUME SignoffInv, NEW r \in run, Return(r)
  PROVE SignoffInv'
<1> PICK d, x, code : d = r.dir /\ x = disk[d] /\ code = Code(r)
  OBVIOUS
<1> PICK y : y = ReturnedDir(x, code)
  OBVIOUS
<1>1. /\ Under(r, x, legacy, runs) /\ d \in Dirs /\ DOMAIN disk = Dirs /\ DiskType /\ runs \in Nat
      /\ RunFits(r, x, legacy, runs)
  BY UnderWay DEF SignoffInv
<1>2. /\ Exit(r, {d}, code, r.fresh) /\ run' = {} /\ UNCHANGED <<legacy, golden, runs>>
      /\ r.phase = "done" /\ disk' = [disk EXCEPT ![d].code = {code}]
  BY DEF Return
<1>3. disk' = [disk EXCEPT ![d] = y]
  BY <1>1, <1>2 DEF ReturnedDir
<1>4. r.front = "user" => code = RunCode(r)
  BY DEF Code
<1>5. /\ DirFits(y, runs) /\ (GateJudges => EvidenceIn(y)) /\ AgreeIn(y) /\ IsDir(y) /\ DOMAIN y.log = Names
      /\ y.results = x.results
  BY <1>1, <1>2, <1>4, ReturnedFits
<1>6. DiskType' /\ disk'[d] = y /\ \A e \in Dirs : e # d => disk'[e] = disk[e]
  BY <1>1, <1>3, <1>5, OneChanges
<1>7. \A e \in Dirs : /\ DirFits(disk'[e], runs') /\ (GateJudges => EvidenceIn(disk'[e]))
                      /\ (disk'[e].code # {} => AgreeIn(disk'[e]))
  BY <1>2, <1>5, <1>6 DEF SignoffInv
<1>8. ASSUME GateJudges PROVE SignoffIsEarned'
  <2>1. CASE r.front = "user" /\ code = 0 /\ r.fresh /\ r.args.run_class = "signoff"
    <3>1. EarnedIn(x, Selected(r.args), r.args, runs)
      BY <1>1, <1>2, <1>8, <2>1, CodeTells
    <3>2. last'.args = {r.args} /\ last'.dir = {d} /\ last'.run = runs
      BY <1>2, <2>1 DEF Exit
    <3>3. disk'[d].results = x.results
      BY <1>5, <1>6
    <3>4. ASSUME NEW args \in last'.args, NEW e \in last'.dir
          PROVE Earned(e, Selected(args), args, last.run)'
      BY <3>1, <3>2, <3>3, <3>4 DEF Earned, EarnedIn
    <3> QED BY <3>4 DEF SignoffIsEarned
  <2>2. CASE r.front = "user" /\ code = 0 /\ ~(r.fresh /\ r.args.run_class = "signoff")
    <3>1. last'.args = {r.args} /\ last'.fresh = r.fresh
      BY <1>2, <2>2 DEF Exit
    <3> QED BY <2>2, <3>1 DEF SignoffIsEarned, Scored
  <2>3. CASE ~(r.front = "user" /\ code = 0)
    BY <1>2, <2>3, FailedSignoffs
  <2> QED BY <2>1, <2>2, <2>3
<1>9. runs' = runs /\ legacy' = legacy
  BY <1>2
<1> QED BY <1>1, <1>2, <1>6, <1>7, <1>8, <1>9 DEF SignoffInv

\* Each step of the runner and of the programs around it.
LEMMA SignoffStep ==
  ASSUME SignoffInv, BenchNext PROVE SignoffInv'
<1>0. ASSUME UNCHANGED disk, run' = {}, runs' = runs \/ runs' = runs + 1,
             legacy' = legacy \/ \E l : legacy' = {l} /\ IsLog(l), SignoffIsEarned'
      PROVE SignoffInv'
  <2>1. runs \in Nat /\ runs' \in Nat
    BY <1>0 DEF SignoffInv
  <2>2. \A d \in Dirs : DirFits(disk'[d], runs')
    BY <1>0, LaterFits DEF SignoffInv
  <2>3. DiskType'
    BY <1>0 DEF SignoffInv, DiskType
  <2>4. legacy' = {} \/ \E l : legacy' = {l} /\ IsLog(l)
    BY <1>0 DEF SignoffInv
  <2>5. /\ \A d \in Dirs : disk'[d].code # {} => AgreeIn(disk'[d])
        /\ GateJudges => \A d \in Dirs : EvidenceIn(disk'[d])
    BY <1>0 DEF SignoffInv
  <2> QED BY <1>0, <2>1, <2>2, <2>3, <2>4, <2>5 DEF SignoffInv
<1>1. ASSUME NEW c \in Commands, NEW repo \in Repos, NEW built \in BOOLEAN, NEW force \in BOOLEAN,
             Refuse(c, repo, built, force)
      PROVE SignoffInv'
  <2>1. PICK code : Exit(c, {}, code, FALSE)
    BY <1>1 DEF Refuse
  <2>2. SignoffIsEarned'
    BY <2>1, FailedSignoffs
  <2> QED BY <1>0, <1>1, <2>2 DEF Refuse
<1>2. ASSUME NEW c \in Commands, NEW repo \in Repos, DryRun(c, repo) PROVE SignoffInv'
  <2>1. PICK code : Exit(c, {}, code, FALSE)
    BY <1>2 DEF DryRun
  <2>2. SignoffIsEarned'
    BY <2>1, FailedSignoffs
  <2> QED BY <1>0, <1>2, <2>2 DEF DryRun
<1>3. ASSUME NEW r \in run, Stop(r) PROVE SignoffInv'
  <2>1. Exit(r, {r.dir}, 130, r.fresh) /\ 130 # 0
    BY <1>3 DEF Stop
  <2>2. SignoffIsEarned'
    BY <2>1, FailedSignoffs
  <2> QED BY <1>0, <1>3, <2>2 DEF Stop
<1>4. ASSUME NEW d \in Dirs, Evaluate(d) PROVE SignoffInv'
  <2> PICK c : c = [front |-> "evaluate", args |-> GuardArgs]
    OBVIOUS
  <2>1. Exit(c, {d}, GuardCode(disk[d].results), FALSE) /\ c.front # "user"
    BY <1>4 DEF Evaluate
  <2>2. SignoffIsEarned'
    BY <2>1, FailedSignoffs
  <2> QED BY <1>0, <1>4, <2>2 DEF Evaluate
<1>5. ASSUME NEW o \in DOMAIN Outcome, RunByHand(o) PROVE SignoffInv'
  <2>1. SignoffIsEarned'
    BY <1>5 DEF RunByHand, SignoffIsEarned, NoExit
  <2>2. \E l : legacy' = {l} /\ IsLog(l)
    <3> PICK l : l = [run |-> runs + 1, out |-> o]
      OBVIOUS
    <3>1. legacy' = {l}
      BY <1>5 DEF RunByHand
    <3>2. runs + 1 \in Nat \ {0}
      BY DEF SignoffInv
    <3>3. IsLog(l)
      BY <3>2 DEF IsLog
    <3> QED BY <3>1, <3>3
  <2> QED BY <1>0, <1>5, <2>1, <2>2 DEF RunByHand
<1> QED BY <1>1, <1>2, <1>3, <1>4, <1>5, SignoffBegins, SignoffSimulates, SignoffScores,
           SignoffFinishes, SignoffReturns DEF BenchNext

\* The invariant holds from the start.
LEMMA SignoffInvariant == BenchSpec => []SignoffInv
<1>1. BenchInit => SignoffInv
  <2> SUFFICES ASSUME BenchInit PROVE SignoffInv
    OBVIOUS
  <2>1. /\ run = {} /\ last = NoExit /\ runs = 0 /\ legacy = {} /\ DOMAIN disk = Dirs
        /\ \A d \in Dirs : disk[d] = EmptyDir
    BY DEF BenchInit
  <2>2. DiskType
    BY <2>1 DEF DiskType, IsDir, EmptyDir
  <2>3. DirFits(EmptyDir, 0) /\ EvidenceIn(EmptyDir) /\ EmptyDir.code = {}
    BY DEF DirFits, EvidenceIn, EmptyDir
  <2>4. SignoffIsEarned
    BY <2>1 DEF SignoffIsEarned, NoExit
  <2> QED BY <2>1, <2>2, <2>3, <2>4 DEF SignoffInv
<1>2. SignoffInv /\ [BenchNext]_benchVars => SignoffInv'
  <2>1. ASSUME SignoffInv, UNCHANGED benchVars PROVE SignoffInv'
    <3>1. UNCHANGED <<disk, legacy, run, last, runs>>
      BY <2>1 DEF benchVars
    <3>2. DiskType' /\ (SignoffIsEarned => SignoffIsEarned')
      BY <2>1, <3>1 DEF SignoffInv, DiskType, SignoffIsEarned, Earned
    <3> QED BY <2>1, <3>1, <3>2 DEF SignoffInv
  <2> QED BY <2>1, SignoffStep
<1> QED BY <1>1, <1>2, PTL DEF BenchSpec

\* A signoff of run_benchmarks.py that succeeds in a directory of its own has
\* simulated every benchmark it was asked for, and each was right, where the gate
\* passes nothing else: a row can only speak of its own simulation, for there is
\* no log that another one has left, and one that was not started does not pass.
THEOREM SignoffsAreEarned ==
  ASSUME GateJudges PROVE BenchSpec => []SignoffIsEarned
<1>1. SignoffInv => SignoffIsEarned
  BY DEF SignoffInv
<1> QED BY <1>1, SignoffInvariant, PTL

\* What audit_goal_runs.py takes for evidence of the goal is a run of all of the
\* goal's benchmarks, each simulated and right: no command line for the goal
\* selects fewer, and the audit agrees with the exit code.
THEOREM EvidenceIsEarned ==
  ASSUME GateJudges PROVE BenchSpec => []GoalEvidence
<1>1. ASSUME \A d \in Dirs : EvidenceIn(disk[d]) PROVE GoalEvidence
  <2> SUFFICES ASSUME NEW d \in Dirs, disk[d].fresh, disk[d].code \subseteq {0, 1}
               PROVE LET rows == disk[d].results
                         pass == Audit(d) = "GOAL_PASS"
                     IN  /\ pass => \A i \in DOMAIN rows :
                                       /\ rows[i].sim = rows[1].run /\ rows[i].out \in Sound[rows[i].name]
                                       /\ rows[i].name = Manifest["stage1"][i]
                         /\ \A m \in disk[d].manifest, c \in disk[d].code :
                               m.goal => (pass <=> c = 0 /\ Len(rows) = Len(Manifest["stage1"]))
    BY DEF GoalEvidence
  <2>1. Audit(d) = "GOAL_PASS" <=> PassesIn(disk[d])
    BY DEF Audit, PassesIn
  <2> QED BY <1>1, <2>1 DEF EvidenceIn
<1>2. SignoffInv => GoalEvidence
  BY <1>1 DEF SignoffInv
<1> QED BY <1>2, SignoffInvariant, PTL

\* The summary beside the results of the same run never takes back a row that
\* passed the gate: summarize_perf_profile.py reads the log that the runner read
\* last, and both find the same last end in it.
THEOREM SummariesAgree == BenchSpec => []ParsersAgree
<1>1. SignoffInv => ParsersAgree
  BY DEF SignoffInv, ParsersAgree, AgreeIn
<1> QED BY <1>1, SignoffInvariant, PTL
=============================================================================
