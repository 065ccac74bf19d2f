----------------------------- MODULE LinuxBoot -----------------------------
(***************************************************************************)
(* tools/run_linux_boot.py: it builds a simulator and a boot image if it   *)
(* is asked to, runs the simulator, reads the two logs it leaves, and says *)
(* in summary.json whether the machine reached the milestone.              *)
(*                                                                         *)
(* Options and the environment say which files the builds write, which one *)
(* is looked for, and which ones the run uses: they need not be the same.  *)
(* Several invocations share the files: simulators and images that others  *)
(* have built, and a UART log that only the simulator opens.  Any of them  *)
(* may be interrupted.                                                     *)
(***************************************************************************)
EXTENDS Naturals, Sequences

CONSTANTS BootFiles,   \* paths
          BootArgs,    \* command lines, with the paths they and the environment name
          BootOutcome, \* how a simulation may end, by name
          MaxBoots     \* bound on the invocations

Simulators == {"dsim", "verilator"}
Failures == {"bad", "no_commit"}   \* a failure pattern, the marker of a hang

\* The build scripts write made and output; probe is looked for, and exec and image
\* are run; the simulator writes console, and log is read.  A script that cannot
\* start its simulator does not return 0.
ASSUME BootAssumption ==
    /\ \A args \in BootArgs :
          /\ args.simulator \in Simulators \union {"auto"}
          /\ {args.output, args.image, args.console, args.log} \subseteq BootFiles
          /\ {args.made, args.probe, args.exec} \subseteq [Simulators -> BootFiles]
    /\ \A o \in DOMAIN BootOutcome : BootOutcome[o].starts \/ BootOutcome[o].rc # 0

VARIABLES binary,  \* path -> the simulator there: {} or the invocation that built it
          image,   \* path -> the boot image there: {} or the invocation that built it
          uart,    \* path -> the UART log there: {} or [boot, out]
          summary, \* summary.json: {} or [boot, status]
          boot,    \* the invocation under way: {} or one record
          booted,  \* history: the last invocation that ended by itself
          boots    \* invocations so far

bootVars == <<binary, image, uart, summary, boot, booted, boots>>

NotBooted == [code |-> 1, args |-> {}, out |-> "none", sim |-> "none", boot |-> 0]

BootInit ==
    /\ binary \in [BootFiles -> {{}, {0}}] /\ image \in [BootFiles -> {{}, {0}}]
    /\ uart = [f \in BootFiles |-> {}] /\ summary = {}
    /\ boot = {} /\ booted = NotBooted /\ boots = 0

-----------------------------------------------------------------------------
\* classify_log, over the text of the UART log and of the simulator's log.
\* A milestone counts only if the UART says so; a failure, a hang or the pass
\* pattern counts in either.

Uart(log) == IF log = {} THEN [reached |-> {}, said |-> {}]
             ELSE LET l == CHOOSE x \in log : TRUE
                  IN  [reached |-> BootOutcome[l.out].reached, said |-> BootOutcome[l.out].said]

Reached(args, log) == args.target \in Uart(log).reached

\* The last commit was too long before the end of a run that timed out.
StaleCommit(args, o) == args.stale_limit # 0 /\ \E k \in BootOutcome[o].idle : k > args.stale_limit

Classify(args, log, o) ==
    LET combined == Uart(log).said \union BootOutcome[o].printed
    IN  IF combined \cap Failures # {} \/ StaleCommit(args, o) THEN "FAIL"
        ELSE IF args.pattern \cap combined # {} \/ Reached(args, log) THEN "PASS"
        ELSE IF "timeout" \in combined THEN "TIMEOUT" ELSE "INCOMPLETE"

StatusOfLogs(args, log, o) == Classify(args, log, o)

\* The simulator's exit code can only make it worse.
BootStatus(args, log, o) ==
    IF BootOutcome[o].rc # 0 /\ Classify(args, log, o) # "FAIL" THEN "FAIL"
    ELSE Classify(args, log, o)

-----------------------------------------------------------------------------
\* no summary for a run that was not simulated
LeaveBootAfterRun(b, status, code, o) ==
    /\ summary' = IF o = "none" THEN summary ELSE {[boot |-> boots, status |-> status]}
    /\ booted' = [code |-> code, args |-> {b.args}, out |-> o, sim |-> b.sim, boot |-> boots]
    /\ boot' = {}

\* Every way out writes the summary before the exit code.
LeaveBoot(b, status, code, o) ==
    /\ summary' = {[boot |-> boots, status |-> status]}
    /\ booted' = [code |-> code, args |-> {b.args}, out |-> o, sim |-> b.sim, boot |-> boots]
    /\ boot' = {}

Found(args, s) == binary[args.probe[s]] # {}

\* Without --build-sim, auto takes the simulator that is there, DSim first.
Chosen(args) ==
    IF args.simulator # "auto" THEN args.simulator
    ELSE IF ~Found(args, "dsim") /\ Found(args, "verilator") THEN "verilator" ELSE "dsim"

StartBoot(args) ==
    /\ boot = {} /\ boots < MaxBoots /\ boots' = boots + 1
    /\ boot' = {[args |-> args, phase |-> IF args.build_sim THEN "sim" ELSE "image",
                 sim |-> IF args.build_sim /\ args.simulator = "auto" THEN "dsim"
                         ELSE Chosen(args)]}
    /\ booted' = NotBooted
    /\ UNCHANGED <<binary, image, uart, summary>>

\* Only a DSim that has no licence is followed by Verilator, and only if the
\* choice was left open.  A build that fails may leave the old binary.  The scripts
\* know nothing of --sim-image, --sim-work-dir and --verilator-bin.
BuildSim(b) ==
    /\ b.phase = "sim"
    /\ \/ /\ binary' = [binary EXCEPT ![b.args.made[b.sim]] = {boots}]
          /\ boot' = {[b EXCEPT !.phase = "image"]}
          /\ UNCHANGED <<summary, booted>>
       \/ \E licence \in BOOLEAN :
          /\ binary' \in {binary, [binary EXCEPT ![b.args.made[b.sim]] = {}]}
          /\ IF b.args.simulator = "auto" /\ b.sim = "dsim" /\ licence
             THEN boot' = {[b EXCEPT !.sim = "verilator"]} /\ UNCHANGED <<summary, booted>>
             ELSE LeaveBoot(b, "FAIL", 1, "none")
    /\ UNCHANGED <<image, uart, boots>>

\* The script puts the image in OUT_DIR or the directory of its profile, where
\* --image and the default for the mode need not look.
BuildImage(b) ==
    /\ b.phase = "image" /\ b.args.build
    /\ \/ /\ image' = [image EXCEPT ![b.args.output] = {boots}]
          /\ boot' = {[b EXCEPT !.phase = "run"]}
          /\ UNCHANGED <<summary, booted>>
       \/ /\ image' \in {image, [image EXCEPT ![b.args.output] = {}]}
          /\ LeaveBoot(b, "FAIL", 1, "none")
    /\ UNCHANGED <<binary, uart, boots>>

SkipImage(b) ==
    /\ b.phase = "image" /\ ~b.args.build
    /\ boot' = {[b EXCEPT !.phase = "run"]}
    /\ UNCHANGED <<binary, image, uart, summary, booted, boots>>

\* The image is the one that is loaded; the simulator that is looked for is that
\* of --sim-image or --verilator-bin.
Ready(b) == image[b.args.image] # {} /\ Found(b.args, b.sim)

\* Not asked to run, or not able to.
NoRun(b) ==
    /\ b.phase = "run"
    /\ \/ /\ ~b.args.run
          /\ LeaveBoot(b, IF b.args.build \/ b.args.build_sim THEN "BUILT" ELSE "NOOP", 0, "none")
       \/ /\ b.args.run /\ ~Ready(b)
          /\ LeaveBoot(b, IF image[b.args.image] = {} THEN "FAIL" ELSE "BLOCKED", 2, "none")
    /\ UNCHANGED <<binary, image, uart, boots>>

\* The simulator that is started, that of --sim-work-dir and --sim-image-name or of
\* VERILATOR_LINUX_BIN, need not be there.
Starts(b, o) == BootOutcome[o].starts /\ binary[b.args.exec[b.sim]] # {}

Log(b, o) == [uart EXCEPT ![b.args.console] = {[boot |-> boots, out |-> o]}]

\* A simulation that does not start leaves the UART log of an earlier one; the
\* simulator's own log is always a new file.  The simulator runs in the root of
\* the repository, where a relative --uart-log need not be the file that is read.
RunBoot(b, o) ==
    /\ b.phase = "run" /\ b.args.run /\ Ready(b)
    /\ BootOutcome[o].starts => Starts(b, o)
    /\ uart' = IF Starts(b, o) THEN Log(b, o) ELSE uart
    /\ LET status == BootStatus(b.args, uart'[b.args.log], o)
       IN  LeaveBoot(b, status, IF status = "PASS" THEN 0 ELSE 1, o)
    /\ UNCHANGED <<binary, image, boots>>

\* Stopped before the summary: that of an earlier invocation stays.
InterruptBoot(b, o) ==
    /\ uart' = IF b.phase = "run" /\ b.args.run /\ Ready(b) /\ Starts(b, o)
               THEN Log(b, o) ELSE uart
    /\ boot' = {}
    /\ UNCHANGED <<binary, image, summary, booted, boots>>

BootNext ==
    \/ \E args \in BootArgs : StartBoot(args)
    \/ \E b \in boot :
          \/ BuildSim(b) \/ BuildImage(b) \/ SkipImage(b) \/ NoRun(b)
          \/ \E o \in DOMAIN BootOutcome : RunBoot(b, o) \/ InterruptBoot(b, o)

BootSpec == BootInit /\ [][BootNext]_bootVars

-----------------------------------------------------------------------------
\* A boot that succeeds is one of this invocation: a simulator and an image that
\* are there, a simulation that was started and returned 0 without a failure or a
\* hang, and, if the log that is read is the one it writes, a console that reached
\* the milestone or printed the pattern.  The simulator and the image are those
\* built just before, if they were asked for and the builds write the files that
\* the run uses.
BootIsEarned ==
    \A args \in booted.args :
        args.run /\ booted.code = 0 =>
            LET o   == BootOutcome[booted.out]
                sim == args.exec[booted.sim]
            IN  /\ o.starts /\ o.rc = 0 /\ o.printed \cap Failures = {}
                /\ ~StaleCommit(args, booted.out)
                /\ binary[sim] # {} /\ image[args.image] # {}
                /\ args.log = args.console =>
                      /\ uart[args.log] = {[boot |-> booted.boot, out |-> booted.out]}
                      /\ \/ args.target \in o.reached
                         \/ args.pattern \cap (o.said \union o.printed) # {}
                      /\ o.said \cap Failures = {}
                /\ args.build_sim /\ args.made[booted.sim] = sim => binary[sim] = {booted.boot}
                /\ args.build /\ args.output = args.image => image[args.image] = {booted.boot}

\* The summary speaks of the last invocation that was not interrupted, and
\* reports success exactly if that one returned 0.
SummaryTells ==
    booted # NotBooted =>
        \A s \in summary : /\ s.boot = booted.boot
                           /\ s.status \in {"PASS", "BUILT", "NOOP"} <=> booted.code = 0
=============================================================================
