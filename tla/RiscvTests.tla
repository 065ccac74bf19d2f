----------------------------- MODULE RiscvTests -----------------------------
(***************************************************************************)
(* tools/run_rv64gc_compliance.py: it compiles the riscv-tests, converts   *)
(* them, has run_benchmarks.py score them, and writes the report that the  *)
(* claim of compliance rests on.                                           *)
(*                                                                         *)
(* Each invocation goes through the files of a build directory and of a    *)
(* run directory that others have left; sources change meanwhile, and it   *)
(* may be interrupted after any step.  run_benchmarks.py scores a signoff: *)
(* the verdict of a row is that of the log it finds, whatever the          *)
(* simulator returned, and it returns 0 only if every row passes.          *)
(***************************************************************************)
EXTENDS Naturals, Sequences, FiniteSets

CONSTANTS TestSeq,        \* the tests, in the order they are found in
          ComplianceArgs, \* command lines
          MaxEdits,       \* bound on the changes of a source
          MaxCalls        \* bound on the invocations

Tests == {TestSeq[i] : i \in DOMAIN TestSeq}

ASSUME ComplianceAssumption == TestSeq \in Seq(Tests) /\ MaxEdits \in Nat

VARIABLES source,   \* the version of each test's source
          elf, hex, \* what was built: {} or the version it was built from
          listed,   \* whether the generated manifest is there
          logs,     \* each test's dsim.log of the run directory: {} or [call, image, pass]
          rootLog,  \* dsim_run.log: {} or the same, of call 0 and some other image
          results,  \* results.json: {} or [call, rows]
          report,   \* the audit report: {} or [call, pass, alone]
          call,     \* the invocation under way: {} or one record
          done,     \* history: the last invocation that ended, if it succeeded
          calls     \* invocations so far

complianceVars == <<source, elf, hex, listed, logs, rootLog, results, report, call, done, calls>>

Truncated == MaxEdits + 1
NotBuilt == [t \in Tests |-> {}]
Failed == [code |-> 1, args |-> {}, alone |-> FALSE, source |-> NotBuilt]

ComplianceInit ==
    /\ source = [t \in Tests |-> 0]
    /\ elf = NotBuilt /\ hex = NotBuilt /\ listed = FALSE
    /\ logs = NotBuilt /\ rootLog = {} /\ results = {} /\ report = {}
    /\ call = {} /\ done = Failed /\ calls = 0

\* Somebody changes a test.
EditSource(t) ==
    /\ source[t] < MaxEdits
    /\ source' = [source EXCEPT ![t] = @ + 1]
    /\ UNCHANGED <<elf, hex, listed, logs, rootLog, results, report, call, done, calls>>

\* scripts/run_dsim.sh, by hand and between invocations, on any image: it
\* prints to the root of the repository.
TestByHand(pass) ==
    /\ call = {} /\ rootLog' = {[call |-> 0, image |-> {}, pass |-> pass]}
    /\ UNCHANGED <<source, elf, hex, listed, logs, results, report, call, done, calls>>

Leave(c, code) ==
    /\ call' = {}
    /\ done' = IF code = 0
               THEN [code |-> 0, args |-> {c.args}, alone |-> c.alone, source |-> c.source]
               ELSE Failed

-----------------------------------------------------------------------------
\* An invocation starts: the tests are found, and there must be a manifest if
\* none is to be built.  A new run directory has no results and no logs: unless
\* there is a dsim_run.log, no log of another simulation can be found.
StartCompliance(args) ==
    /\ call = {} /\ calls < MaxCalls /\ calls' = calls + 1
    /\ args.no_build => listed
    /\ call' = {[args |-> args, todo |-> TestSeq, rc |-> 0, rows |-> {},
                 phase |-> IF args.no_build THEN "sim" ELSE "elf",
                 alone |-> args.fresh /\ rootLog = {},
                 source |-> [t \in Tests |-> {}]]}
    /\ results' = IF args.fresh THEN {} ELSE results
    /\ logs' = IF args.fresh THEN NotBuilt ELSE logs
    /\ done' = Failed
    /\ UNCHANGED <<source, elf, hex, listed, rootLog, report>>

RebuildsMissing(c, there) == there = {}
Rebuilds(c, there) == c.args.force \/ there = {}

\* The loop of build_riscv_tests.  must_run ends the invocation when a
\* compiler or the converter fails.  An assembler that fails leaves the old
\* output there, a linker removes it; a converter that is stopped while it
\* writes leaves a part of the image.
BuildElf(c) ==
    /\ c.phase = "elf" /\ c.todo # <<>>
    /\ LET t == Head(c.todo)
       IN  \/ /\ elf' = IF c.args.force \/ elf[t] = {}
                        THEN [elf EXCEPT ![t] = {source[t]}] ELSE elf
              /\ call' = {[c EXCEPT !.phase = "hex", !.source[t] = {source[t]}]}
              /\ UNCHANGED done
           \/ /\ c.args.force \/ elf[t] = {}
              /\ elf' \in {elf, [elf EXCEPT ![t] = {}]}
              /\ Leave(c, 1)
    /\ UNCHANGED <<source, hex, listed, logs, rootLog, results, report, calls>>

BuildHex(c) ==
    /\ c.phase = "hex"
    /\ LET t == Head(c.todo)
       IN  \/ /\ hex' = IF Rebuilds(c, hex[t]) THEN [hex EXCEPT ![t] = elf[t]] ELSE hex
              /\ call' = {[c EXCEPT !.phase = "elf", !.todo = Tail(@)]}
              /\ UNCHANGED done
           \/ /\ Rebuilds(c, hex[t])
              /\ hex' \in {hex, [hex EXCEPT ![t] = {Truncated}]}
              /\ Leave(c, 1)
    /\ UNCHANGED <<source, elf, listed, logs, rootLog, results, report, calls>>

\* The manifest lists every test, after all of them have been built.
WriteManifest(c) ==
    /\ c.phase = "elf" /\ c.todo = <<>>
    /\ listed' = TRUE
    /\ IF c.args.build_only THEN Leave(c, 0)
       ELSE call' = {[c EXCEPT !.phase = "sim"]} /\ UNCHANGED done
    /\ UNCHANGED <<source, elf, hex, logs, rootLog, results, report, calls>>

\* run_compliance: a simulator that cannot be built and a run_benchmarks.py
\* that refuses its command line leave the results of the run directory alone.
StartRows(c, rc) ==
    /\ c.phase = "sim"
    /\ call' = {[c EXCEPT !.phase = IF rc = 0 THEN "rows" ELSE "report", !.rc = rc,
                          !.todo = TestSeq]}
    /\ UNCHANGED <<source, elf, hex, listed, logs, rootLog, results, report, done, calls>>

\* One row of run_benchmarks.py: the simulation, whose log is written where the
\* simulator starts and stays the old one where it does not.
SimulateTest(c, launched, pass) ==
    /\ c.phase = "rows" /\ c.todo # <<>>
    /\ logs' = IF launched
               THEN [logs EXCEPT ![Head(c.todo)] =
                        {[call |-> calls, image |-> hex[Head(c.todo)], pass |-> pass]}]
               ELSE logs
    /\ call' = {[c EXCEPT !.phase = "score"]}
    /\ UNCHANGED <<source, elf, hex, listed, rootLog, results, report, done, calls>>

\* The log that is read: that of the run directory, else the one in the root of
\* the repository.
LogOf(t) == IF logs[t] # {} THEN logs[t] ELSE rootLog

\* The row passes if its log does, and results.json is written again.
ScoreTest(c) ==
    /\ c.phase = "score"
    /\ LET t    == Head(c.todo)
           rows == c.rows \union {[test |-> t, pass |-> \E l \in LogOf(t) : l.pass,
                                   log |-> LogOf(t)]}
       IN  /\ results' = {[call |-> calls, rows |-> rows]}
           /\ call' = {[c EXCEPT !.phase = "rows", !.rows = rows, !.todo = Tail(@)]}
    /\ UNCHANGED <<source, elf, hex, listed, logs, rootLog, report, done, calls>>

\* run_benchmarks.py ends, or is killed before it has scored every test.
EndRows(c) ==
    /\ c.phase \in {"rows", "score"}
    /\ call' = {[c EXCEPT !.phase = "report",
                          !.rc = IF c.todo = <<>> /\ \A row \in c.rows : row.pass
                                 THEN 0 ELSE 1]}
    /\ UNCHANGED <<source, elf, hex, listed, logs, rootLog, results, report, done, calls>>

\* summarize_results: as many rows as the manifest has, and no failure.
AllPass ==
    \E r \in results : Cardinality(r.rows) = Len(TestSeq) /\ \A row \in r.rows : row.pass

ExitCodeOfReport(c) == IF AllPass THEN 0 ELSE 1
ExitCode(c) == IF c.rc # 0 THEN c.rc ELSE IF AllPass THEN 0 ELSE 1

\* The report is written whatever the run returned.
WriteReport(c) ==
    /\ c.phase = "report"
    /\ report' = {[call |-> calls, pass |-> AllPass, alone |-> c.alone]}
    /\ Leave(c, ExitCode(c))
    /\ UNCHANGED <<source, elf, hex, listed, logs, rootLog, results, calls>>

Interrupt(c) ==
    /\ Leave(c, 1)
    /\ UNCHANGED <<source, elf, hex, listed, logs, rootLog, results, report, calls>>

ComplianceNext ==
    \/ \E t \in Tests : EditSource(t)
    \/ \E pass \in BOOLEAN : TestByHand(pass)
    \/ \E args \in ComplianceArgs : StartCompliance(args)
    \/ \E c \in call :
          \/ BuildElf(c) \/ BuildHex(c) \/ WriteManifest(c)
          \/ \E rc \in {0, 1} : StartRows(c, rc)
          \/ \E launched, pass \in BOOLEAN : SimulateTest(c, launched, pass)
          \/ ScoreTest(c) \/ EndRows(c) \/ WriteReport(c) \/ Interrupt(c)

ComplianceSpec == ComplianceInit /\ [][ComplianceNext]_complianceVars

-----------------------------------------------------------------------------
Ran == call = {} /\ done.code = 0 /\ \A args \in done.args : ~args.build_only

\* An invocation that succeeds has scored every test in this run and every one
\* passed, in a run directory that holds the results of another run as well; and
\* the report it leaves says so.  Where no log of another simulation could be
\* found, every test was also simulated by this invocation, and a report that
\* says that all passed is about it.
ClaimIsEarned ==
    LET Passed == \E r \in results : /\ r.call = calls
                                     /\ {row.test : row \in r.rows} = Tests
                                     /\ \A row \in r.rows : row.pass
        Simulated == \A r \in results : \A row \in r.rows : \E l \in row.log : l.call = calls
    IN  /\ Ran => /\ Passed
                  /\ \E r \in report : r.call = calls /\ r.pass
                  /\ done.alone => Simulated
        /\ call = {} => \A r \in report : r.call = calls /\ r.pass /\ r.alone
                                            => Passed /\ Simulated

\* With --force the images that passed, where no other log could be found, were
\* built from the sources as this invocation found them, whatever an earlier one
\* that failed between the compiler and the converter has left.
ForcedTestsSources ==
    Ran /\ done.alone /\ (\A args \in done.args : args.force /\ ~args.no_build) =>
        \A r \in results : \A row \in r.rows : \A l \in row.log :
            l.image = done.source[row.test]
=============================================================================
