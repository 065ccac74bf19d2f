# A TLA+ development of rv64gc-v2

The repository holds an out-of-order, four-wide RV64GC core in SystemVerilog
(`src/src/rtl`, 44 thousand lines with its simulation checkers), the Python
programs that build, run and judge its simulations (`src/tools`, `src/scripts`),
its tests and its documents. This directory holds TLA+ modules of the parts of
both whose correctness depends on many things happening at once or one after
another, TLC configurations that check them on small instances, and proofs of
the most important properties of both, for machines and runs of every size.

A step of a model of the core is one clock cycle. What the hardware computes
combinationally is an operator; what it registers is a variable; what comes
from parts outside the model is chosen freely by the step. A step of a model of
a program is what it does between two points at which it may be stopped or a
file may change under it. What it computes without a file is an operator.

## 1. The system

### 1.1 The core

`rv64gc_core_top.sv` wires all components and keeps state of its own (rename
buffer, writeback registers, quarantine, fetch exception). Sources below are
relative to `src/src/rtl/core`.

| component | state | operations | talks to |
|---|---|---|---|
| branch prediction (`bpu/`) | tables, history, return stack | predict, train, restore on flush | fetch, commit |
| fetch (`frontend/`, `cache/icache*`, `uop_cache/`) | fetch target queue with three pointers, line fetch state, response queue, packet buffer | allocate, request, respond, deliver, cancel, flush | prediction, ITLB, L2, decode |
| decode (`decode/`) | one packet register | load, stall, flush | fetch buffer, rename |
| rename (`rename/`) | holding register, free bitmaps, maps, checkpoint images and ages | rename a group, hold the rest, commit, flush, restore | decode, reorder buffer, dispatch, commit |
| dispatch and issue (`dispatch/`, `issue/`) | two FIFOs, queues with ready bits | enqueue, wake, cancel a wake, select, flush | rename, execution |
| execution (`execute/`, `regfile/`) | pipelines, divider state machine | start, finish, kill | issue, writeback registers |
| load/store unit (`lsu/`) | load queue, store queue, committed store buffer, miss buffer, atomics state | allocate, execute, forward, detect a violation, commit, drain, retry | DTLB, data cache, reorder buffer |
| translation (`mmu/`) | ITLB, DTLB, walker, pending dirty write | look up, walk, fill, fault, set accessed and dirty, invalidate | fetch, load/store unit, L2, data cache |
| caches (`cache/dcache*`, `cache/l2_cache.sv`) | tags, data, miss registers, write-back buffer | hit, miss, fill, evict, store | load/store unit, walker, fetch, memory |
| reorder buffer and commit (`backend/`) | ring of entries, head, tail, count | allocate, complete, retire, flush | everything |
| CSRs (`csr/`) | registers, privilege | read, write at commit, trap, return | commit, interrupts |
| platform (`platform/`) | CLINT, UART | load, store | data cache |

**How they interact.** Instructions go down the pipeline in groups of at most
four. The reorder buffer keeps program order; execution reports to it through
writeback registers one cycle late; the commit unit scans the four oldest
entries, retires a prefix, and is the only source of the *full flush* that
resets everything younger (mispredicted branch, exception, replay of a load,
return, fence, change of address space, interrupt). At the same clock edge the
retired group updates the committed maps and frees registers, and the flush
rebuilds the speculative state from the committed one.

**Configurations.** Two faster recoveries exist behind parameters of
`rv64gc_core_top` (lines 13-19), all 0 in the shipped build: an *early
redirect* that restarts the front end when a branch resolves, with rename
quarantined until the flush, and a *partial recovery* (`EXEC_PARTIAL_...`,
`SELECTIVE_...`) that restores a checkpoint and keeps older instructions. The
second is modelled, as an option, and so is the quarantine.

**What is hard.** Every interesting fault needs several things in one cycle or
a long history: commit, release, rename and flush at one edge; results that
arrive after a flush; a ring that is exactly full; registers and checkpoints
recycled through many generations; a load that learns too late that it read too
early; an address translation changed while a walk is in flight.
`PROJECT.json` lists these hazards with the line where each bites and the
properties that watch it.

**What makes each component correct.**

- rename: each physical register has at most one owner and none is lost; each
  instruction reads its producer; each branch in flight owns its checkpoint;
  decode packets pass through without loss, repetition or reordering.
- reorder buffer and commit: a queue in program order; nothing retires
  unfinished or stale; survivors survive a partial flush; the head never stays.
- load/store: a load returns the youngest older store's bytes or memory's; a
  committed store drains once, in order; a miss buffer entry is neither lost
  nor answered twice.
- translation: no translation outlives the fence that invalidated it; a page
  cached as dirty is dirty in memory; a fault reaches the instruction that
  asked.
- fetch: packets reach decode in the order predicted, each once; the buffer
  cannot wait for an owner that is gone; a fault is taken at its instruction.
- caches: a line has one owner; a dirty line is written back once; a fill never
  overwrites a newer store.

### 1.2 The programs around it

Paths are relative to `src/`. None of them keeps state in memory from one call
to the next; their state is the files they leave.

| component | state | operations | talks to |
|---|---|---|---|
| benchmark runner (`tools/run_benchmarks.py`) | a run directory: `run_manifest.json`, a log and a row for each benchmark, `results.json`, summaries; `dsim_run.log` in the root | accept or refuse a command line, simulate a row, parse, gate, write, return | simulator, git, all below |
| perf profile summary (`summarize_perf_profile.py`) | none | parse one log for each row | started by the runner |
| stage 3 guard (`run_stage3_rtl_guard.py`) | none of its own | build, run, evaluate, evaluate only | runner, `results.json` |
| golden PC streams (`golden_pc_stream.py`) | a golden file | emit, verify, wire a manifest | runner |
| goal run audit (`audit_goal_runs.py`) | none | class of a run directory | `run_manifest.json`, `results.json` |
| compliance (`run_rv64gc_compliance.py`) | ELF and hex files, manifest, report | find, compile, convert, list, run, report | compiler, `elf2hex.py`, runner |
| Linux boot (`run_linux_boot.py`) | simulators, images, UART log, `summary.json` | build either, run, classify | build scripts, simulator |
| simulation platform (`sim_platform.py`, `scripts/elf2hex.py`) | images, prepared manifest | select, convert, list, run | objcopy, objdump, nm, runner |
| micro-op repack model (`uoc_repack_model.py`) | sets of a cache, the entry under way | deliver a group, flush, end | a trace |
| reports (`bottleneck_analysis.py`, `uoplife_*.py`, `analyze_heavy_trace_steps.py`, `pipeline_width_dse.py`) | none | read logs, print tables | logs |

**How they interact.** The guard, the golden streams, compliance and the
platform start the runner as a process and go by its exit code, then by the
files it left; the audit and the summary go by the files alone. Nothing locks a
directory, and every file stays until it is written again.

**What is hard.** A run directory is used again; a process is interrupted after
any file; a simulator does not start and the log of another run is still there;
two parsers decide what one log says; a compiler fails between two images.

**What makes each correct.** What a program accepts was earned by this run: a
signoff that succeeds has simulated each benchmark and each was right; the
audit's goal evidence is a run of the goal; the guard's verdict, the compliance
report and the boot status are about their own run, as far as the files they
read are their own (sections 2 and 6). What is loaded is the program, each byte
at its address. What the cache model counts as recovered was
in the cache.

## 2. The modules and the code they stand for

| module | code | what it holds |
|---|---|---|
| `RegMap` | `rename/*`, shared | constants, register sets, entries, `Olds` (what a commit frees), `Overlay` (a map with the writes of a sequence applied) |
| `FreeList` | `free_list.sv` | free bitmap, committed map, checkpoint bitmaps; take, release, flush, restore |
| `Rat` | `rat.sv` | speculative and committed map, checkpoint tables; read with bypass, write, flush, restore |
| `Checkpoint` | `checkpoint.sv` | occupied slots and their ages; save, release, flush, restore |
| `Rename` | `rename.sv`, the commit side in `rv64gc_core_top.sv` and `commit.sv` | composes the three into the rename loop |
| `RegMap_proofs`, `Rename_proofs` | | lemmas and theorems about renaming and its checkpoints |
| `RenameGroup` | `rename.sv`, `decode_queue` side of the core top | how a decode packet is cut, held and stalled; quarantine after an early redirect |
| `Rob` | `rob.sv`, `commit.sv`, writeback registers of the core top | the ring, the commit scan, the two flushes |
| `AbsRob` | | the queue in program order that `Rob` must implement |
| `RenameGroup_proofs` | | lemmas and theorems about `RenameGroup` |
| `Rob_proofs` | | the ring of `Rob`, what it retires, and that it implements `AbsRob` |
| `Mmu_proofs` | | walks and their owners, fences, dirty bits |
| `LoadStore_proofs` | | forwarding, and that `LoadStore` implements `AbsMemory` |
| `Tools_proofs` | | lemmas and theorems about the programs under `tools/` and `scripts/` |
| `Extremes_proofs` | | least and greatest elements, used by the others |
| `Mmu` | `mmu/*.sv`, their surroundings in `lsu.sv` and `rv64gc_core_top.sv` | the two TLBs, the walker, faults and their owners, fences |
| `LoadStore` | `lsu/load_queue.sv`, `store_queue.sv`, `committed_store_buffer.sv`, the ordering and forwarding decisions of `lsu.sv` | loads and stores from dispatch to the data cache |
| `AbsMemory` | | the memory in program order that `LoadStore` must implement |
| `SignoffGate` | `run_benchmarks.py` without its files | accepted command lines, what a log says, the score, the gate |
| `BenchRun` | `run_benchmarks.py`, `run_stage3_rtl_guard.py`, `golden_pc_stream.py`, `audit_goal_runs.py`, the status of `summarize_perf_profile.py` | run directories over several invocations |
| `RiscvTests` | `run_rv64gc_compliance.py` | build and run directories over several invocations |
| `LinuxBoot` | `run_linux_boot.py` | builds, fallback, logs and summary over several invocations |
| `SimPlatform` | `sim_platform.py`, `elf2hex.py` | images and the manifest given to the runner |
| `UocRepack` | `uoc_repack_model.py` | the cache and the credits of a trace |
| `MCRename`, `MCRenameGroup`, `MCMmu`, `MCLoadStore`, `MCTools` | | small instances for TLC |

**Rename.** One instance stands for one register class: with `ProtectZero` the
integer class, where register 0 is wired; without it the floating-point class.
`rob` is the sequence of instructions in flight with what rename recorded for
each (destination, old destination, source, checkpoint). Actions:

- `Cycle(c, g)`: the `c` oldest commit, the group `g` is renamed. Any prefix of
  at most `PipeWidth` may commit and any group may rename that the free list,
  the checkpoints and the reorder buffer have room for: what else the code
  waits for (dispatch queues, the throttle, an unfinished head) only shortens
  the prefix or the group.
- `Flush(c)`: the `c` oldest commit, everything else goes, and the speculative
  state becomes the committed one *including this cycle's commits*.
- `Recover(c, k)`: a partial recovery at the branch in entry `k`.

The hardware's three source operands are one source here, since each is read in
the same way. The free list's choice is the lowest free registers first, as the
priority encoders choose.

**RenameGroup.** `Work` is what the holding register or the decode packet
offers this cycle, `Cuts` the lengths the throttle, the checkpoint rule and the
free lists allow, `Advances` whether the pipeline takes it. `Redirect(n)` and
`Flush` are the two restarts. In default mode the packets that are delivered in
quarantine are consumed and dropped, and fetched again after the flush. Fused
instructions, micro-op cache packets and fetch exceptions enter by the same
register and are not told apart.

**Rob.** A step is the whole clock edge: what the head window retires, what the
writeback registers write, what is reported to them for the next cycle, what is
allocated. `Bypass` is the path that lets the two oldest slots retire on a
result that is still in its writeback register. `FullFlush` is the flush from
commit, `PartialFlush` the one from a branch at execute. An interrupt that is
pending but not taken changes nothing, so only `FullFlush` asks for it. `refill`
says that the front end needs at least a cycle after a flush before it
allocates. A slot that was flushed or committed is blanked; its allocation
writes every field again before anything reads it. `retired` is the output of
the unit; `stale` is a history variable, no guard reads it. `Fresh` is what an
allocation writes: an instruction that renaming eliminated (`"zero"`) enters
ready, and one that the front end gave an exception (`"bad"`: illegal, `ECALL`,
`EBREAK`, a fetch that faulted) enters ready and faulty (`rob.sv:871`, `876`).
`MayTrap` are the kinds whose result may carry an exception: loads, and the
instructions of the port that serves CSR accesses and floating point
(`rv64gc_core_top.sv:4219`); stores fault by the sideband (`Faults`).

**LoadStore.** `rob` holds the accesses in flight only, `lq`, `sq` and `csb`
are the three queues as sequences, `cache` is memory as the data cache answers.
`Issue` is the part of a cycle in which the decisions of `lsu.sv` meet: at most
one address half and one data half of a store, at most two loads, each held
back or answered from the store that issues with it, the store queue, the
committed buffer, or left to the cache; and the head of the store queue moves
to the committed buffer if it can. `Respond` is the cache's later answer, `Ack`
its acceptance of a store; `Dispatch`, `Commit`, `FullFlush` and
`PartialFlushAt` work on one access at a time. The flush of a cycle sees the
commit and the drain of that cycle, as in the code. Bytes of an access are a
set, double words a function from bytes: what the masks compare is whether two
accesses share a byte, whether one covers the other and whether one crosses a
double word. `Suppressed` and `ForwardedData` are the two decisions;
`Overtaken` excludes the coincidence of section 6 from a run. The load queue
does not fill before the reorder buffer here. Splitting an access across two
lines, the miss buffer, retries and holds of an answer that finds its port
taken delay a load and are not told apart from a late `Respond`.

**SignoffGate and BenchRun.** `Errors` is `validate_run_class_args`, one named
error for each sentence it may print; `Status`, `Field`, `Counter`, `Trips` read
a log, which is a sequence of lines; `Metric` is the score as a pair of
iterations and cycles; `GateReasons` and `Gate` are `evaluate_gate`. `BenchRun`
has the file system: for each directory its manifest, its logs, its rows, its
summary; `legacy` is the log in the root of the repository, `golden` the file
that `emit` writes. An invocation refuses, or prints a dry run, or `Begin`s
(which writes the manifest) and goes row by row through `Simulate` and `Score`,
which rewrites `results.json`, to `Finish` and `Return`; `Stop` may come between
any two of these. `Outcome` names the ways a simulation may end: right, with a
wrong checksum, with drift in a counter, failing after it printed PASS, on an
old image, diverging from the golden stream, or not started at all; then the
directory's old log stays. The guard, `emit` and `verify` are invocations with
their own command lines, checks before and verdicts after. `Audit` is the
audit's class of a directory. The guard's tolerance of 0.01 % is within one
unit of the small scores here.

**RiscvTests.** A source has a version, an ELF file and an image the version
they were made from. Each of `BuildElf`, `BuildHex` may fail and leave what the
tool leaves; `--force` is the only thing that makes them build again. The runner
is started with `--run-class signoff`, and its rows are part of the model:
`SimulateTest` writes the log of the run directory if the simulator starts,
whatever it returns, and `ScoreTest` goes by the log it finds (`LogOf`), which
may be that of an earlier simulation in this directory or `dsim_run.log`
(`rootLog`, written by `TestByHand`) of any image. `alone` marks an invocation
with a new run directory and no such log about: only there is a score always of
this run's simulation.

**LinuxBoot.** `BuildSim` with the fallback to Verilator when the licence is not
free, `BuildImage`, the ways out without a run (`NoRun`), `RunBoot` with the
classification of both logs. The UART log is written by the simulator, the
simulator's own log is opened anew by this program. The files are functions of
their paths, and a command line carries the paths that it and the environment
name: `output` and `made` are what the build scripts write (`OUT_DIR`, the
profile's directory, the fixed work directories), `image` and `probe` what is
looked for (`--image`, `--sim-image`, `--verilator-bin`), `exec` what is started
(`--sim-work-dir`, `VERILATOR_LINUX_BIN`), `console` and `log` the UART log as
the simulator and as this program find it. They are the same by default and
differ in four of the command lines of the run.

**SimPlatform.** A byte of a program is its own address, so that a byte at a
wrong address shows. `objcopy`, `objdump` and `nm` are external, and each reads
the program in a step of its own (`CopyProgram`, `WriteImage`, `ReadSymbols`),
between which `EditProgram` may build it again; `reads` collects the versions
they have read. The first of the two runs of `objdump` is only printed and has
no step. `LoadAddr` reads objdump's table as `get_elf_entry_and_load_addr` does.
A row is judged only if its tools have read one version: of a program that is
rebuilt under them neither the code nor the model promises anything. Rows are taken by their
place in the manifest (`NextRow`); their names are distinct, which the code does
not check and the manifest of the repository satisfies. What happens after
`run_benchmarks.py` is started is `BenchRun`.

**UocRepack.** The tree of a set is the set of the nodes whose bit is 1;
a node has the number it has in the code, and `Power` is 2 to the n. `later` is a
history variable: the ways touched since a way was. The
clock of the model is `uops`, the code's `total_uops`: an entry may be sealed
and its head opened again within one group, which a clock of groups would not
tell apart. A uop's kind is what `classify_insn` makes of it.

## 3. Runs

| run | instance | shows |
|---|---|---|
| `rename_full_flush` | 6 registers, 3 architectural, 2 checkpoints, width 2, 3 in flight | the shipped configuration: no register or checkpoint is lost or held by a branch that is gone; every source names its producer (that no register is held twice is proved, section 4, and checked in `rename_recovery`) |
| `rename_recovery` | 5 registers, 2 architectural, 4 checkpoints, 2 recoveries | partial recoveries restore exactly the map of the branch |
| `rename_group` | width 3, throttle 2, 6 instructions of 3 kinds | decode packets leave once and in order, and none is held for ever |
| `rob_queue` | 3 entries, width 2, stores, loads, branches, returns, instructions that enter with an exception, both flushes | the ring is a queue and consistent; a load proved stale never retires; survivors survive a partial flush |
| `rob_serial` | 3 entries, width 2, ALU, stores, CSR, fences, instructions that enter ready or with an exception | the same with serialization and its traps, drain, interrupts, bypass; the head always leaves |
| `mmu_fence` | 2 pages (one not canonical), 1 way, 2 levels, 2 instructions, 1 software write | no translation outlives a fence; a fault reaches the instruction that asked |
| `mmu_dirty` | 2 pages, 2 ways, 2 instructions | what is cached as dirty is dirty in memory; requests are answered |
| `load_store` | 3 accesses, 2 in the store queue, 1 in the committed buffer, 2 bytes, 2 values | a load gets each byte of the youngest older store, and the whole is a memory in program order |
| `tools` | the Python programs, each on its own: 2 run directories and 2 invocations of the runner, 3 of compliance, 2 boots, 2 preparations, a trace of 6 events | what they accept was earned, what they load is the program, what they count was cached |
| `mmu_fence_update`, `load_store_overtaken`, `bench_stale` | as above, smaller | the disagreements of section 6 |

**Bounds, and why they are enough.** `NumPregs` leaves fewer free registers
than a full buffer can ask for, so that exhaustion, release and reuse in one
cycle and several generations of one register occur. `NumCheckpoints` is 2
where slots must run out, and 4 where the ages must wrap within the run without
the keep window being exceeded. The reorder buffer has 3 entries with a
width of 2: it is exactly full, exactly empty, wraps at every offset, and the
window reaches beyond the tail. `Ports` is 2, so that two results for one store
and a result beside an ordering violation meet in a cycle. `MaxFetched` and
`MaxRecoveries` and `MaxWrites` (software writes to one page-table entry: one
is enough for an old and a new content) are the only counters that are cut. In
`mmu_fence` software keeps the accessed and dirty bits set, so that the walker
never writes, and the data TLB has one way, so that fills replace and refill; a
second level makes a walk long enough to be overtaken twice. In `mmu_dirty` the
bits start clear and the TLB holds every page, since a replacement in the cycle
of an upgrade breaks the property (section 6). Checkpoint images that no
branch owns are forgotten by the view of `MCRename`: they are written before
they are read, and no property mentions them. `LoadStore` has three accesses, which number modulo
three, so that a committed store's stale number is taken again while it still
waits; two bytes are the fewest with a partial overlap, and they lie in one
double word or in two; one place in the committed buffer makes it full and
empty. `load_store` uses symmetry of the two stored values, which are only
moved and compared; in the other runs of the core registers and slots are
ordered by the encoders and there is none. The view of `MCLoadStore` counts the
numbers of accesses from the head, so states that differ only in where the head
stands are one.

In `tools` a behaviour runs one program, chosen at its start: the programs share
no state but through the runner; `RiscvTests` has the runner's rows in its own
steps, `SimPlatform` takes it by its exit code. Two invocations are enough for every file to be that
of an earlier one; two directories, which are symmetric, let a run of one be
held against the other. Compliance has three, since one may fail between ELF and
image, one build over it and one test. Each source may change once, and two
programs are built again: an old and a new version, with the change before,
between and after the tools that read it. The trace of 6 events over two sets of four ways
fills a set, evicts from it and returns to what was evicted; five heads of one
set are one more than its ways. Nothing goes on when the bounds are reached, so
that deadlock is not checked there.

**Fairness.** Safety is checked without any. `RenameGroup!FairSpec` assumes
that the group that is offered is eventually served: the free list fills as the
reorder buffer drains, the checkpoint of the branch is released when it
commits, and the hold of the rest ends (`WF` of `Served`; nothing makes it wait
for itself). `Rob!FairSpec` assumes `HeadServed` or the head's own full flush:
execution units are pipelines or bounded loops and the oldest instruction
waits for no younger one; the committed stores drain to a memory that answers.
`Mmu!FairSpec` assumes that again and again comes a cycle in which the L2 and
the data cache do what they are asked: the walker's reads and writes have a
port of their own in the one and priority in the other, and a cycle without a
flush comes between two flushes.
Nothing is assumed of the interrupt lines, of younger instructions or of the
front end.

## 4. Proofs

For every number of registers, checkpoints, entries, pages, ways, levels,
accesses, images and invocations and every width that the modules' assumptions
on their constants allow, `tlapm` checks:

| theorem | property | module | assumes besides |
|---|---|---|---|
| `TypeCorrect` | `TypeOK` | `Rename_proofs` | nothing |
| `NeverDoublyAllocated` | `NoDoubleAllocation` | `Rename_proofs` | `RecoveriesInTime` |
| `NeverLost` | `NoLostRegister` | `Rename_proofs` | `MaxRecoveries = 0` |
| `MapFollowsProgramOrder` | `MapIsProgramOrder` | `Rename_proofs` | `RecoveriesInTime` |
| `SourcesAlwaysNameProducers` | `SourcesNameProducers` | `Rename_proofs` | `RecoveriesInTime` |
| `CheckpointsAlwaysOwned` | `CheckpointsOwned` | `Rename_proofs` | `RecoveriesInTime` |
| `CheckpointsNeverLost` | `NoLostCheckpoint` | `Rename_proofs` | `RecoveriesInTime` |
| `ImagesFollowProgramOrder` | `CheckpointImages` | `Rename_proofs` | `RecoveriesInTime` |
| `AgesAlwaysTell` | (`[]AgesTell`) | `Rename_proofs` | `MaxRecoveries = 0` |
| `LossesEndWithAFlush` | (two action properties) | `Rename_proofs` | `RecoveriesInTime` |
| `GroupTypeCorrect` | `TypeOK` | `RenameGroup_proofs` | nothing |
| `RenamedInOrderOnce` | `InOrderOnce` | `RenameGroup_proofs` | nothing |
| `RobTypeCorrect` | `TypeOK` | `Rob_proofs` | nothing |
| `RingAlwaysConsistent` | `RingConsistent` | `Rob_proofs` | nothing |
| `SurvivorsStay` | `SurvivorsPreserved` | `Rob_proofs` | nothing |
| `NoStaleRetirement` | `StaleLoadsNeverRetire` | `Rob_proofs` | nothing |
| `ImplementsQueue` | `IsQueue` | `Rob_proofs` | nothing |
| `MmuTypeCorrect` | `TypeOK` | `Mmu_proofs` | nothing |
| `FaultsAlwaysReachTheirOwner` | `FaultsReachTheirOwner` | `Mmu_proofs` | nothing |
| `FencesOrderTranslations` | `TranslationsFollowFences` | `Mmu_proofs` | `Managed`: software keeps the accessed and dirty bits set in what it maps |
| `DirtyStaysRecorded` | `DirtyIsRecorded` | `Mmu_proofs` | `[][~ReplacesUpgraded]_vars` |
| `DirtyStaysRecordedWhenHeld` | `DirtyIsRecorded` | `Mmu_proofs` | `Cardinality(Pages) <= Ways` |
| `LoadStoreTypeCorrect` | `TypeOK` | `LoadStore_proofs` | nothing |
| `YoungestAlwaysForwarded` | `ForwardsYoungest` | `LoadStore_proofs` | `~Overtaken` |
| `LoadsAndStoresAreMemory` | `IsMemory` | `LoadStore_proofs` | `~Overtaken` |
| `GuardsHold` | `GuardHolds` | `Tools_proofs` | nothing |
| `SignoffsAreEarned` | `SignoffIsEarned` | `Tools_proofs` | `GateJudges`: the gate passes right logs only |
| `EvidenceIsEarned` | `GoalEvidence` | `Tools_proofs` | `GateJudges` |
| `SummariesAgree` | `ParsersAgree` | `Tools_proofs` | nothing |
| `EmitsAreFresh` | `EmitIsFresh` | `Tools_proofs` | nothing |
| `ClaimsAreEarned` | `ClaimIsEarned` | `Tools_proofs` | nothing |
| `ForcedRunsTestSources` | `ForcedTestsSources` | `Tools_proofs` | nothing |
| `BootsAreEarned` | `BootIsEarned` | `Tools_proofs` | nothing |
| `SummariesTell` | `SummaryTells` | `Tools_proofs` | nothing |
| `ProgramsAreLoaded` | `LoadsProgram` | `Tools_proofs` | nothing |
| `HitsStayHitsOfHeads` | `HitsAreHeads` | `Tools_proofs` | nothing |
| `RecoveriesAreRevisits` | `RecoveryIsRevisit` | `Tools_proofs` | nothing |
| `VictimsAreOld` | `VictimIsOld` | `Tools_proofs` | nothing |

The theorems of `Rename_proofs` rest on `RegMapAssumption` and
`RenameAssumption`, the others on the assumption of the module they are about.
These say what the code fixes: sizes are positive, tables have the shape their
parser gives them. Two say something of the outcomes of a simulation. In
`BootAssumption` and `BenchAssumption` a simulation that does not start fails,
since the scripts that start it exit with 1 where they give up; in
`BenchAssumption` it prints no line that ends a simulation either, no command
line selects a benchmark twice (a manifest names each once), and the set `Kept`,
by which `GuardHolds` names the outcomes that the guard may accept, holds at
least those whose own log it scores well.

### 4.1 Renaming

`MaxRecoveries = 0` is the shipped configuration
(`EXEC_PARTIAL_BRANCH_RECOVERY` is 0). `RecoveriesInTime` is `MaxRecoveries = 0`
or `[]AgesTell`: partial recoveries may come, any number of them, as long as
every checkpoint of a branch in flight is among the last `NumCheckpoints` that
were saved. That is the least that can be asked: `checkpoint.sv` tells older
from younger by this distance, and `CheckpointsOwned` is false where it fails
(section 6). `AgesAlwaysTell` shows it for the shipped configuration; every state of
`rename_recovery` has it (`INVARIANT AgesTell`). `NoLostRegister` is false with
partial recoveries (section 6); `LossesEndWithAFlush` says what remains: no other
step loses a register, and the next full flush finds it again.

**Why a stronger invariant is needed.** None of the first four properties is inductive alone. A
commit frees the register an entry *recorded* as the old one when it was
renamed; that this is the register the committed map gives up now follows from
`SourcesNameProducers` for the oldest entry, and only then do `NoDoubleAllocation`
and `NoLostRegister` carry over. A flush makes the committed map the
speculative one, so the two committed maps, kept by two components, must agree
(`CommittedMapsAgree`). `RegisterInv` is the conjunction of these with
`MapIsProgramOrder`, which a rename step needs to know that what it reads from
the table and its bypass is the producer's register.

**The argument.** `RegMap_proofs` reduces a cycle to facts about `Overlay`: an
overlay of a concatenation is an overlay of overlays; the map after committing
a prefix overlaid with the rest is the map before overlaid with all; the old
registers of a committed prefix, together with the image of the new committed
map, are the image of the old map together with the destinations of the prefix.
`Rename_proofs` has one lemma per action and, under it, one step per conjunct;
`RegisterInvInductive` puts them together and the theorems follow by `PTL`.

**Checkpoints.** A cycle may commit branches that give their slots back, rename
a branch that takes one, and write the table the slot saves. The conjunction of
the three properties (`CheckpointInv`) is inductive beside `MapIsProgramOrder`:
the slot a cycle takes is free before it or released in it,
and a group that passes the resource check holds at most one branch
(`OneBranch`, `CycleSaves`). The image of a slot is the map in program order
just before its branch; that it stays so when older instructions commit is
again the lemma on overlays (`CycleKeepsCheckpoints`).

**Partial recoveries.** A recovery writes back a map, a bitmap and a set of slots
saved earlier. `RecoveryInv` is what must be true for them to fit. `OrderInv` is
`RegisterInv` without `NoLostRegister`, which recoveries do not keep, so every lemma
about a cycle and a flush is stated for it. Of two branches in flight the younger
has the smaller age (`AgesOrdered`): then the mask, which compares distances,
keeps just the slots of older branches (`KeepsOlder`), and the slots of the
squashed ones, no others, become free. What a slot would restore as free is
held by nothing older than its branch, and what was committed as free when
it saved covers what older branches have taken since (`BitmapsBefore`); with
`CheckpointImages` the state after a restore is that of the entries which stay
(`RecoverKeepsRegisters`, `RecoverKeepsCheckpoints`, `RecoverKeepsAgesAndBitmaps`).
The four are inductive together while ages tell (`RecoveryInvInductive`). Without
recoveries the age of a live checkpoint is the number of checkpoints from its
branch on (`AgesCount`), and there are no more of those than slots.

### 4.2 Groups

`InOrderOnce` speaks of the concatenation of what is renamed, held and decoded.
The proof replaces it by each part continuing the one before (`PartsInOrder`):
then what `rename.sv` cuts off one part's front and adds to another's end is
arithmetic on two numbers.

### 4.3 The reorder buffer

The distance of an entry from the head (`Age`) turns every range of the ring,
wrapped or not, into an interval: what commits is below `c`, what is in flight
below `count`, what a recovery clears above its branch (`CommittedIs`,
`InFlightIs`, `ClearedIs`). `RingConsistent` is then arithmetic, with one
exception. A partial flush recomputes the counter from the two pointers, and
two equal pointers are a full ring as well as an empty one. What rules the full
one out is `RecoveryHasRoom`: while `recovery_headroom_ok` is set, a branch
whose misprediction is in a writeback register is at least `PipeWidth` entries
from the end of the ring. The bit is sampled a cycle before it is used, so the
invariant needs that a branch that reports does not commit in the same cycle
(`ReportedStays`), and that what entered meanwhile lies behind it. The run's
mutant of `SurvivorsPreserved` drops the bit.

**Stale loads.** The load queue reports one violation a cycle, the oldest, and
the report reaches the entry a cycle late; the loads younger than the reported
one are never marked at all. `StaleCovered` says what protects them: of every
load that a store has contradicted, it or a load before it is marked, or its
report is in the register and a store in front of it is not ready, so that
nothing behind the store retires in this cycle. For that a
store's ready bit must mean both halves (`StoresReadyWhole`), and a report must
name a load or an entry that was just flushed (`ViolatesLoads`,
`ReportsInFlight`). A marked load at the front ends the scan, with a replay or
with its trap, and everything younger goes with it (`NoStaleRetirement`).

**The refinement.** An instruction of the queue is an entry with what the
writeback registers hold for it (`Reads`). `CycleStays` and `PartialFlushStays`
put a cycle in terms of distances: what commits, stays and enters. What stays
loses work and never regains it (`StayingProgresses`); what enters has nothing
in a register (`FreshReads`); what commits owes nothing, and its exception and
misprediction are in its entry and not only in a register, where the scan
cannot see them (`CommittedReads`). The last is where the bypass could go
wrong, and needs `RefineInv`: a result traps only where its kind may, only
branches mispredict, only loads are replayed, and no part is reported twice or
for an entry that was ready from its allocation. The bypass leaves a result with
an exception alone, so that what it takes is a plain result and the only one. An
entry that enters ready owes nothing from the start, and one that enters with an
exception has it in its entry, which the scan sees. A full flush maps to `Flush` by the reason the scan found; a
partial one to `Recover`, since a branch whose misprediction is still in a
register is not ready and cannot have committed (`PartialFlushIsRecover`).
What execution may report (`Possible`, `Reports`) is an assumption about the
units in front of the reorder buffer, in the runs and in the proofs.

### 4.4 Address translation

`WalkInv` adds to the types that a read is outstanding exactly in the state that
waits for it (`OneRead`) and that what waits to be written back belongs to a
walk (`WritesFit`). A walk for the data TLB is that of an instruction which is
still in flight and still wants its translation (`WalkOwned`); a fault is
reported from there, and so reaches its owner whatever came in between.

**Fences.** If software sets the bits itself, the walker has nothing to write
and only software changes memory. `FenceInv` then says of an entry in a TLB, and
of a walk that may still fill one, that what they hold is not older than the
last fence. A fence ends the walk that it meets, and the answer that is still to
come is dropped: no other walk begins before it has come (`OneRead`). Without
`Managed` the statement is false (section 6, item 1).

**Dirty bits.** Each software write has a version, and so has what a walk has
read. `DirtyInv` says that of an entry cached as dirty, of a walk that will
cache one and of a buffered write, either the page is dirty in memory, or the
write that makes it so is waiting, or software has written since (`Accounted`),
and that no waiting write takes the bit back (`NothingClears`). One cycle breaks
it: a store upgrades a way that a finished walk refills with another page.
`ReplacesUpgraded` names that cycle, and `DirtyStaysRecorded` excludes nothing
else. `RingInv` shows when it cannot occur: the ways are filled in turn and hold
each page once, so a TLB with a way for each page in use never has to replace.

### 4.5 Loads and stores

An access is placed by its distance from the oldest in flight (`From`).
`InOrder` says that the two queues are in program order and hold just the loads
and stores that `rob` has, and stores that have committed (`Placed`). `Right`
adds, for every load that has its data (`LoadRight`), that each byte is that of
the youngest older store in the store queue, else of the youngest in the
committed buffer, else of the cache. A cycle may drain a store, take both halves
of another, mark violations and issue two loads, or commit and flush: the lemmas
about `Turn` and `TurnReads` say that what the older stores leave for an access
that stays is the same after the cycle, so that only what issues now has to be
examined, and there the two decisions `Suppressed` and `ForwardedData` are
compared with the definition. A load that goes to the cache is answered later;
until then no store before it, in the queue or in the buffer, has a byte that it
reads. `~Overtaken` is needed: the run `load_store_overtaken` shows the property
false otherwise.

**The refinement.** The memory of `AbsMemory` is the cache with the committed
stores applied, those of the buffer and then those that still are in the store
queue. What that memory is after the first accesses in flight is what the queues
say of it (`AfterIs`), so a load retires with what it finds there; and a commit
of a store, a drain and an acknowledgement move bytes from place to place and
change nothing of the whole.

### 4.6 The programs

Each invariant says what an invocation under way may still rely on. `BootInv`:
what it has built is where the build has put it, which is what it runs only
where the paths agree. `ComplianceInv`: what `--force` has built so far is
of the sources as the invocation found them, rows are of this invocation, and
the loop has as many rows as tests, which is why a report without a failure is a
report of all of them. `ClaimIsEarned` says of every invocation that its rows
are its own, and of one that is `alone` that their logs are as well: its new
directory has only logs that it has written (`Logged`), and there is no other
to fall back to. `GuardInv`: every row is of this invocation and has the
return code of its simulation; a simulation that was not started has failed and
is refused by that code, and the row of one that was speaks of its own log.
`EmitInv`: the golden file is gone, or that of this invocation.

**Signoffs.** `SignoffInv` says it of the runner started by a user. The rows are
those of the first benchmarks selected, in order, and the others are to do
(`InOrder`); no benchmark is in both (`OtherNames`). In a directory of its own
each row speaks of its own simulation and its gate is that of this simulation's
own log (`OwnRow`), and a benchmark still to do has no log there (`Waiting`), so
that a simulation that is not started finds none to be scored by. While a run
goes on its directory has no exit code; when it returns, code, rows and manifest
agree (`EvidenceIn`). A command line for the goal that is not refused selects the
whole manifest (`GoalFits`, `Accepted`), which is why the audit may count rows.

`Sound` and `Faster` are what the two properties call right; `GateJudges` relates
them to the code: an outcome whose own log passes `Gate` is in `Sound`, and in
`Faster` if the mechanism has promised to move a counter. That is a statement
about what the manifest asks of a log, and says nothing of which log is read or
when; it has been evaluated for the constants of the `tools` run and holds. The
proof adds what is between: that a row is of this simulation, and that no run
with a failed, missing or foreign row returns 0.

`SummariesAgree` needs no such hypothesis: both parsers take the last PASS line,
and a log whose last end is another one does not pass (`PassIsLast`,
`BothParsers`). A log is read by the places of its lines, so that one followed
by itself says what it says once (`PlacesTwice`, `VerdictTwice`): the runner
gives the parser both the output it has captured and the log file.

**The others.** `PlatformInv`: an image under way is that of the one version its
tools have read so far (`UnderwayFits`), and what was converted for a row stays
until the runner is started, whatever is built meanwhile (`RowFits`); in an image each byte lies at its address less the base
(`HexIsLoaded`), since the zeros that `elf2hex.py` puts in front are as many as
the base is below the lowest section (`GapIs`). `UocInv`: an entry that is
filled from the cache was sealed before it was opened, and its head is still
there.

**The replaced way.** `VictimIsOld` is proved for trees of any depth. If the bit of
a node points to a way that was touched, a way on the other side of that node has
been touched since (`PathInv`). The bits on the victim's path all point to it
(`VictimIsPointedTo`), so each level has such a witness, and the witness of one
level shares with the victim all the turns above it (`SharedAbove`): no two levels
have the same one. Powers of two, the descent and the shifts are recursive
functions; that they exist and what they compute is proved by the least level at
which it would fail (`PowerDoubles`, `DescentTurns`, `HalvedOnceMore`).

## 5. Model-checked only

- Liveness (`RequestsAnswered` of `Mmu`, `HeadLeaves` of `Rob`,
  `PendingLeaves` of `RenameGroup`): fairness is outside what the proof system
  handles.
- That the ages tell with partial recovery on: how old a checkpoint becomes
  depends on the depth of the buffer and on how branches mispredict, and it
  is not so for every size (section 6).

## 6. Where code and documents disagree

Three have a run that shows them; the first two concern the shipped core.

1. `mmu_fence_update`: the walker writes back the whole entry it read some
   cycles before (`ptw.sv:320`, and the buffered dirty write of `ptw.sv:263`,
   which a fence does not remove). A store of software to the entry in between
   is lost, and a fence after that store does not bring it back.
2. `load_store_overtaken`: both halves of a store S1 issue in the cycle of a
   load L on port 0, and a store S2 to the same bytes, younger than S1 and older
   than L, is already ready in the store queue. L takes the bytes of S1, since
   the same-cycle path wins without comparing ages (`lsu.sv:2518`); neither the
   probe of the store issue queue nor the ordering check sees it. The search of
   the store queue already includes the halves that issue now
   (`store_queue.sv:246-256`) and would have answered with S2. `load_store`
   excludes this coincidence, and only it, by `Overtaken = FALSE`.
3. `bench_stale`: when the simulator does not start, the runner scores the log
   that an earlier run left in the directory or in the root of the repository
   (`run_benchmarks.py:1133`, `1137`). A signoff goes by the gate alone, not by
   the return code (`run_benchmarks.py:1870`), and succeeds. `tools` therefore
   asks of a signoff only in directories without a log of another run. The
   compliance runner starts a signoff too (`run_rv64gc_compliance.py:332`) and
   has the same fault: in a reused `--run-dir`, or beside a `dsim_run.log`, it
   may return 0 and report that the tests passed in this run (line 514) for
   logs of another image. `ClaimIsEarned` and `ForcedTestsSources` therefore
   speak of simulations only where there is no other log (`alone`). The guard and
   the golden streams are safe from this: they run as DSE, where the return
   code decides.

Two more were seen with the same modules and need no run of their own:

4. A partial recovery can lose a physical register that was in flight at the
   save, has committed, and was overwritten before the restore
   (`free_list.sv:311`): `rename_recovery.cfg` with `INVARIANT NoLostRegister`
   shows it. Off in the shipped build.
5. A store that upgrades a clean entry in the cycle in which a finished walk
   refills the same way marks the new entry dirty, which is another page's
   (`dtlb.sv:192`): `mmu_dirty.cfg` with `Ways = 1` and `INVARIANT
   DirtyIsRecorded` alone shows it. In the shipped build. `ReplacesUpgraded`
   names the cycle, and section 4 proves that it is the only one.

With `EXEC_PARTIAL_BRANCH_RECOVERY` no headroom register guards a partial
flush; a full buffer whose youngest entry recovers is then counted as empty
(`rob.sv:782`). This is the fault model `CanRecoverWhenFull` of `Rob`.
Likewise, a recovery does not take back the sequence numbers it squashes
(`checkpoint.sv:124`), so a live branch may become older than there are slots, and the
next recovery drops its checkpoint while it is in flight: `rename_recovery.cfg` with
`RobDepth = 5` and `INVARIANT AgesTell`, or `CheckpointsOwned`, shows it. In
`rename_recovery` three entries are too few for that; section 4.1 proves the
properties for all sizes where it does not happen.

Read while modelling the programs, and part of the models where they have the
state for it:

- The guard runs its rows as DSE and without golden streams, and takes a counter
  that is missing for zero: it accepts a row with a wrong checksum that keeps
  its score (`run_stage3_rtl_guard.py:157`, `185`, `287`). `GuardHolds` says
  exactly what it does establish.
- The audit calls a goal run that was interrupted after some rows
  `GOAL_PASS` (`audit_goal_runs.py:101`); the help text of
  `run_benchmarks.py:1696-1698` wants full runs only. `GoalEvidence` asks for
  all rows only of a run that ended.
- The compliance report says that all passed of the results of another run in
  a reused `--run-dir`; the exit code does not (`run_rv64gc_compliance.py:600`,
  `607`). Without `--force` it may test an image that belongs to an older
  source or is cut short (`run_rv64gc_compliance.py:243`, `265`).
- A boot image may be built in one place and booted from another: with
  `--linux-profile full` and the smoke or opensbi mode the build writes to
  `build/linux_boot_full` (`build_linux_boot.sh:39`), and the run loads from
  `build/linux_boot` (`run_linux_boot.py:406`). `--verilator-bin` is looked for,
  but the binary that is run is that of `VERILATOR_LINUX_BIN`
  (`run_verilator_linux.sh:33`), and a relative `--uart-log` is written below the
  root of the repository and read below the current directory
  (`run_linux_boot.py:543`, `667`). `BootIsEarned` asks that what was built is
  what was booted only where the paths agree.
- `--simulator auto` falls back to Verilator only while it builds
  (`run_linux_boot.py:463`), not when the licence is refused to the run.
- With `--no-perf-summary`, or when no row has a log, a reused directory keeps the
  `perf_profile_summary.md` of an earlier run beside the new results
  (`run_benchmarks.py:1407`, `1861`). `ParsersAgree` compares a summary with the
  results of the run that wrote it.
- `golden_pc_stream.py verify` prints a trip and returns what the simulator
  returned.
- `elf2hex.py` does not move a program that starts below the base, and skips a
  section with six flags or more (`elf2hex.py:62`); a row with both a hex file
  and an ELF file takes the bytes from one and `TOHOST_ADDR` from the other.
- The RTL lock of a signoff looks at the sources, not at the simulator that was
  built from them.

## 7. What is not modelled, and why

| part | reason |
|---|---|
| fetch: target queue, line fetch, packet buffer, instruction cache | next in the plan |
| load/store unit: miss buffer, retries, accesses that cross a line, device accesses, atomics | planned; they delay the answers of `LoadStore`; `Rob` has results, violations and faults as free inputs |
| data cache, L2 | planned; `Mmu` has their answers as free inputs |
| dispatch and issue queues, wakeup | planned; they only shorten the groups of `Rename` and delay the results of `Rob` |
| CSR file, trap entry and return | planned; `Rob` has the flush, not the values |
| branch predictors | predictions are free inputs everywhere; only the return stack's recovery is state that must be right |
| decode, boundary, expansion, fusion, ALU, branch unit | combinational; single-instruction tests reach them |
| multiplier, register files | plain pipelines and arrays |
| divider | planned, small |
| floating-point arithmetic | vendored |
| micro-op cache, prefetchers | off by default or performance only |
| platform devices | planned last |
| simulation checkers, counters, traces | not part of the machine |
| report programs (`bottleneck_analysis.py`, `uoplife_*.py`, `analyze_heavy_trace_steps.py`, `pipeline_width_dse.py`) | they read logs and print; no state between two lines but sums |
| Markdown, console output, `--list`, help | layout |
| `wire-manifest` of the golden streams | it edits a manifest, and manifests are constants |
| two programs at once in one directory | nothing locks it; each model has one invocation at a time |

## 8. Plan

Order of the modules to come, the most important first:

1. `FetchQueue`: fetch target queue, packet buffer and the injection of fetch
   exceptions; abstract specification: a FIFO of predicted blocks.
2. `DCache` and `L2`: miss registers, fills, evictions, the store port;
   abstract specification: one value for each line.
3. `Atomics`: the state machine of LR/SC and AMO and of device accesses, with
   the interrupt that may be taken at the head, the miss buffer and the retries;
   liveness of `LoadStore`: no load waits for ever.
4. `Issue`: wakeup, speculative wakeup and its cancellation.
5. `Csr`, return stack recovery, divider, platform.

Proofs to come with those modules; what section 5 lists stays with TLC.
