---------------------------- MODULE SimPlatform ----------------------------
(***************************************************************************)
(* tools/sim_platform.py prepares the images of a platform manifest's rows *)
(* for run_benchmarks.py, with scripts/elf2hex.py for those that are not   *)
(* hex files yet.                                                          *)
(*                                                                         *)
(* A byte of a program is its own address, and Zero where there is none: a *)
(* hex file is a sequence of bytes, and the simulator loads the first one  *)
(* at the base address of its memory.  objcopy, objdump and nm are         *)
(* external: each reads the program when its turn comes, and somebody may  *)
(* build the program again between them.                                   *)
(***************************************************************************)
EXTENDS Naturals, Sequences, FiniteSetsExt

CONSTANTS Program,       \* programs, by name and version: sections, address of tohost
          PlatformRow, RowSeq, \* the rows of the platform manifest and those it includes
          PlatformArgs,  \* command lines
          MaxEdit,       \* bound on the changes of a program
          MaxPrepare     \* bound on the invocations

Zero == 0

VARIABLES version, \* row -> the version of its program that was built last
          images,  \* row -> the file images/<row>.hex: {} or [bytes, by]
          prep,    \* the invocation under way: {} or one record
          edits, preps

platformVars == <<version, images, prep, edits, preps>>

Rows == DOMAIN PlatformRow

\* The code does not check that names differ, but writes an image under each.
ASSUME PlatformAssumption ==
    /\ RowSeq \in Seq(Rows)
    /\ \A i, j \in DOMAIN RowSeq : RowSeq[i] = RowSeq[j] => i = j
    /\ \A r \in Rows :
          /\ PlatformRow[r].base \in Nat /\ PlatformRow[r].format \in {"elf", "bin", "none"}
          /\ 1 \in DOMAIN Program[r]
          /\ \A v \in DOMAIN Program[r] :
                /\ IsFiniteSet(Program[r][v].sections)
                /\ \A s \in Program[r][v].sections : s.lma \in Nat /\ s.size \in Nat

PlatformInit ==
    /\ version = [r \in Rows |-> 1] /\ images = [r \in Rows |-> {}] /\ prep = {}
    /\ edits = 0 /\ preps = 0

-----------------------------------------------------------------------------
\* elf2hex.py

\* What objcopy places in a binary file, and where it starts.
Placed(elf) == {s \in elf.sections : s.contents /\ s.size > 0}
Lowest(elf) == Min({s.lma : s \in Placed(elf)})
Bytes(s) == s.lma .. s.lma + s.size - 1
Binary(elf) ==
    LET all == UNION {Bytes(s) : s \in Placed(elf)}
    IN  [i \in 1 .. Max(all) - Lowest(elf) + 1 |->
            IF Lowest(elf) + i - 1 \in all THEN Lowest(elf) + i - 1 ELSE Zero]

\* without a look at the flags
LoadAddrOfAll(elf, objdump) == IF objdump THEN {Min({s.lma : s \in elf.sections})} ELSE {}

\* get_elf_entry_and_load_addr: {} if objdump fails.  A line with six or more
\* flags is taken for another section, and the section it belongs to is lost.
LoadAddr(elf, objdump) ==
    LET read == {s \in Placed(elf) : s.flags < 6}
    IN  IF objdump /\ read # {} THEN {Min({s.lma : s \in read})} ELSE {}

\* The bytes between the base and the first section, that objcopy leaves out, as
\* objdump lists it.  A program that starts below the base is not moved.
Gap(elf, base, objdump) ==
    LET above == {a \in LoadAddr(elf, objdump) : a > base}
    IN  IF above = {} THEN 0 ELSE Min(above) - base

Hex(copied, listed, base, objdump) ==
    [i \in 1 .. Gap(listed, base, objdump) |-> Zero] \o Binary(copied)

-----------------------------------------------------------------------------
\* sim_platform.py

\* the places of the rows that are asked for
SelectedRows(args) ==
    {i \in DOMAIN RowSeq : /\ args.bench = {} \/ RowSeq[i] \in args.bench
                           /\ args.suite = {} \/ PlatformRow[RowSeq[i]].suite \in args.suite}

NextRow(b) == RowSeq[Min(b.todo)]

\* Somebody builds the program of a row again.
EditProgram(r) ==
    /\ edits < MaxEdit /\ edits' = edits + 1
    /\ version[r] + 1 \in DOMAIN Program[r]
    /\ version' = [version EXCEPT ![r] = @ + 1]
    /\ UNCHANGED <<images, prep, preps>>

\* --list, and a selection without rows, end before a file is written.
StartPrepare(args) ==
    /\ prep = {} /\ preps < MaxPrepare /\ preps' = preps + 1
    /\ prep' = IF args.list \/ SelectedRows(args) = {} THEN {}
               ELSE {[args |-> args, todo |-> SelectedRows(args), rows |-> {},
                      phase |-> "prepare", copied |-> 0, reads |-> {}]}
    /\ UNCHANGED <<version, images, edits>>

\* prepare_image: a hex file is taken as it is, unless all images are built
\* again.  Nothing but the name of the row tells one image from another.
GivenHex(b, r) == PlatformRow[r].hex /\ ~b.args.rebuild

Builds(b, r, format) == ~GivenHex(b, r) /\ PlatformRow[r].format = format

TakeHex(b) ==
    /\ b.phase = "prepare" /\ b.todo # {} /\ GivenHex(b, NextRow(b))
    /\ prep' = {[b EXCEPT !.phase = "symbols", !.reads = {}]}
    /\ UNCHANGED <<version, images, edits, preps>>

\* objcopy.  What an objdump before it has listed is only printed.
CopyProgram(b) ==
    /\ b.phase = "prepare" /\ b.todo # {} /\ Builds(b, NextRow(b), "elf")
    /\ LET v == version[NextRow(b)]
       IN  prep' = {[b EXCEPT !.phase = "align", !.copied = v, !.reads = {v}]}
    /\ UNCHANGED <<version, images, edits, preps>>

\* objdump once more, for the bytes to be put before what was copied; a binary
\* file is read as it is.
WriteImage(b) ==
    /\ b.todo # {}
    /\ LET r == NextRow(b)
           v == version[r]
           Write(bytes, reads) ==
               /\ images' = [images EXCEPT ![r] = {[bytes |-> bytes, by |-> preps]}]
               /\ prep' = {[b EXCEPT !.phase = "symbols", !.reads = reads]}
           base == PlatformRow[r].base
       IN  \/ /\ b.phase = "align"
              /\ Write(Hex(Program[r][b.copied], Program[r][v], base, b.args.objdump),
                       b.reads \union {v})
           \/ /\ b.phase = "prepare" /\ Builds(b, r, "bin")
              /\ Write(Binary(Program[r][v]), {v})
    /\ UNCHANGED <<version, edits, preps>>

\* prepare_row, with nm: its own plusargs come first, then those it lacks.
ReadSymbols(b) ==
    /\ b.phase = "symbols"
    /\ LET r     == NextRow(b)
           named == IF PlatformRow[r].format = "elf" /\ b.args.nm THEN {version[r]} ELSE {}
           found == UNION {Program[r][v].tohost : v \in named}
       IN  prep' = {[b EXCEPT !.phase = "prepare", !.todo = @ \ {Min(@)},
                 !.rows = @ \union {[row |-> r, given |-> GivenHex(b, r),
                                     reads |-> b.reads \union named,
                                     tohost |-> IF PlatformRow[r].tohost # {}
                                                THEN PlatformRow[r].tohost ELSE found]}]}
    /\ UNCHANGED <<version, images, edits, preps>>

\* The converter fails, a row has nothing to build from, or somebody stops the
\* program, while it writes as well: there is no manifest and nothing is run.
PrepareFails(b) ==
    /\ b.phase # "run" /\ b.todo # {}
    /\ LET r == NextRow(b)
       IN  images' \in {images} \union
              IF b.phase = "align" \/ (b.phase = "prepare" /\ Builds(b, r, "bin"))
              THEN {[images EXCEPT ![r] = {[bytes |-> <<>>, by |-> preps]}]} ELSE {}
    /\ prep' = {}
    /\ UNCHANGED <<version, edits, preps>>

\* The manifest is written when every row is ready, and given to
\* run_benchmarks.py, whose exit code is that of this program.
RunPrepared(b) ==
    /\ b.phase = "prepare" /\ b.todo = {}
    /\ prep' = IF b.args.prepare_only THEN {} ELSE {[b EXCEPT !.phase = "run"]}
    /\ UNCHANGED <<version, images, edits, preps>>

EndPrepared(b) ==
    /\ b.phase = "run" /\ prep' = {}
    /\ UNCHANGED <<version, images, edits, preps>>

PlatformNext ==
    \/ \E r \in Rows : EditProgram(r)
    \/ \E args \in PlatformArgs : StartPrepare(args)
    \/ \E b \in prep :
          \/ TakeHex(b) \/ CopyProgram(b) \/ WriteImage(b) \/ ReadSymbols(b)
          \/ PrepareFails(b) \/ RunPrepared(b) \/ EndPrepared(b)

PlatformSpec == PlatformInit /\ [][PlatformNext]_platformVars

-----------------------------------------------------------------------------
\* The program can be placed: no section lies below the base, objdump works,
\* and it lists the lowest section in a way that is understood.
Placeable(b, r, program) ==
    /\ PlatformRow[r].base <= Lowest(program)
    /\ IF PlatformRow[r].format = "bin" THEN PlatformRow[r].base = Lowest(program)
       ELSE /\ b.args.objdump
            /\ \E s \in Placed(program) : s.lma = Lowest(program) /\ s.flags < 6

\* The program as it should lie in memory.
Loaded(program, base) ==
    LET all == UNION {Bytes(s) : s \in Placed(program)}
    IN  [i \in 1 .. Max(all) - base + 1 |->
            IF base + i - 1 \in all THEN base + i - 1 ELSE Zero]

\* What is simulated, if the tools that prepared its row have all read the same
\* version of the program, is that version, every byte of it at its own address
\* and nothing else, converted by this invocation whatever images an earlier one
\* has left and whatever was built since; and the simulator watches the tohost of
\* that same version unless the row names another.
LoadsProgram ==
    \A b \in prep : b.phase = "run" =>
        \A row \in b.rows : \A v \in row.reads :
            LET program == Program[row.row][v]
            IN  ~row.given /\ row.reads = {v} /\ Placeable(b, row.row, program) =>
                /\ images[row.row] =
                      {[bytes |-> Loaded(program, PlatformRow[row.row].base), by |-> preps]}
                /\ PlatformRow[row.row].format = "elf" /\ PlatformRow[row.row].tohost = {}
                      => (b.args.nm => row.tohost = program.tohost)
=============================================================================
