------------------------------- MODULE Driver -------------------------------
(***************************************************************************)
(* main of main.c, with compile_program of codegen.c as far as files and   *)
(* exits go: one invocation of the compiler after the other on one disk.   *)
(* What the parser and the code generator decide is left open here.        *)
(***************************************************************************)
EXTENDS Sections

CONSTANTS
  Inputs,    \* names of the files the compiler is called on
  Source,    \* contents of a source file
  MaxRuns,   \* bound of the model: invocations
  MaxChunks  \* bound of the model: for every section the writes to it

VARIABLES
  phase,  \* where main is: "idle" before and after
  input,  \* argv[1]
  run,    \* number of the invocation
  exit,   \* exit status of the last invocation
  before  \* of the model only: the disk when the invocation began

vars == <<gds, phase, input, run, exit, before>>

ASSUME DriverAssumption ==
  /\ Inputs \subseteq Seq(STRING)
  /\ MaxRuns \in Nat
  /\ MaxChunks \in [AllSections -> Nat]

\* output_basename: the name is cut at its last dot (strrchr), even one in the name of a directory.
BaseName(name) ==
  LET dots == {i \in DOMAIN name : name[i] = "."}
  IN  IF dots = {} THEN name
      ELSE SubSeq(name, 1, (CHOOSE i \in dots : \A j \in dots : j <= i) - 1)

Init ==
  /\ disk = [n \in Inputs |-> Source]
  /\ SectionsInit
  /\ phase = "idle"
  /\ input = <<>>
  /\ run = 0
  /\ exit = 0
  /\ before = disk

At(p) == phase = p /\ UNCHANGED <<input, run, before>>
Goto(p) == phase' = p /\ UNCHANGED exit
ExitWith(status) == phase' = "idle" /\ exit' = status

Invoke(name) ==
  /\ phase = "idle"
  /\ run < MaxRuns
  /\ phase' = "read"
  /\ input' = name
  /\ run' = run + 1
  /\ before' = disk
  /\ files' = NoFiles
  /\ faults' = {}
  /\ UNCHANGED <<disk, opened, base, next, exit>>

\* Without an argument main prints its usage.
InvokeBare ==
  /\ phase = "idle"
  /\ run < MaxRuns
  /\ input' = <<>>
  /\ run' = run + 1
  /\ before' = disk
  /\ faults' = {}
  /\ ExitWith(1)
  /\ UNCHANGED <<disk, files, opened, base, next>>

\* read_file_to_string, and the name of the output
ReadSource ==
  /\ At("read")
  /\ input \in DOMAIN disk
  /\ base' = BaseName(input)
  /\ Goto("parse")
  /\ UNCHANGED <<disk, files, opened, next, faults>>

ReadFails ==
  /\ At("read")
  /\ faults' = faults \cup {"source"}
  /\ ExitWith(1)
  /\ UNCHANGED <<disk, files, opened, base, next>>

\* parse_program, then gds_create from compile_program
ParseProgram ==
  /\ At("parse")
  /\ GdsCreate(base)
  /\ Goto("create")
  /\ UNCHANGED <<disk, faults>>

\* parser_error
ParseFails == At("parse") /\ ExitWith(1) /\ UNCHANGED gds

CreateTemp == At("create") /\ OpenTemp /\ UNCHANGED <<phase, exit>>

CreateFails == At("create") /\ OpenTempFails /\ ExitWith(1)

\* mutated: an iteration too few is waited for
BeginProgramEarly ==
  /\ At("create")
  /\ next = Len(SectionNames)
  /\ files' = [files EXCEPT !["data"] = <<Chunk("data", run)>>, !["text"] = <<Chunk("text", run)>>]
  /\ Goto("generate")
  /\ UNCHANGED <<disk, opened, base, next, faults>>

\* generate_runtime_globals and generate_prologue
BeginProgram ==
  /\ At("create")
  /\ next > Len(SectionNames)
  /\ files' = [files EXCEPT !["data"] = <<Chunk("data", run)>>, !["text"] = <<Chunk("text", run)>>]
  /\ Goto("generate")
  /\ UNCHANGED <<disk, opened, base, next, faults>>

\* The handlers of codegen.c write functions, code, literals and variables.
Generate(section) ==
  /\ At("generate")
  /\ Len(files[section]) < MaxChunks[section]
  /\ Write(section, run)
  /\ UNCHANGED <<phase, exit>>

\* mutated: an error finalizes what there is
CompileErrorFinalizing == At("generate") /\ OpenFinal /\ ExitWith(1)

\* Every error of codegen.c exits on the spot; the streams are closed by the
\* system and the files stay.
CompileError ==
  /\ At("generate")
  /\ opened' = {}
  /\ ExitWith(1)
  /\ UNCHANGED <<disk, files, base, next, faults>>

OpenOutput == At("generate") /\ OpenFinal /\ Goto("append")

\* gds_close_and_finalize returns, and main goes on.
OutputFails == At("generate") /\ OpenFinalFails /\ Goto("report")

AppendNext == At("append") /\ AppendSection /\ UNCHANGED <<phase, exit>>
SkipNext   == At("append") /\ SkipSection /\ UNCHANGED <<phase, exit>>

CloseOutput == At("append") /\ next > Len(Pieces) /\ Goto("report") /\ UNCHANGED gds

\* "Compilation successful."
Report == At("report") /\ ExitWith(0) /\ UNCHANGED gds

Next ==
  \/ InvokeBare \/ \E name \in Inputs : Invoke(name)
  \/ ReadSource \/ ReadFails \/ ParseProgram \/ ParseFails
  \/ CreateTemp \/ CreateFails \/ BeginProgram
  \/ \E section \in AllSections \ {"bss"} : Generate(section)
  \/ CompileError \/ OpenOutput \/ OutputFails
  \/ AppendNext \/ SkipNext \/ CloseOutput \/ Report

\* One sequential program; no call of the file system lasts for ever.
Spec == Init /\ [][Next]_vars /\ WF_vars(Next)

-----------------------------------------------------------------------------
(* Properties *)

\* A name like those of the temporary files: a file of this name may be removed.
NamedTemporary(name) == Len(name) > 2 /\ name[Len(name) - 2] = "tmp"

\* Types, and that no file disappears but those named like temporary ones.
TypeOK ==
  /\ phase \in {"idle", "read", "parse", "create", "generate", "append", "report"}
  /\ DOMAIN files = AllSections
  /\ opened \subseteq AllSections
  /\ next \in 0 .. Len(SectionNames) + 1
  /\ exit \in {0, 1}
  /\ run \in 0 .. MaxRuns
  /\ \A n \in Inputs : NamedTemporary(n) \/ n \in DOMAIN disk

Output == FinalName(base)
IsHeader(item) == "header" \in DOMAIN item

\* The section item i of an assembly file is assembled into: that of the last
\* header before it, .text when there is none (nasm).
SectionAt(contents, i) ==
  LET headers == {j \in 1 .. i : IsHeader(contents[j])}
  IN  IF headers = {} THEN "text"
      ELSE contents[CHOOSE j \in headers : \A k \in headers : k <= j].header

\* In every output file, complete or not, whatever sections were empty and
\* whatever calls failed, code lies in .text and data in its own section
\* (the code of main has no header: it relies on coming second), and nothing
\* of another compilation is mixed in.
SectionsInPlace ==
  \A n \in DOMAIN disk : disk[n] # Source =>
    \A i \in DOMAIN disk[n] : ~IsHeader(disk[n][i]) =>
      /\ SectionAt(disk[n], i) =
           IF disk[n][i].chunk \in {"func", "text"} THEN "text" ELSE disk[n][i].chunk
      /\ \A j \in DOMAIN disk[n] : ~IsHeader(disk[n][j]) => disk[n][j].of = disk[n][i].of

WithHeader(section, contents) ==
  IF contents = <<>> THEN <<>> ELSE <<Header(section)>> \o contents

\* When no call failed, success means that the output holds all that was
\* generated and nothing else, functions first, a header before each section
\* that is not empty, and that everything was closed.
OutputWhole ==
  phase = "idle" /\ run > 0 /\ exit = 0 /\ faults = {} =>
    /\ disk[Output] = WithHeader("text", files["func"]) \o files["text"]
         \o WithHeader("rodata", files["rodata"]) \o WithHeader("data", files["data"])
         \o WithHeader("bss", files["bss"])
    /\ opened = {}

\* As long as the code is not complete, and for ever after an error, no file but
\* the temporary ones of this compilation has been touched: an earlier output
\* survives a failed compilation.
ErrorsKeepOutput ==
  phase \in {"read", "parse", "create", "generate"} \/ (phase = "idle" /\ exit = 1) =>
    /\ \A n \in DOMAIN before \ Temps(base) : n \in DOMAIN disk /\ disk[n] = before[n]
    /\ DOMAIN disk \subseteq DOMAIN before \cup Temps(base)

\* The source survives its compilation, unless it is itself called .s.
SourceKept ==
  input # <<>> /\ Last(input) # "s" => disk[input] = before[input]

\* What stays behind: after success at most the file of the functions, which is
\* removed under the name of another; after an error before code was generated,
\* only what was there already.
FewLeftovers ==
  phase = "idle" /\ run > 0 =>
    /\ exit = 0 => Temps(base) \cap DOMAIN disk \subseteq {TempName(base, "func")}
    /\ exit = 1 /\ "temp" \in faults => DOMAIN disk \subseteq DOMAIN before

\* Every invocation ends.
InvocationsEnd == phase # "idle" ~> phase = "idle"

\* README.md:23: "This will produce an assembly file", and main.c:75 prints
\* "Compilation successful" for it.
SuccessMeansOutput ==
  phase = "idle" /\ run > 0 /\ exit = 0 =>
    /\ Output \in DOMAIN disk
    /\ disk[Output] # Source
    /\ Chunk("text", run) \in ToSet(disk[Output])
=============================================================================
