------------------------------ MODULE Sections ------------------------------
(***************************************************************************)
(* global_data_sections.c: while it generates code the compiler keeps five *)
(* temporary files, named after the output file and the section; when it   *)
(* is done it copies them into the output file.  Each call of the file     *)
(* system may fail.  A file name is a sequence of name parts, dots and     *)
(* slashes; of a temporary file the disk holds the name only, since it is  *)
(* truncated when opened and read through its stream.                      *)
(***************************************************************************)
EXTENDS Naturals, Sequences, SequencesExt

VARIABLES
  disk,   \* file name -> contents, a sequence of section headers and chunks
  files,  \* section -> what has been written to its stream
  opened, \* the sections whose stream is open
  base,   \* gds->base_filename
  next,   \* the iteration of the loop that creates, or of the calls that append
  faults  \* of the model only: calls of the file system that have failed

gds == <<disk, files, opened, base, next, faults>>

SectionNames == <<"func", "text", "data", "rodata", "bss">>
AllSections == ToSet(SectionNames)

\* mutated: section and suffix are left out
BareTempName(b, section) == b

TempName(b, section) == b \o <<".", section, ".", "tmp", ".", "s">>
Temps(b) == {TempName(b, s) : s \in AllSections}

\* mutated: no extension
BareName(b) == b

FinalName(b) == b \o <<".", "s">>

Header(section) == [header |-> section]
Chunk(section, content) == [chunk |-> section, of |-> content]

Put(d, name, contents) ==
  [n \in DOMAIN d \cup {name} |-> IF n = name THEN contents ELSE d[n]]
Unlink(d, names) == [n \in DOMAIN d \ names |-> d[n]]

NoFiles == [s \in AllSections |-> <<>>]

SectionsInit ==
  /\ files = NoFiles
  /\ opened = {}
  /\ base = <<>>
  /\ next = 0
  /\ faults = {}

-----------------------------------------------------------------------------
(* gds_create *)

GdsCreate(b) ==
  /\ files' = NoFiles
  /\ opened' = {}
  /\ base' = b
  /\ next' = 1

OpenTemp ==
  /\ next <= Len(SectionNames)
  /\ disk' = Put(disk, TempName(base, SectionNames[next]), <<>>)
  /\ opened' = opened \cup {SectionNames[next]}
  /\ next' = next + 1
  /\ UNCHANGED <<files, base, faults>>

\* mutated: the streams are closed, the files stay
GdsDestroyKeeping ==
  /\ opened' = {}
  /\ UNCHANGED <<disk, files, base>>

\* gds_destroy closes what is open and removes it.
GdsDestroy ==
  /\ disk' = Unlink(disk, {TempName(base, s) : s \in opened})
  /\ opened' = {}
  /\ UNCHANGED <<files, base>>

OpenTempFails ==
  /\ next <= Len(SectionNames)
  /\ GdsDestroy
  /\ faults' = faults \cup {"temp"}
  /\ UNCHANGED next

-----------------------------------------------------------------------------
(* fprintf to a section, and gds_close_and_finalize *)

Write(section, content) ==
  /\ files' = [files EXCEPT ![section] = Append(@, Chunk(section, content))]
  /\ UNCHANGED <<disk, opened, base, next, faults>>

OpenFinal ==
  /\ disk' = Put(disk, FinalName(base), <<>>)
  /\ next' = 1
  /\ UNCHANGED <<files, opened, base, faults>>

OpenFinalFails ==
  /\ GdsDestroy
  /\ faults' = faults \cup {"final"}
  /\ UNCHANGED next

NoName == ""
Piece(name, file, header) == [name |-> name, file |-> file, header |-> header]

\* mutated: the text comes last
PiecesTextLast ==
  <<Piece("text", "func", TRUE), Piece("rodata", "rodata", TRUE), Piece("data", "data", TRUE),
    Piece("bss", "bss", TRUE), Piece(NoName, "text", FALSE)>>

\* The calls of append_and_cleanup_section.  The functions go under the name
\* "text"; the text after them has no header, and no name to be removed by.
Pieces ==
  <<Piece("text", "func", TRUE), Piece(NoName, "text", FALSE), Piece("rodata", "rodata", TRUE),
    Piece("data", "data", TRUE), Piece("bss", "bss", TRUE)>>

\* append_and_cleanup_section: an empty file leaves no trace.  n chunks arrive;
\* with fewer than there are, copying has failed and is only warned about.
AppendSection ==
  /\ next <= Len(Pieces)
  /\ LET p == Pieces[next]
         c == files[p.file]
         out == FinalName(base)
     IN  \E n \in 0 .. Len(c) :
           /\ disk' = Unlink(Put(disk, out,
                                 disk[out] \o (IF p.header /\ c # <<>> THEN <<Header(p.name)>> ELSE <<>>)
                                           \o SubSeq(c, 1, n)),
                             {TempName(base, p.name)})
           /\ opened' = opened \ {p.file}
           /\ faults' = IF n < Len(c) THEN faults \cup {"copy"} ELSE faults
  /\ next' = next + 1
  /\ UNCHANGED <<files, base>>

\* ftell has failed (-1): the section is left out.
SkipSection ==
  /\ next <= Len(Pieces)
  /\ disk' = Unlink(disk, {TempName(base, Pieces[next].name)})
  /\ opened' = opened \ {Pieces[next].file}
  /\ faults' = faults \cup {"copy"}
  /\ next' = next + 1
  /\ UNCHANGED <<files, base>>
=============================================================================
