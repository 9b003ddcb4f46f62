------------------------------- MODULE Scope -------------------------------
(***************************************************************************)
(* struct SymbolInfo (symbol.h) and the operations of struct SymbolTable   *)
(* (scope.c) as functions from a table to the table they leave behind.     *)
(*                                                                         *)
(* A table is a record of the chain of scopes, global scope first; the     *)
(* SymbolInfo objects ever allocated, by identity; and the identities that *)
(* have been freed.  The symbol map of a scope is the abstract map that    *)
(* module SymbolMap is shown to implement: a name is mapped to the         *)
(* identity of its information, or to 0.                                   *)
(***************************************************************************)
EXTENDS Naturals, Sequences

CONSTANT Names \* the names that occur in programs

NoInfo == 0

\* The size of a stack slot, and the step of current_stack_offset.
SlotSize == 8

\* The members of the union location that the kinds use, side by side.
Info(name, kind, label) ==
  [name |-> name, kind |-> kind, offset |-> 0, label |-> label]

\* symbol_make_local_var; its stack offset is assigned by Define.
LocalVar(name) == Info(name, "local", <<>>)

EmptyScope(offset) == [map |-> [n \in Names |-> NoInfo], offset |-> offset]

CreateTable == [scopes |-> <<EmptyScope(0)>>, infos |-> <<>>, freed |-> {}]

Depth(st) == Len(st.scopes)
Current(st) == st.scopes[Depth(st)]
Entries(scope) == {scope.map[n] : n \in Names} \ {NoInfo}

\* mutated: counting starts again
EnterScopeFromZero(st) == [st EXCEPT !.scopes = Append(@, EmptyScope(0))]

\* A new scope goes on counting from the offset of its parent.
EnterScope(st) ==
  [st EXCEPT !.scopes = Append(@, EmptyScope(Current(st).offset))]

\* mutated: the global scope is left like any other
ExitAnyScope(st) ==
  [st EXCEPT !.scopes = SubSeq(@, 1, Depth(st) - 1),
             !.freed  = @ \cup Entries(Current(st))]

\* The global scope is never left.  Leaving a scope frees its informations.
ExitScope(st) ==
  IF Depth(st) = 1 THEN st
  ELSE [st EXCEPT !.scopes = SubSeq(@, 1, Depth(st) - 1),
                  !.freed  = @ \cup Entries(Current(st))]

\* mutated: the replaced information is not freed
DefineLeaking(st, info) ==
  LET d      == Depth(st)
      offset == Current(st).offset + (IF info.kind = "local" THEN SlotSize ELSE 0)
      placed == IF info.kind = "local" THEN [info EXCEPT !.offset = offset] ELSE info
      id     == Len(st.infos) + 1
  IN  [st EXCEPT !.scopes[d].map[info.name] = id,
                 !.scopes[d].offset = offset,
                 !.infos = Append(@, placed)]

\* mutated: the slot is assigned before the offset is advanced
DefineThenAdvance(st, info) ==
  LET d      == Depth(st)
      offset == Current(st).offset
      placed == IF info.kind = "local" THEN [info EXCEPT !.offset = offset] ELSE info
      id     == Len(st.infos) + 1
      old    == Current(st).map[info.name]
  IN  [scopes |-> [st.scopes EXCEPT
                     ![d].map[info.name] = id,
                     ![d].offset = offset + (IF info.kind = "local" THEN SlotSize ELSE 0)],
       infos  |-> Append(st.infos, placed),
       freed  |-> st.freed \cup ({old} \ {NoInfo})]

\* symbol_table_define: a local variable takes the next slot of the current
\* scope; the map of the current scope then maps the name to the information
\* and frees the one it replaces.
Define(st, info) ==
  LET d      == Depth(st)
      offset == Current(st).offset + (IF info.kind = "local" THEN SlotSize ELSE 0)
      placed == IF info.kind = "local" THEN [info EXCEPT !.offset = offset] ELSE info
      id     == Len(st.infos) + 1
      old    == Current(st).map[info.name]
  IN  [scopes |-> [st.scopes EXCEPT
                     ![d] = [map    |-> [@.map EXCEPT ![info.name] = id],
                             offset |-> offset]],
       infos  |-> Append(st.infos, placed),
       freed  |-> st.freed \cup ({old} \ {NoInfo})]

\* What symbol_table_define returns: the slot of what it has defined.
ReturnedOffset(st) == st.infos[Len(st.infos)].offset

\* mutated: the outermost scope decides
LookupOutermost(st, name) ==
  LET knowing == {d \in 1 .. Depth(st) : st.scopes[d].map[name] # NoInfo}
  IN  IF knowing = {} THEN NoInfo
      ELSE LET d == CHOOSE d \in knowing : \A c \in knowing : d <= c
           IN  st.scopes[d].map[name]

\* symbol_table_lookup: the innermost scope that knows the name decides.
Lookup(st, name) ==
  LET knowing == {d \in 1 .. Depth(st) : st.scopes[d].map[name] # NoInfo}
  IN  IF knowing = {} THEN NoInfo
      ELSE LET d == CHOOSE d \in knowing : \A c \in knowing : c <= d
           IN  st.scopes[d].map[name]

\* symbol_table_destroy: the scopes from the current one up to the global one.
DestroyTable(st) ==
  [st EXCEPT !.scopes = <<>>,
             !.freed  = @ \cup UNION {Entries(st.scopes[d]) : d \in 1 .. Depth(st)}]
=============================================================================
