---------------------------- MODULE SymbolTable ----------------------------
(***************************************************************************)
(* The symbol table of scope.c under every sequence of calls its interface *)
(* allows: scopes are entered, filled, left, looked up and destroyed.      *)
(***************************************************************************)
EXTENDS Scope

CONSTANTS
  MaxDepth,  \* bound of the model: scopes open at the same time
  MaxDefines \* bound of the model: calls of symbol_table_define

ASSUME SymbolTableAssumption ==
  /\ MaxDepth \in Nat
  /\ MaxDefines \in Nat

VARIABLES
  st,   \* the table
  alive \* FALSE after symbol_table_destroy

vars == <<st, alive>>

Init ==
  /\ st = CreateTable
  /\ alive = TRUE

Enter ==
  /\ alive
  /\ Depth(st) < MaxDepth
  /\ st' = EnterScope(st)
  /\ UNCHANGED alive

Exit ==
  /\ alive
  /\ st' = ExitScope(st)
  /\ UNCHANGED alive

DefineLocal(n) ==
  /\ alive
  /\ Len(st.infos) < MaxDefines
  /\ st' = Define(st, LocalVar(n))
  /\ UNCHANGED alive

\* A global variable or a function; both keep a label and no slot.
DefineOther(n) ==
  /\ alive
  /\ Len(st.infos) < MaxDefines
  /\ st' = Define(st, Info(n, "global", <<n>>))
  /\ UNCHANGED alive

Destroy ==
  /\ alive
  /\ st' = DestroyTable(st)
  /\ alive' = FALSE

Next ==
  \/ Enter \/ Exit \/ Destroy
  \/ \E n \in Names : DefineLocal(n) \/ DefineOther(n)

Spec == Init /\ [][Next]_vars

-----------------------------------------------------------------------------
(* Invariants *)

Ids == 1 .. Len(st.infos)
Live == Ids \ st.freed

InfoType ==
  [name : Names, kind : {"local", "global"}, offset : Nat, label : Seq(Names)]
ScopeType == [map : [Names -> Nat], offset : Nat]

TypeOK ==
  /\ st \in [scopes : Seq(ScopeType), infos : Seq(InfoType), freed : SUBSET Nat]
  /\ st.freed \subseteq Ids
  /\ \A d \in 1 .. Depth(st) : Entries(st.scopes[d]) \subseteq Ids
  /\ alive \in BOOLEAN
  /\ alive <=> st.scopes # <<>>

\* Scope d maps name n to information id.
Binds(d, n, id) == d \in 1 .. Depth(st) /\ id # NoInfo /\ st.scopes[d].map[n] = id

IsLocal(id) == st.infos[id].kind = "local"

\* Two local variables that are in some open scope at the same time, shadowed
\* or not, never share a stack slot, and every slot lies in the part of the
\* frame its scope has counted (the offset symbol_table_define returns is the
\* only address codegen.c gives to a variable).
SlotsDisjoint ==
  \A d, e \in 1 .. Depth(st) : \A n, m \in Names : \A a, b \in Ids :
    Binds(d, n, a) /\ IsLocal(a) =>
      /\ st.infos[a].offset \in SlotSize .. st.scopes[d].offset
      /\ Binds(e, m, b) /\ IsLocal(b) /\ a # b => st.infos[a].offset # st.infos[b].offset

\* Ownership of the SymbolInfo objects: one is freed when it is replaced or
\* its scope goes, and only then.  No open scope answers a lookup with a freed
\* object, and an object that is not freed is held by exactly one entry.
InfosOwned ==
  /\ \A d \in 1 .. Depth(st) : Entries(st.scopes[d]) \cap st.freed = {}
  /\ \A id \in Live : \E d \in 1 .. Depth(st), n \in Names : Binds(d, n, id)
  /\ \A d, e \in 1 .. Depth(st) : \A n, m \in Names : \A id \in Live :
       Binds(d, n, id) /\ Binds(e, m, id) => d = e /\ n = m

\* Lexical scoping, seen without scopes: a name means the most recent of its
\* definitions that is still alive, and nothing when there is none
\* (symbol_table_lookup walks the chain from the current scope outwards).
LookupIsLatest ==
  alive => \A n \in Names :
    LET alternatives == {id \in Live : st.infos[id].name = n}
        found        == Lookup(st, n)
    IN  IF alternatives = {} THEN found = NoInfo
        ELSE found \in alternatives /\ \A id \in alternatives : id <= found
=============================================================================
