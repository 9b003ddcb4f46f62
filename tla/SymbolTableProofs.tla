------------------------- MODULE SymbolTableProofs -------------------------
(***************************************************************************)
(* The properties of the symbol table, for any set of names, any nesting   *)
(* of scopes and any number of definitions.                                *)
(***************************************************************************)
EXTENDS SymbolTable, TLAPS

-----------------------------------------------------------------------------
(* What the operations of Scope do, one component of the table at a time *)

Last == Depth(st)
NewId == Len(st.infos) + 1

Step(info) == IF info.kind = "local" THEN SlotSize ELSE 0
Advanced(info) == Current(st).offset + Step(info)

\* The scopes, informations and freed objects after symbol_table_define.
LEMMA DefineEffect ==
  ASSUME TypeOK, alive, NEW info \in InfoType, st' = Define(st, info)
  PROVE  /\ Last \in Nat \ {0}
         /\ Depth(st)' = Last
         /\ st' \in [scopes : Seq(ScopeType), infos : Seq(InfoType), freed : SUBSET Nat]
         /\ \A d \in 1 .. Last : d # Last => st'.scopes[d] = st.scopes[d]
         /\ st'.scopes[Last].map = [st.scopes[Last].map EXCEPT ![info.name] = NewId]
         /\ st'.scopes[Last].offset = Advanced(info)
         /\ Len(st'.infos) = NewId
         /\ \A i \in 1 .. Len(st.infos) : st'.infos[i] = st.infos[i]
         /\ st'.infos[NewId] =
              IF info.kind = "local" THEN [info EXCEPT !.offset = Advanced(info)] ELSE info
         /\ st'.freed = st.freed \cup ({st.scopes[Last].map[info.name]} \ {NoInfo})
<1> DEFINE placed == IF info.kind = "local" THEN [info EXCEPT !.offset = Advanced(info)] ELSE info
           scope  == [map |-> [st.scopes[Last].map EXCEPT ![info.name] = NewId],
                      offset |-> Advanced(info)]
<1>1. st \in [scopes : Seq(ScopeType), infos : Seq(InfoType), freed : SUBSET Nat]
  BY DEF TypeOK
<1>2. st.scopes \in Seq(ScopeType) /\ st.scopes # <<>> /\ Last \in Nat \ {0}
  BY <1>1 DEF TypeOK, Last, Depth
<1>3. st.scopes[Last] \in ScopeType /\ Current(st) = st.scopes[Last]
  BY <1>2 DEF Last, Depth, Current
<1>4. st.infos \in Seq(InfoType) /\ NewId \in Nat
  BY <1>1 DEF NewId
<1>5. Advanced(info) \in Nat
  BY <1>3 DEF Advanced, Step, ScopeType, SlotSize
<1>6. placed \in InfoType
  BY <1>5 DEF InfoType
<1>7. scope \in ScopeType
  BY <1>3, <1>4, <1>5 DEF ScopeType, InfoType
<1>8. st' = [scopes |-> [st.scopes EXCEPT ![Last] = scope],
             infos  |-> Append(st.infos, placed),
             freed  |-> st.freed \cup ({st.scopes[Last].map[info.name]} \ {NoInfo})]
  BY <1>2, <1>3 DEF Define, Last, Depth, Current, NewId, Advanced, Step
<1>9. st.scopes[Last].map[info.name] \in Nat
  BY <1>3 DEF ScopeType, InfoType
<1> HIDE DEF placed, scope
<1>10. /\ [st.scopes EXCEPT ![Last] = scope] \in Seq(ScopeType)
       /\ Len([st.scopes EXCEPT ![Last] = scope]) = Last
  BY <1>2, <1>7 DEF Last, Depth
<1>11. /\ Append(st.infos, placed) \in Seq(InfoType)
       /\ Len(Append(st.infos, placed)) = NewId
       /\ Append(st.infos, placed)[NewId] = placed
       /\ \A i \in 1 .. Len(st.infos) : Append(st.infos, placed)[i] = st.infos[i]
  BY <1>4, <1>6 DEF NewId
<1>12. st.freed \in SUBSET Nat
  BY <1>1
<1>13. \A d \in 1 .. Last : [st.scopes EXCEPT ![Last] = scope][d]
                              = IF d = Last THEN scope ELSE st.scopes[d]
  BY <1>2 DEF Last, Depth
<1>14. /\ st'.scopes = [st.scopes EXCEPT ![Last] = scope]
       /\ st'.infos = Append(st.infos, placed)
       /\ st'.freed = st.freed \cup ({st.scopes[Last].map[info.name]} \ {NoInfo})
  BY <1>8
<1>15. st' \in [scopes : Seq(ScopeType), infos : Seq(InfoType), freed : SUBSET Nat]
  BY <1>8, <1>9, <1>10, <1>11, <1>12
<1>16. Depth(st)' = Last
  BY <1>10, <1>14 DEF Depth
<1>17. st'.scopes[Last] = scope
  BY <1>2, <1>13, <1>14
<1> QED
  BY <1>2, <1>11, <1>13, <1>14, <1>15, <1>16, <1>17 DEF placed, scope

\* symbol_table_enter_scope adds an empty scope at the end of the chain.
LEMMA EnterEffect ==
  ASSUME TypeOK, alive, st' = EnterScope(st)
  PROVE  /\ Last \in Nat \ {0}
         /\ Depth(st)' = Last + 1
         /\ st' \in [scopes : Seq(ScopeType), infos : Seq(InfoType), freed : SUBSET Nat]
         /\ \A d \in 1 .. Last : st'.scopes[d] = st.scopes[d]
         /\ st'.scopes[Last + 1] = EmptyScope(st.scopes[Last].offset)
         /\ st'.infos = st.infos
         /\ st'.freed = st.freed
<1>1. st \in [scopes : Seq(ScopeType), infos : Seq(InfoType), freed : SUBSET Nat]
  BY DEF TypeOK
<1>2. st.scopes \in Seq(ScopeType) /\ Last \in Nat \ {0}
  BY <1>1 DEF TypeOK, Last, Depth
<1>3. st.scopes[Last] \in ScopeType /\ Current(st) = st.scopes[Last]
  BY <1>2 DEF Last, Depth, Current
<1>4. EmptyScope(st.scopes[Last].offset) \in ScopeType
  BY <1>3 DEF EmptyScope, ScopeType, NoInfo
<1>5. st' = [st EXCEPT !.scopes = Append(@, EmptyScope(st.scopes[Last].offset))]
  BY <1>3 DEF EnterScope
<1> DEFINE new == EmptyScope(st.scopes[Last].offset)
<1>7. /\ Append(st.scopes, new) \in Seq(ScopeType)
      /\ Len(Append(st.scopes, new)) = Last + 1
      /\ Append(st.scopes, new)[Last + 1] = new
      /\ \A d \in 1 .. Last : Append(st.scopes, new)[d] = st.scopes[d]
  BY <1>2, <1>4 DEF Last, Depth
<1>8. st'.scopes = Append(st.scopes, new) /\ st'.infos = st.infos /\ st'.freed = st.freed
  BY <1>1, <1>5
<1>9. st' \in [scopes : Seq(ScopeType), infos : Seq(InfoType), freed : SUBSET Nat]
  BY <1>1, <1>5, <1>7, <1>8
<1> QED
  BY <1>2, <1>7, <1>8, <1>9 DEF Depth

\* symbol_table_exit_scope drops the last scope and frees what it holds, or
\* does nothing in the global scope.
LEMMA ExitEffect ==
  ASSUME TypeOK, alive, st' = ExitScope(st)
  PROVE  /\ Last \in Nat \ {0}
         /\ \/ st' = st
            \/ /\ Last > 1
               /\ Depth(st)' = Last - 1
               /\ st' \in [scopes : Seq(ScopeType), infos : Seq(InfoType), freed : SUBSET Nat]
               /\ \A d \in 1 .. Last - 1 : st'.scopes[d] = st.scopes[d]
               /\ st'.infos = st.infos
               /\ st'.freed = st.freed \cup Entries(st.scopes[Last])
<1>1. st \in [scopes : Seq(ScopeType), infos : Seq(InfoType), freed : SUBSET Nat]
  BY DEF TypeOK
<1>2. st.scopes \in Seq(ScopeType) /\ Last \in Nat \ {0}
  BY <1>1 DEF TypeOK, Last, Depth
<1>3. CASE Last = 1
  BY <1>2, <1>3 DEF ExitScope, Last
<1>4. CASE Last > 1
  <2>1. st' = [st EXCEPT !.scopes = SubSeq(@, 1, Last - 1),
                         !.freed  = @ \cup Entries(Current(st))]
    BY <1>2, <1>4 DEF ExitScope, Last
  <2>2. Current(st) = st.scopes[Last] /\ Last \in 1 .. Len(st.scopes)
    BY <1>2 DEF Current, Last, Depth
  <2>3. /\ SubSeq(st.scopes, 1, Last - 1) \in Seq(ScopeType)
        /\ Len(SubSeq(st.scopes, 1, Last - 1)) = Last - 1
        /\ \A d \in 1 .. Last - 1 : SubSeq(st.scopes, 1, Last - 1)[d] = st.scopes[d]
    BY <1>2, <1>4 DEF Last, Depth
  <2>4. Entries(st.scopes[Last]) \subseteq Nat
    <3>1. st.scopes[Last] \in ScopeType
      BY <1>2, <2>2
    <3>2. \A n \in Names : st.scopes[Last].map[n] \in Nat
      BY <3>1 DEF ScopeType
    <3> QED
      BY <3>2 DEF Entries
  <2>5. st'.freed = st.freed \cup Entries(st.scopes[Last]) /\ st'.freed \in SUBSET Nat
    BY <1>1, <2>1, <2>2, <2>4
  <2>6. st'.scopes = SubSeq(st.scopes, 1, Last - 1) /\ st'.infos = st.infos
    BY <1>1, <2>1
  <2>7. st' \in [scopes : Seq(ScopeType), infos : Seq(InfoType), freed : SUBSET Nat]
    BY <1>1, <2>1, <2>3, <2>5, <2>6
  <2> QED
    BY <1>2, <1>4, <2>3, <2>5, <2>6, <2>7 DEF Depth
<1> QED
  BY <1>2, <1>3, <1>4

\* symbol_table_destroy drops every scope and frees what they hold.
LEMMA DestroyEffect ==
  ASSUME TypeOK, st' = DestroyTable(st)
  PROVE  /\ Depth(st)' = 0
         /\ st'.scopes = <<>>
         /\ st' \in [scopes : Seq(ScopeType), infos : Seq(InfoType), freed : SUBSET Nat]
         /\ st'.infos = st.infos
         /\ st'.freed = st.freed \cup UNION {Entries(st.scopes[d]) : d \in 1 .. Last}
<1>1. st \in [scopes : Seq(ScopeType), infos : Seq(InfoType), freed : SUBSET Nat]
  BY DEF TypeOK
<1>2. \A d \in 1 .. Last : Entries(st.scopes[d]) \subseteq Nat
  <2>1. Ids \subseteq Nat
    BY <1>1 DEF Ids
  <2> QED
    BY <2>1 DEF TypeOK, Last
<1>3. st' = [st EXCEPT !.scopes = <<>>,
                       !.freed  = @ \cup UNION {Entries(st.scopes[d]) : d \in 1 .. Last}]
  BY DEF DestroyTable, Last
<1>4. <<>> \in Seq(ScopeType) /\ Len(<<>>) = 0
  OBVIOUS
<1>5. st.freed \cup UNION {Entries(st.scopes[d]) : d \in 1 .. Last} \in SUBSET Nat
  BY <1>1, <1>2
<1> QED
  BY <1>1, <1>3, <1>4, <1>5 DEF Depth

-----------------------------------------------------------------------------
(* The inductive invariant *)

\* The offset grows from the global scope inwards.
Monotone ==
  \A c, d \in 1 .. Depth(st) : c <= d => st.scopes[c].offset <= st.scopes[d].offset

\* The slots of a scope lie above those of the scopes around it.
Placed ==
  \A d \in 1 .. Depth(st), n \in Names, id \in Ids :
    Binds(d, n, id) /\ IsLocal(id) =>
      /\ SlotSize <= st.infos[id].offset
      /\ st.infos[id].offset <= st.scopes[d].offset
      /\ \A c \in 1 .. d - 1 : st.scopes[c].offset < st.infos[id].offset

Distinct ==
  \A d \in 1 .. Depth(st), n, m \in Names, a, b \in Ids :
    Binds(d, n, a) /\ Binds(d, m, b) /\ IsLocal(a) /\ IsLocal(b) /\ a # b =>
      st.infos[a].offset # st.infos[b].offset

EntriesLive ==
  \A d \in 1 .. Depth(st), n \in Names, id \in Ids :
    Binds(d, n, id) => id \notin st.freed /\ st.infos[id].name = n

LiveHeld == \A id \in Live : \E d \in 1 .. Depth(st), n \in Names : Binds(d, n, id)

\* What an inner scope holds was defined after what the outer scopes hold.
Ordered ==
  \A d, e \in 1 .. Depth(st), n, m \in Names, a, b \in Ids :
    Binds(d, n, a) /\ Binds(e, m, b) /\ d < e => a < b

\* Among the k outermost scopes that know a name there is an innermost one,
\* for every k, so that this survives the scopes being left one by one.
Innermost ==
  \A k \in 1 .. Depth(st), n \in Names :
    \/ \A c \in 1 .. k : st.scopes[c].map[n] = NoInfo
    \/ \E d \in 1 .. k : /\ st.scopes[d].map[n] # NoInfo
                         /\ \A c \in d + 1 .. k : st.scopes[c].map[n] = NoInfo

IInv ==
  /\ TypeOK
  /\ Monotone /\ Placed /\ Distinct
  /\ EntriesLive /\ LiveHeld /\ Ordered
  /\ Innermost

\* The facts about types the steps below need, spelled out.
LEMMA Types ==
  ASSUME TypeOK
  PROVE  /\ Depth(st) \in Nat
         /\ Len(st.infos) \in Nat
         /\ \A d \in 1 .. Depth(st) :
              /\ st.scopes[d].map \in [Names -> Nat]
              /\ st.scopes[d].offset \in Nat
              /\ \A n \in Names : st.scopes[d].map[n] # NoInfo => st.scopes[d].map[n] \in Ids
         /\ \A id \in Ids : /\ id \in Nat \ {0}
                            /\ st.infos[id] \in InfoType
                            /\ st.infos[id].offset \in Nat
         /\ st.freed \subseteq Ids
         /\ st.freed \in SUBSET Nat
<1>1. st \in [scopes : Seq(ScopeType), infos : Seq(InfoType), freed : SUBSET Nat]
  BY DEF TypeOK
<1>2. \A d \in 1 .. Depth(st) : st.scopes[d] \in ScopeType
  BY <1>1 DEF Depth
<1>3. \A id \in Ids : st.infos[id] \in InfoType
  BY <1>1 DEF Ids
<1>4. \A d \in 1 .. Depth(st), n \in Names :
        st.scopes[d].map[n] # NoInfo => st.scopes[d].map[n] \in Ids
  BY DEF TypeOK, Entries
<1>5. Depth(st) \in Nat /\ Len(st.infos) \in Nat
  BY <1>1 DEF Depth
<1>6. \A d \in 1 .. Depth(st) : st.scopes[d].map \in [Names -> Nat] /\ st.scopes[d].offset \in Nat
  BY <1>2 DEF ScopeType
<1>7. \A id \in Ids : id \in Nat \ {0} /\ st.infos[id].offset \in Nat
  BY <1>3, <1>5 DEF InfoType, Ids
<1> QED
  BY <1>1, <1>3, <1>4, <1>5, <1>6, <1>7 DEF TypeOK

-----------------------------------------------------------------------------
(* The initial table and symbol_table_destroy *)

LEMMA InitIInv == Init => IInv
<1> SUFFICES ASSUME Init PROVE IInv
  OBVIOUS
<1>1. /\ st = CreateTable
      /\ alive = TRUE
  BY DEF Init
<1>2. /\ st.scopes = <<EmptyScope(0)>>
      /\ st.infos = <<>>
      /\ st.freed = {}
      /\ EmptyScope(0) \in ScopeType
  BY <1>1 DEF CreateTable, EmptyScope, ScopeType, NoInfo
<1>3. /\ Depth(st) = 1 /\ 1 .. Depth(st) = {1}
      /\ st.scopes[1] = EmptyScope(0)
      /\ Ids = {}
  BY <1>2 DEF Depth, Ids
<1>4. \A n \in Names : st.scopes[1].map[n] = NoInfo
  <2>1. EmptyScope(0).map = [n \in Names |-> NoInfo]
    BY DEF EmptyScope
  <2> QED
    BY <1>3, <2>1
<1>5. Entries(st.scopes[1]) = {}
  BY <1>4 DEF Entries
<1>6. st \in [scopes : Seq(ScopeType), infos : Seq(InfoType), freed : SUBSET Nat]
  BY <1>1, <1>2 DEF CreateTable
<1>7. TypeOK
  BY <1>1, <1>2, <1>3, <1>5, <1>6 DEF TypeOK
<1>8. Monotone
  BY <1>3 DEF Monotone, EmptyScope
<1>9. Placed /\ Distinct /\ EntriesLive /\ LiveHeld /\ Ordered
  BY <1>3 DEF Placed, Distinct, EntriesLive, LiveHeld, Ordered, Live
<1>10. Innermost
  BY <1>3, <1>4 DEF Innermost
<1> QED
  BY <1>7, <1>8, <1>9, <1>10 DEF IInv

LEMMA DestroyIInv == IInv /\ Destroy => IInv'
<1> SUFFICES ASSUME IInv, Destroy PROVE IInv'
  OBVIOUS
<1>1. TypeOK /\ EntriesLive /\ LiveHeld
  BY DEF IInv
<1>2. st' = DestroyTable(st) /\ alive' = FALSE
  BY DEF Destroy
<1>3. /\ Depth(st)' = 0
      /\ st'.scopes = <<>>
      /\ st' \in [scopes : Seq(ScopeType), infos : Seq(InfoType), freed : SUBSET Nat]
      /\ st'.infos = st.infos
      /\ st'.freed = st.freed \cup UNION {Entries(st.scopes[d]) : d \in 1 .. Last}
  BY <1>1, <1>2, DestroyEffect
<1>4. Ids' = Ids /\ 1 .. Depth(st)' = {}
  BY <1>3 DEF Ids
<1>5. Ids \subseteq st'.freed
  <2>1. SUFFICES ASSUME NEW id \in Ids, id \notin st.freed PROVE id \in st'.freed
    BY <1>3
  <2>2. PICK d \in 1 .. Depth(st), n \in Names : Binds(d, n, id)
    BY <1>1, <2>1 DEF LiveHeld, Live
  <2>3. id \in Entries(st.scopes[d])
    BY <2>2 DEF Binds, Entries
  <2> QED
    BY <1>3, <2>3 DEF Last
<1>6. st'.freed \subseteq Ids
  BY <1>1, <1>3 DEF TypeOK, Last
<1>7. TypeOK'
  BY <1>2, <1>3, <1>4, <1>6 DEF TypeOK
<1>8. LiveHeld'
  BY <1>4, <1>5 DEF LiveHeld, Live
<1> QED
  BY <1>4, <1>7, <1>8 DEF IInv, Monotone, Placed, Distinct, EntriesLive, Ordered, Innermost

-----------------------------------------------------------------------------
(* symbol_table_enter_scope *)

LEMMA EnterIInv == IInv /\ Enter => IInv'
<1> SUFFICES ASSUME IInv, Enter PROVE IInv'
  OBVIOUS
<1>1. TypeOK /\ alive /\ alive' = alive /\ st' = EnterScope(st)
  BY DEF IInv, Enter
<1>2. /\ Last \in Nat \ {0}
      /\ Depth(st)' = Last + 1
      /\ st' \in [scopes : Seq(ScopeType), infos : Seq(InfoType), freed : SUBSET Nat]
      /\ \A d \in 1 .. Last : st'.scopes[d] = st.scopes[d]
      /\ st'.scopes[Last + 1] = EmptyScope(st.scopes[Last].offset)
      /\ st'.infos = st.infos
      /\ st'.freed = st.freed
  BY <1>1, EnterEffect
<1>3. /\ Ids' = Ids /\ Live' = Live
      /\ \A id \in Ids : IsLocal(id)' = IsLocal(id)
  BY <1>2 DEF Ids, Live, IsLocal
<1>4. /\ \A n \in Names : st'.scopes[Last + 1].map[n] = NoInfo
      /\ st'.scopes[Last + 1].offset = st.scopes[Last].offset
  BY <1>2 DEF EmptyScope
<1>5. Depth(st) = Last
  BY DEF Last
<1>6. \A d \in 1 .. Last + 1, n \in Names, id \in Ids :
        Binds(d, n, id)' <=> d # Last + 1 /\ Binds(d, n, id)
  BY <1>2, <1>4, <1>5 DEF Binds
<1>7. TypeOK'
  <2>1. \A d \in 1 .. Last : Entries(st'.scopes[d]) \subseteq Ids
    BY <1>1, <1>2, <1>5 DEF TypeOK
  <2>2. Entries(st'.scopes[Last + 1]) = {}
    BY <1>4 DEF Entries
  <2>3. \A d \in 1 .. Last + 1 : Entries(st'.scopes[d]) \subseteq Ids
    BY <1>2, <2>1, <2>2
  <2>4. st'.scopes # <<>>
    BY <1>2 DEF Depth
  <2> QED
    BY <1>1, <1>2, <1>3, <2>3, <2>4 DEF TypeOK
<1>8. Monotone'
  <2> SUFFICES ASSUME NEW c \in 1 .. Last + 1, NEW d \in 1 .. Last + 1, c <= d
               PROVE  st'.scopes[c].offset <= st'.scopes[d].offset
    BY <1>2 DEF Monotone
  <2>1. Last \in 1 .. Depth(st) /\ st.scopes[Last].offset \in Nat
    BY <1>1, <1>2, <1>5, Types
  <2>2. CASE d \in 1 .. Last
    <3>1. c \in 1 .. Depth(st) /\ d \in 1 .. Depth(st)
      BY <1>2, <1>5, <2>2
    <3>2. st.scopes[c].offset <= st.scopes[d].offset
      BY <3>1 DEF IInv, Monotone
    <3> QED
      BY <1>2, <1>5, <3>1, <3>2
  <2>3. CASE d = Last + 1 /\ c \in 1 .. Last
    <3>1. c \in 1 .. Depth(st) /\ c <= Last
      BY <1>2, <1>5, <2>3
    <3>2. st.scopes[c].offset <= st.scopes[Last].offset
      BY <2>1, <3>1 DEF IInv, Monotone
    <3> QED
      BY <1>2, <1>4, <2>3, <3>2
  <2>4. CASE d = Last + 1 /\ c = Last + 1
    BY <1>4, <2>1, <2>4
  <2> QED
    BY <1>2, <2>2, <2>3, <2>4
<1>9. Placed'
  <2> SUFFICES ASSUME NEW d \in 1 .. Last + 1, NEW n \in Names, NEW id \in Ids,
                      Binds(d, n, id)', IsLocal(id)
               PROVE  /\ SlotSize <= st.infos[id].offset
                      /\ st.infos[id].offset <= st'.scopes[d].offset
                      /\ \A c \in 1 .. d - 1 : st'.scopes[c].offset < st.infos[id].offset
    BY <1>2, <1>3 DEF Placed
  <2>1. d \in 1 .. Depth(st) /\ Binds(d, n, id)
    BY <1>2, <1>5, <1>6
  <2>2. /\ SlotSize <= st.infos[id].offset
        /\ st.infos[id].offset <= st.scopes[d].offset
        /\ \A c \in 1 .. d - 1 : st.scopes[c].offset < st.infos[id].offset
    BY <2>1 DEF IInv, Placed
  <2>3. \A c \in 1 .. d : st'.scopes[c] = st.scopes[c]
    BY <1>2, <1>5, <2>1
  <2> QED
    BY <1>2, <1>5, <2>1, <2>2, <2>3
<1>10. Distinct' /\ EntriesLive' /\ Ordered'
  \* The entries of every scope that was there are what they were.
  <2>1. \A d \in 1 .. Last + 1, n \in Names, id \in Ids :
          Binds(d, n, id)' => d \in 1 .. Depth(st) /\ Binds(d, n, id)
    BY <1>2, <1>5, <1>6
  <2>2. Distinct'
    <3> SUFFICES ASSUME NEW d \in 1 .. Last + 1, NEW n \in Names, NEW m \in Names,
                        NEW a \in Ids, NEW b \in Ids,
                        Binds(d, n, a)', Binds(d, m, b)', IsLocal(a), IsLocal(b), a # b
                 PROVE  st.infos[a].offset # st.infos[b].offset
      BY <1>2, <1>3 DEF Distinct
    <3> QED
      BY <2>1 DEF IInv, Distinct
  <2>3. EntriesLive'
    <3> SUFFICES ASSUME NEW d \in 1 .. Last + 1, NEW n \in Names, NEW id \in Ids, Binds(d, n, id)'
                 PROVE  id \notin st.freed /\ st.infos[id].name = n
      BY <1>2, <1>3 DEF EntriesLive
    <3> QED
      BY <2>1 DEF IInv, EntriesLive
  <2>4. Ordered'
    <3> SUFFICES ASSUME NEW d \in 1 .. Last + 1, NEW e \in 1 .. Last + 1,
                        NEW n \in Names, NEW m \in Names, NEW a \in Ids, NEW b \in Ids,
                        Binds(d, n, a)', Binds(e, m, b)', d < e
                 PROVE  a < b
      BY <1>2, <1>3 DEF Ordered
    <3> QED
      BY <2>1 DEF IInv, Ordered
  <2> QED
    BY <2>2, <2>3, <2>4
<1>11. LiveHeld'
  BY <1>1, <1>2, <1>3, <1>5, <1>6 DEF IInv, LiveHeld, Live
<1>12. Innermost'
  <2> SUFFICES ASSUME NEW k \in 1 .. Last + 1, NEW n \in Names
               PROVE  \/ \A c \in 1 .. k : st'.scopes[c].map[n] = NoInfo
                      \/ \E d \in 1 .. k : /\ st'.scopes[d].map[n] # NoInfo
                                           /\ \A c \in d + 1 .. k : st'.scopes[c].map[n] = NoInfo
    BY <1>2 DEF Innermost
  <2>1. CASE k \in 1 .. Last
    <3>1. \/ \A c \in 1 .. k : st.scopes[c].map[n] = NoInfo
          \/ \E d \in 1 .. k : /\ st.scopes[d].map[n] # NoInfo
                               /\ \A c \in d + 1 .. k : st.scopes[c].map[n] = NoInfo
      BY <1>5, <2>1 DEF IInv, Innermost
    <3>2. \A c \in 1 .. k : st'.scopes[c].map[n] = st.scopes[c].map[n]
      BY <1>2, <2>1
    <3> QED
      BY <2>1, <3>1, <3>2
  <2>2. CASE k = Last + 1
    <3>0. Last \in 1 .. Depth(st)
      BY <1>2, <1>5
    <3>1. \/ \A c \in 1 .. Last : st.scopes[c].map[n] = NoInfo
          \/ \E d \in 1 .. Last : /\ st.scopes[d].map[n] # NoInfo
                                  /\ \A c \in d + 1 .. Last : st.scopes[c].map[n] = NoInfo
      BY <3>0 DEF IInv, Innermost
    <3>2. \A c \in 1 .. Last : st'.scopes[c].map[n] = st.scopes[c].map[n]
      BY <1>2
    <3>3. CASE \A c \in 1 .. Last : st.scopes[c].map[n] = NoInfo
      BY <1>2, <1>4, <2>2, <3>2, <3>3
    <3>4. CASE \E d \in 1 .. Last : /\ st.scopes[d].map[n] # NoInfo
                                     /\ \A c \in d + 1 .. Last : st.scopes[c].map[n] = NoInfo
      <4>1. PICK d \in 1 .. Last : /\ st.scopes[d].map[n] # NoInfo
                                   /\ \A c \in d + 1 .. Last : st.scopes[c].map[n] = NoInfo
        BY <3>4
      <4>2. \A c \in d + 1 .. k : st'.scopes[c].map[n] = NoInfo
        BY <1>2, <1>4, <2>2, <3>2, <4>1
      <4> QED
        BY <1>2, <2>2, <3>2, <4>1, <4>2
    <3> QED
      BY <3>1, <3>3, <3>4
  <2> QED
    BY <1>2, <2>1, <2>2
<1> QED
  BY <1>7, <1>8, <1>9, <1>10, <1>11, <1>12 DEF IInv

-----------------------------------------------------------------------------
(* symbol_table_exit_scope *)

LEMMA ExitIInv == IInv /\ Exit => IInv'
<1> SUFFICES ASSUME IInv, Exit PROVE IInv'
  OBVIOUS
<1>1. TypeOK /\ alive /\ alive' = alive /\ st' = ExitScope(st)
  BY DEF IInv, Exit
<1>2. Last \in Nat \ {0} /\ Depth(st) = Last
  BY <1>1, ExitEffect DEF Last
<1>3. CASE st' = st
  BY <1>1, <1>3 DEF IInv, TypeOK, Monotone, Placed, Distinct, EntriesLive, LiveHeld, Ordered,
                    Innermost, Binds, IsLocal, Ids, Live, Depth
<1>4. CASE /\ Last > 1
           /\ Depth(st)' = Last - 1
           /\ st' \in [scopes : Seq(ScopeType), infos : Seq(InfoType), freed : SUBSET Nat]
           /\ \A d \in 1 .. Last - 1 : st'.scopes[d] = st.scopes[d]
           /\ st'.infos = st.infos
           /\ st'.freed = st.freed \cup Entries(st.scopes[Last])
  <2>1. /\ Ids' = Ids
        /\ \A id \in Ids : IsLocal(id)' = IsLocal(id)
    BY <1>4 DEF Ids, IsLocal
  <2>2. \A d \in 1 .. Last - 1 : d \in 1 .. Depth(st)
    BY <1>2
  <2>3. \A d \in 1 .. Last - 1, n \in Names, id \in Ids : Binds(d, n, id)' <=> Binds(d, n, id)
    BY <1>2, <1>4 DEF Binds
  <2>4. Last \in 1 .. Depth(st)
    BY <1>2
  <2>5. TypeOK'
    <3>1. \A d \in 1 .. Depth(st)' : Entries(st'.scopes[d]) \subseteq Ids'
      BY <1>1, <1>4, <2>1, <2>2 DEF TypeOK
    <3>2. st'.scopes # <<>>
      BY <1>2, <1>4 DEF Depth
    <3>3. st'.freed \subseteq Ids'
      BY <1>1, <1>4, <2>1, <2>4 DEF TypeOK
    <3> QED
      BY <1>1, <1>4, <3>1, <3>2, <3>3 DEF TypeOK
  <2>6. Monotone'
    BY <1>4, <2>2 DEF IInv, Monotone
  <2>7. Placed'
    <3> SUFFICES ASSUME NEW d \in 1 .. Last - 1, NEW n \in Names, NEW id \in Ids,
                        Binds(d, n, id), IsLocal(id)
                 PROVE  /\ SlotSize <= st.infos[id].offset
                        /\ st.infos[id].offset <= st'.scopes[d].offset
                        /\ \A c \in 1 .. d - 1 : st'.scopes[c].offset < st.infos[id].offset
      BY <1>4, <2>1, <2>3 DEF Placed
    <3>1. /\ SlotSize <= st.infos[id].offset
          /\ st.infos[id].offset <= st.scopes[d].offset
          /\ \A c \in 1 .. d - 1 : st.scopes[c].offset < st.infos[id].offset
      BY <2>2 DEF IInv, Placed
    <3>2. \A c \in 1 .. d : st'.scopes[c] = st.scopes[c]
      BY <1>2, <1>4
    <3> QED
      BY <1>2, <3>1, <3>2
  <2>8. Distinct' /\ Ordered'
    <3>1. \A d \in 1 .. Last - 1, n, m \in Names, a, b \in Ids :
            Binds(d, n, a) /\ Binds(d, m, b) /\ IsLocal(a) /\ IsLocal(b) /\ a # b =>
              st.infos[a].offset # st.infos[b].offset
      BY <2>2 DEF IInv, Distinct
    <3>2. \A d, e \in 1 .. Last - 1, n, m \in Names, a, b \in Ids :
            Binds(d, n, a) /\ Binds(e, m, b) /\ d < e => a < b
      BY <2>2 DEF IInv, Ordered
    <3>3. Distinct'
      BY <1>4, <2>1, <2>3, <3>1 DEF Distinct
    <3>4. Ordered'
      BY <1>4, <2>1, <2>3, <3>2 DEF Ordered
    <3> QED
      BY <3>3, <3>4
  <2>9. EntriesLive'
    <3> SUFFICES ASSUME NEW d \in 1 .. Last - 1, NEW n \in Names, NEW id \in Ids, Binds(d, n, id)
                 PROVE  id \notin st'.freed /\ st'.infos[id].name = n
      BY <1>4, <2>1, <2>3 DEF EntriesLive
    <3>1. id \notin st.freed /\ st.infos[id].name = n
      BY <2>2 DEF IInv, EntriesLive
    <3>2. ASSUME id \in Entries(st.scopes[Last]) PROVE FALSE
      <4>1. PICK m \in Names : st.scopes[Last].map[m] = id
        BY <3>2 DEF Entries
      <4>2. Binds(Last, m, id) /\ d < Last /\ d \in 1 .. Depth(st)
        BY <1>2, <2>4, <3>2, <4>1 DEF Binds, Entries
      <4>3. id < id /\ id \in Nat
        BY <1>1, <2>4, <4>2, Types DEF IInv, Ordered
      <4> QED
        BY <4>3
    <3> QED
      BY <1>4, <3>1, <3>2
  <2>10. LiveHeld'
    <3> SUFFICES ASSUME NEW id \in Ids, id \notin st'.freed
                 PROVE  \E d \in 1 .. Last - 1, n \in Names : Binds(d, n, id)'
      BY <1>4, <2>1 DEF LiveHeld, Live
    <3>1. id \in Live
      BY <1>4 DEF Live
    <3>2. PICK d \in 1 .. Depth(st), n \in Names : Binds(d, n, id)
      BY <3>1 DEF IInv, LiveHeld
    <3>3. d # Last
      BY <1>4, <3>2 DEF Binds, Entries
    <3>4. d \in 1 .. Last - 1
      BY <1>2, <3>3
    <3> QED
      BY <2>3, <3>2, <3>4
  <2>11. Innermost'
    <3> SUFFICES ASSUME NEW k \in 1 .. Last - 1, NEW n \in Names
                 PROVE  \/ \A c \in 1 .. k : st'.scopes[c].map[n] = NoInfo
                        \/ \E d \in 1 .. k : /\ st'.scopes[d].map[n] # NoInfo
                                             /\ \A c \in d + 1 .. k : st'.scopes[c].map[n] = NoInfo
      BY <1>4 DEF Innermost
    <3>1. \/ \A c \in 1 .. k : st.scopes[c].map[n] = NoInfo
          \/ \E d \in 1 .. k : /\ st.scopes[d].map[n] # NoInfo
                               /\ \A c \in d + 1 .. k : st.scopes[c].map[n] = NoInfo
      BY <2>2 DEF IInv, Innermost
    <3>2. \A c \in 1 .. k : st'.scopes[c].map[n] = st.scopes[c].map[n]
      BY <1>2, <1>4
    <3> QED
      BY <1>2, <3>1, <3>2
  <2> QED
    BY <2>5, <2>6, <2>7, <2>8, <2>9, <2>10, <2>11 DEF IInv
<1> QED
  BY <1>1, <1>3, <1>4, ExitEffect

-----------------------------------------------------------------------------
(* symbol_table_define *)

LEMMA DefineIInv ==
  ASSUME IInv, alive, alive' = alive, NEW info \in InfoType, st' = Define(st, info)
  PROVE  IInv'
<1> DEFINE old == st.scopes[Last].map[info.name]
<1>1. TypeOK /\ info.name \in Names
  BY DEF IInv, InfoType
<1>2. /\ Last \in Nat \ {0}
      /\ Depth(st)' = Last
      /\ st' \in [scopes : Seq(ScopeType), infos : Seq(InfoType), freed : SUBSET Nat]
      /\ \A d \in 1 .. Last : d # Last => st'.scopes[d] = st.scopes[d]
      /\ st'.scopes[Last].map = [st.scopes[Last].map EXCEPT ![info.name] = NewId]
      /\ st'.scopes[Last].offset = Advanced(info)
      /\ Len(st'.infos) = NewId
      /\ \A i \in 1 .. Len(st.infos) : st'.infos[i] = st.infos[i]
      /\ st'.infos[NewId] =
           IF info.kind = "local" THEN [info EXCEPT !.offset = Advanced(info)] ELSE info
      /\ st'.freed = st.freed \cup ({old} \ {NoInfo})
  BY <1>1, DefineEffect
<1>3. /\ Depth(st) = Last
      /\ Last \in 1 .. Depth(st)
      /\ Len(st.infos) \in Nat
      /\ st.scopes[Last].map \in [Names -> Nat]
      /\ st.scopes[Last].offset \in Nat
  BY <1>1, <1>2, Types DEF Last
<1>4. /\ Ids' = Ids \cup {NewId}
      /\ NewId \in Nat \ {0}
      /\ \A id \in Ids : id < NewId
      /\ \A id \in Ids : st'.infos[id] = st.infos[id]
  BY <1>2, <1>3 DEF Ids, NewId
<1>5. /\ \A id \in Ids : IsLocal(id)' = IsLocal(id)
      /\ st'.infos[NewId].kind = info.kind
      /\ st'.infos[NewId].name = info.name
  <2>1. /\ [info EXCEPT !.offset = Advanced(info)].kind = info.kind
        /\ [info EXCEPT !.offset = Advanced(info)].name = info.name
    BY DEF InfoType
  <2>2. st'.infos[NewId].kind = info.kind /\ st'.infos[NewId].name = info.name
    BY <1>2, <2>1
  <2> QED
    BY <1>4, <2>2 DEF IsLocal
<1>6. /\ info.kind = "local" => st'.infos[NewId].offset = Advanced(info)
      /\ Advanced(info) = st.scopes[Last].offset + Step(info)
      /\ Advanced(info) >= st.scopes[Last].offset
      /\ info.kind = "local" => Advanced(info) = st.scopes[Last].offset + SlotSize
      /\ Advanced(info) \in Nat
  <2>1. Current(st) = st.scopes[Last]
    BY DEF Current, Last
  <2>2. Advanced(info) = st.scopes[Last].offset + Step(info)
    BY <2>1 DEF Advanced
  <2>3. info.kind = "local" => st'.infos[NewId].offset = Advanced(info)
    BY <1>2, <1>5 DEF InfoType
  <2> QED
    BY <1>3, <1>5, <2>2, <2>3 DEF Step, SlotSize
\* The new entry, and the entries that were there and are not replaced.
<1>7. \A d \in 1 .. Last, n \in Names, id \in Ids \cup {NewId} :
        Binds(d, n, id)' <=> \/ d = Last /\ n = info.name /\ id = NewId
                             \/ id \in Ids /\ Binds(d, n, id) /\ ~(d = Last /\ n = info.name)
  <2> SUFFICES ASSUME NEW d \in 1 .. Last, NEW n \in Names, NEW id \in Ids \cup {NewId}
               PROVE  Binds(d, n, id)' <=>
                        \/ d = Last /\ n = info.name /\ id = NewId
                        \/ id \in Ids /\ Binds(d, n, id) /\ ~(d = Last /\ n = info.name)
    OBVIOUS
  <2>1. st'.scopes[d].map[n] =
          IF d = Last /\ n = info.name THEN NewId ELSE st.scopes[d].map[n]
    BY <1>1, <1>2, <1>3
  <2>2. st.scopes[d].map[n] # NewId
    <3>1. st.scopes[d].map[n] = NoInfo \/ st.scopes[d].map[n] \in Ids
      BY <1>1, <1>3, Types
    <3> QED
      BY <1>4, <3>1 DEF NoInfo
  <2>3. Binds(d, n, id)' <=> id # NoInfo /\ st'.scopes[d].map[n] = id
    BY <1>2 DEF Binds
  <2>4. Binds(d, n, id) <=> id # NoInfo /\ st.scopes[d].map[n] = id
    BY <1>3 DEF Binds
  <2>5. NewId # NoInfo /\ NewId \notin Ids
    BY <1>4 DEF NoInfo
  <2> QED
    BY <2>1, <2>2, <2>3, <2>4, <2>5
<1>8. old = NoInfo \/ old \in Ids
  BY <1>1, <1>3, Types
<1>9. st'.freed \subseteq Ids
  BY <1>1, <1>2, <1>8 DEF TypeOK
<1>10. TypeOK'
  <2>1. \A d \in 1 .. Last : Entries(st'.scopes[d]) \subseteq Ids \cup {NewId}
    <3> SUFFICES ASSUME NEW d \in 1 .. Last, NEW n \in Names, st'.scopes[d].map[n] # NoInfo
                 PROVE  st'.scopes[d].map[n] \in Ids \cup {NewId}
      BY DEF Entries
    <3>1. st'.scopes[d].map[n] =
            IF d = Last /\ n = info.name THEN NewId ELSE st.scopes[d].map[n]
      BY <1>1, <1>2, <1>3
    <3> QED
      BY <1>1, <1>3, <3>1, Types
  <2>2. st'.scopes # <<>>
    BY <1>2 DEF Depth
  <2> QED
    BY <1>1, <1>2, <1>4, <1>9, <2>1, <2>2 DEF TypeOK
<1>11. Monotone'
  <2> SUFFICES ASSUME NEW c \in 1 .. Last, NEW d \in 1 .. Last, c <= d
               PROVE  st'.scopes[c].offset <= st'.scopes[d].offset
    BY <1>2 DEF Monotone
  <2>1. st.scopes[c].offset <= st.scopes[d].offset
    BY <1>3 DEF IInv, Monotone
  <2>2. st.scopes[c].offset \in Nat /\ st.scopes[d].offset \in Nat
    BY <1>1, <1>3, Types
  <2>3. CASE d # Last
    BY <1>2, <2>1, <2>3
  <2>4. CASE d = Last /\ c # Last
    BY <1>2, <1>3, <1>6, <2>1, <2>2, <2>4
  <2>5. CASE d = Last /\ c = Last
    BY <1>2, <1>6, <2>5
  <2> QED
    BY <2>3, <2>4, <2>5
<1>12. Placed'
  <2> SUFFICES ASSUME NEW d \in 1 .. Last, NEW n \in Names, NEW id \in Ids \cup {NewId},
                      Binds(d, n, id)', IsLocal(id)'
               PROVE  /\ SlotSize <= st'.infos[id].offset
                      /\ st'.infos[id].offset <= st'.scopes[d].offset
                      /\ \A c \in 1 .. d - 1 : st'.scopes[c].offset < st'.infos[id].offset
    BY <1>2, <1>4 DEF Placed
  <2>1. \A c \in 1 .. d - 1 : c \in 1 .. Depth(st) /\ st'.scopes[c] = st.scopes[c]
    BY <1>2, <1>3
  <2>2. CASE d = Last /\ n = info.name /\ id = NewId
    <3>1. st'.infos[id].offset = Advanced(info)
      BY <1>5, <1>6, <2>2 DEF IsLocal
    <3>2. \A c \in 1 .. d - 1 : /\ st.scopes[c].offset <= st.scopes[Last].offset
                                /\ st.scopes[c].offset \in Nat
      BY <1>1, <1>3, <2>1, <2>2, Types DEF IInv, Monotone
    <3>3. Advanced(info) = st.scopes[Last].offset + SlotSize
      BY <1>5, <1>6, <2>2 DEF IsLocal
    <3>4. \A c \in 1 .. d - 1 : st'.scopes[c].offset < Advanced(info)
      <4> SUFFICES ASSUME NEW c \in 1 .. d - 1
                   PROVE  st'.scopes[c].offset < Advanced(info)
        OBVIOUS
      <4>1. st'.scopes[c].offset = st.scopes[c].offset
        BY <2>1
      <4>2. st.scopes[c].offset <= st.scopes[Last].offset /\ st.scopes[c].offset \in Nat
        BY <3>2
      <4>3. Advanced(info) = st.scopes[Last].offset + 8 /\ st.scopes[Last].offset \in Nat
        BY <1>3, <3>3 DEF SlotSize
      <4> QED
        BY <4>1, <4>2, <4>3
    <3> QED
      BY <1>2, <1>3, <1>6, <2>2, <3>1, <3>3, <3>4 DEF SlotSize
  <2>3. CASE id \in Ids /\ Binds(d, n, id)
    <3>1. IsLocal(id) /\ d \in 1 .. Depth(st)
      BY <1>3, <1>5, <2>3
    <3>2. /\ SlotSize <= st.infos[id].offset
          /\ st.infos[id].offset <= st.scopes[d].offset
          /\ \A c \in 1 .. d - 1 : st.scopes[c].offset < st.infos[id].offset
      BY <2>3, <3>1 DEF IInv, Placed
    <3>3. st'.infos[id] = st.infos[id] /\ st.infos[id].offset \in Nat
      BY <1>1, <1>4, <2>3, Types
    <3>4. st.scopes[d].offset <= st'.scopes[d].offset /\ st'.scopes[d].offset \in Nat
                /\ st.scopes[d].offset \in Nat
      <4>1. st.scopes[d].offset \in Nat
        BY <1>1, <3>1, Types
      <4> QED
        BY <1>2, <1>3, <1>6, <4>1
    <3>5. st'.infos[id].offset <= st'.scopes[d].offset
      BY <3>2, <3>3, <3>4
    <3> QED
      BY <2>1, <3>2, <3>3, <3>5
  <2> QED
    BY <1>7, <2>2, <2>3
\* No entry of the last scope that was there uses the new slot.
<1>13. \A n \in Names, id \in Ids :
         info.kind = "local" /\ Binds(Last, n, id) /\ IsLocal(id) =>
           st'.infos[id].offset # st'.infos[NewId].offset
  <2> SUFFICES ASSUME NEW n \in Names, NEW id \in Ids,
                      info.kind = "local", Binds(Last, n, id), IsLocal(id)
               PROVE  st'.infos[id].offset # st'.infos[NewId].offset
    OBVIOUS
  <2>1. st.infos[id].offset <= st.scopes[Last].offset
    BY <1>3 DEF IInv, Placed
  <2>2. st.infos[id].offset \in Nat /\ st'.infos[id] = st.infos[id]
    BY <1>1, <1>4, Types
  <2>3. st'.infos[NewId].offset = st.scopes[Last].offset + SlotSize
    BY <1>6
  <2> QED
    BY <1>3, <2>1, <2>2, <2>3 DEF SlotSize
<1>14. Distinct'
  <2> SUFFICES ASSUME NEW d \in 1 .. Last, NEW n \in Names, NEW m \in Names,
                      NEW a \in Ids \cup {NewId}, NEW b \in Ids \cup {NewId},
                      Binds(d, n, a)', Binds(d, m, b)', IsLocal(a)', IsLocal(b)', a # b
               PROVE  st'.infos[a].offset # st'.infos[b].offset
    BY <1>2, <1>4 DEF Distinct
  <2>1. CASE a \in Ids /\ Binds(d, n, a) /\ b \in Ids /\ Binds(d, m, b)
    <3>1. IsLocal(a) /\ IsLocal(b) /\ d \in 1 .. Depth(st)
      BY <1>3, <1>5, <2>1
    <3>2. st.infos[a].offset # st.infos[b].offset
      BY <2>1, <3>1 DEF IInv, Distinct
    <3> QED
      BY <1>4, <2>1, <3>2
  <2>2. CASE a \in Ids /\ Binds(d, n, a) /\ b = NewId /\ d = Last
    BY <1>5, <1>13, <2>2 DEF IsLocal
  <2>3. CASE a = NewId /\ d = Last /\ b \in Ids /\ Binds(d, m, b)
    BY <1>5, <1>13, <2>3 DEF IsLocal
  <2> QED
    BY <1>7, <2>1, <2>2, <2>3
<1>15. EntriesLive'
  <2> SUFFICES ASSUME NEW d \in 1 .. Last, NEW n \in Names, NEW id \in Ids \cup {NewId},
                      Binds(d, n, id)'
               PROVE  id \notin st'.freed /\ st'.infos[id].name = n
    BY <1>2, <1>4 DEF EntriesLive
  <2>1. CASE d = Last /\ n = info.name /\ id = NewId
    <3>1. NewId \notin Ids
      BY <1>4
    <3> QED
      BY <1>5, <1>9, <2>1, <3>1
  <2>2. CASE id \in Ids /\ Binds(d, n, id) /\ ~(d = Last /\ n = info.name)
    <3>1. id \notin st.freed /\ st.infos[id].name = n
      BY <1>3, <2>2 DEF IInv, EntriesLive
    <3>2. ASSUME id = old, old # NoInfo PROVE FALSE
      <4>1. Binds(Last, info.name, id)
        BY <1>3, <3>2 DEF Binds
      <4>2. st.infos[id].name = info.name
        BY <1>1, <1>3, <2>2, <4>1 DEF IInv, EntriesLive
      <4>3. d < Last /\ d \in 1 .. Depth(st)
        BY <1>2, <1>3, <2>2, <3>1, <4>2
      <4>4. id < id /\ id \in Nat
        BY <1>1, <1>3, <2>2, <4>1, <4>3, Types DEF IInv, Ordered
      <4> QED
        BY <4>4
    <3> QED
      BY <1>2, <1>4, <2>2, <3>1, <3>2
  <2> QED
    BY <1>7, <2>1, <2>2
<1>16. LiveHeld'
  <2> SUFFICES ASSUME NEW id \in Ids \cup {NewId}, id \notin st'.freed
               PROVE  \E d \in 1 .. Last, n \in Names : Binds(d, n, id)'
    BY <1>2, <1>4 DEF LiveHeld, Live
  <2>1. CASE id = NewId
    BY <1>1, <1>2, <1>3, <1>7, <2>1
  <2>2. CASE id \in Ids
    <3>1. id \in Live
      BY <1>2, <2>2 DEF Live
    <3>2. PICK d \in 1 .. Depth(st), n \in Names : Binds(d, n, id)
      BY <3>1 DEF IInv, LiveHeld
    <3>3. ~(d = Last /\ n = info.name)
      BY <1>2, <3>2 DEF Binds
    <3> QED
      BY <1>3, <1>7, <2>2, <3>2, <3>3
  <2> QED
    BY <2>1, <2>2
<1>17. Ordered'
  <2> SUFFICES ASSUME NEW d \in 1 .. Last, NEW e \in 1 .. Last, NEW n \in Names, NEW m \in Names,
                      NEW a \in Ids \cup {NewId}, NEW b \in Ids \cup {NewId},
                      Binds(d, n, a)', Binds(e, m, b)', d < e
               PROVE  a < b
    BY <1>2, <1>4 DEF Ordered
  <2>1. d # Last
    BY <1>2
  <2>2. a \in Ids /\ Binds(d, n, a)
    BY <1>7, <2>1
  <2>3. CASE b = NewId
    BY <1>4, <2>2, <2>3
  <2>4. CASE b \in Ids /\ Binds(e, m, b)
    BY <1>3, <2>2, <2>4 DEF IInv, Ordered
  <2> QED
    BY <1>7, <2>3, <2>4
<1>18. Innermost'
  <2> SUFFICES ASSUME NEW k \in 1 .. Last, NEW n \in Names
               PROVE  \/ \A c \in 1 .. k : st'.scopes[c].map[n] = NoInfo
                      \/ \E d \in 1 .. k : /\ st'.scopes[d].map[n] # NoInfo
                                           /\ \A c \in d + 1 .. k : st'.scopes[c].map[n] = NoInfo
    BY <1>2 DEF Innermost
  <2>1. CASE k = Last /\ n = info.name
    <3>1. st'.scopes[Last].map[n] = NewId
      BY <1>1, <1>2, <1>3, <2>1
    <3>2. st'.scopes[k].map[n] # NoInfo
      BY <1>4, <2>1, <3>1 DEF NoInfo
    <3>3. k \in 1 .. k /\ \A c \in k + 1 .. k : FALSE
      BY <1>2
    <3> QED
      BY <3>2, <3>3
  <2>2. CASE ~(k = Last /\ n = info.name)
    <3>1. \/ \A c \in 1 .. k : st.scopes[c].map[n] = NoInfo
          \/ \E d \in 1 .. k : /\ st.scopes[d].map[n] # NoInfo
                               /\ \A c \in d + 1 .. k : st.scopes[c].map[n] = NoInfo
      BY <1>3 DEF IInv, Innermost
    <3>2. \A c \in 1 .. k : st'.scopes[c].map[n] = st.scopes[c].map[n]
      <4> SUFFICES ASSUME NEW c \in 1 .. k PROVE st'.scopes[c].map[n] = st.scopes[c].map[n]
        OBVIOUS
      <4>1. CASE c # Last
        BY <1>2, <4>1
      <4>2. CASE c = Last
        BY <1>2, <1>3, <2>2, <4>2
      <4> QED
        BY <4>1, <4>2
    <3>3. \A d \in 1 .. k : \A c \in d + 1 .. k : c \in 1 .. k
      BY <1>2
    <3> QED
      BY <3>1, <3>2, <3>3
  <2> QED
    BY <2>1, <2>2
<1> QED
  BY <1>10, <1>11, <1>12, <1>14, <1>15, <1>16, <1>17, <1>18 DEF IInv

-----------------------------------------------------------------------------
(* The theorems *)

LEMMA NextIInv == IInv /\ [Next]_vars => IInv'
<1> SUFFICES ASSUME IInv, [Next]_vars PROVE IInv'
  OBVIOUS
<1>1. CASE Enter
  BY <1>1, EnterIInv
<1>2. CASE Exit
  BY <1>2, ExitIInv
<1>3. CASE Destroy
  BY <1>3, DestroyIInv
<1>4. ASSUME NEW n \in Names, DefineLocal(n) PROVE IInv'
  <2>1. LocalVar(n) \in InfoType
    BY DEF LocalVar, Info, InfoType
  <2> QED
    BY <1>4, <2>1, DefineIInv DEF DefineLocal
<1>5. ASSUME NEW n \in Names, DefineOther(n) PROVE IInv'
  <2>1. Info(n, "global", <<n>>) \in InfoType
    BY DEF Info, InfoType
  <2> QED
    BY <1>5, <2>1, DefineIInv DEF DefineOther
<1>6. CASE UNCHANGED vars
  BY <1>6 DEF vars, IInv, TypeOK, Monotone, Placed, Distinct, EntriesLive, LiveHeld, Ordered,
              Innermost, Binds, IsLocal, Ids, Live, Depth
<1> QED
  BY <1>1, <1>2, <1>3, <1>4, <1>5, <1>6 DEF Next

LEMMA SpecIInv == Spec => []IInv
  BY InitIInv, NextIInv, PTL DEF Spec

\* A table is always a chain of scopes whose entries are SymbolInfo objects
\* that were allocated, whatever is called on it.
THEOREM TypeCorrect == Spec => []TypeOK
<1>1. IInv => TypeOK
  BY DEF IInv
<1> QED
  BY <1>1, SpecIInv, PTL

\* Two local variables in open scopes, shadowed or not, never share a stack
\* slot: every scope starts to count where its parent stood, so a slot lies
\* above all of the outer ones (Placed), and within a scope the count only
\* grows (Distinct).
THEOREM SlotsNeverShared == Spec => []SlotsDisjoint
<1>1. IInv => SlotsDisjoint
  <2> SUFFICES ASSUME IInv,
                      NEW d \in 1 .. Depth(st), NEW e \in 1 .. Depth(st),
                      NEW n \in Names, NEW m \in Names, NEW a \in Ids, NEW b \in Ids,
                      Binds(d, n, a), IsLocal(a)
               PROVE  /\ st.infos[a].offset \in SlotSize .. st.scopes[d].offset
                      /\ Binds(e, m, b) /\ IsLocal(b) /\ a # b =>
                           st.infos[a].offset # st.infos[b].offset
    BY DEF SlotsDisjoint
  <2>1. TypeOK
    BY DEF IInv
  <2>2. /\ st.infos[a].offset \in Nat /\ st.infos[b].offset \in Nat
        /\ st.scopes[d].offset \in Nat /\ st.scopes[e].offset \in Nat
        /\ d \in Nat /\ e \in Nat
    BY <2>1, Types
  <2>3. /\ SlotSize <= st.infos[a].offset
        /\ st.infos[a].offset <= st.scopes[d].offset
        /\ \A c \in 1 .. d - 1 : st.scopes[c].offset < st.infos[a].offset
    BY DEF IInv, Placed
  <2>4. st.infos[a].offset \in SlotSize .. st.scopes[d].offset
    BY <2>2, <2>3 DEF SlotSize
  <2>5. ASSUME Binds(e, m, b), IsLocal(b), a # b
        PROVE  st.infos[a].offset # st.infos[b].offset
    <3>1. /\ st.infos[b].offset <= st.scopes[e].offset
          /\ \A c \in 1 .. e - 1 : st.scopes[c].offset < st.infos[b].offset
      BY <2>5 DEF IInv, Placed
    <3>2. CASE d = e
      BY <2>5, <3>2 DEF IInv, Distinct
    <3>3. CASE d < e
      <4>1. d \in 1 .. e - 1
        BY <2>2, <3>3
      <4>2. st.scopes[d].offset < st.infos[b].offset
        BY <3>1, <4>1
      <4> QED
        BY <2>2, <2>3, <4>2
    <3>4. CASE e < d
      <4>1. e \in 1 .. d - 1
        BY <2>2, <3>4
      <4>2. st.scopes[e].offset < st.infos[a].offset
        BY <2>3, <4>1
      <4> QED
        BY <2>2, <3>1, <4>2
    <3> QED
      BY <2>2, <3>2, <3>3, <3>4
  <2> QED
    BY <2>4, <2>5
<1> QED
  BY <1>1, SpecIInv, PTL

\* A SymbolInfo is freed exactly when the entry that holds it is replaced or
\* its scope goes: no entry is left with a freed object, no object without an
\* entry, and none with two.
THEOREM Ownership == Spec => []InfosOwned
<1>1. IInv => InfosOwned
  <2> SUFFICES ASSUME IInv PROVE InfosOwned
    OBVIOUS
  <2>1. TypeOK /\ LiveHeld
    BY DEF IInv
  <2>2. ASSUME NEW d \in 1 .. Depth(st), NEW id \in Entries(st.scopes[d])
        PROVE  id \notin st.freed
    <3>1. PICK n \in Names : st.scopes[d].map[n] = id
      BY DEF Entries
    <3>2. id # NoInfo /\ id \in Ids
      BY <2>1, <3>1, Types DEF Entries
    <3>3. Binds(d, n, id)
      BY <3>1, <3>2 DEF Binds
    <3> QED
      BY <3>2, <3>3 DEF IInv, EntriesLive
  <2>3. ASSUME NEW d \in 1 .. Depth(st), NEW e \in 1 .. Depth(st),
               NEW n \in Names, NEW m \in Names, NEW id \in Live,
               Binds(d, n, id), Binds(e, m, id)
        PROVE  d = e /\ n = m
    <3>1. id \in Ids /\ id \in Nat /\ d \in Nat /\ e \in Nat
      BY <2>1, Types DEF Live
    <3>2. st.infos[id].name = n /\ st.infos[id].name = m
      BY <2>3, <3>1 DEF IInv, EntriesLive
    <3>3. ~(d < e)
      BY <2>3, <3>1 DEF IInv, Ordered
    <3>4. ~(e < d)
      BY <2>3, <3>1 DEF IInv, Ordered
    <3> QED
      BY <3>1, <3>2, <3>3, <3>4
  <2> QED
    BY <2>1, <2>2, <2>3 DEF InfosOwned, LiveHeld
<1> QED
  BY <1>1, SpecIInv, PTL

\* The walk of symbol_table_lookup along the chain of scopes finds, of all the
\* definitions of a name that are alive, the one that was made last.
THEOREM LexicalScoping == Spec => []LookupIsLatest
<1>1. IInv => LookupIsLatest
  <2> SUFFICES ASSUME IInv, alive, NEW n \in Names
               PROVE  LET alternatives == {id \in Live : st.infos[id].name = n}
                          found        == Lookup(st, n)
                      IN  IF alternatives = {} THEN found = NoInfo
                          ELSE found \in alternatives /\ \A id \in alternatives : id <= found
    BY DEF LookupIsLatest
  <2> DEFINE alternatives == {id \in Live : st.infos[id].name = n}
             knowing == {d \in 1 .. Depth(st) : st.scopes[d].map[n] # NoInfo}
             inner == CHOOSE d \in knowing : \A c \in knowing : c <= d
  <2>1. TypeOK /\ Depth(st) \in Nat \ {0}
    <3>1. TypeOK
      BY DEF IInv
    <3>2. st.scopes \in Seq(ScopeType) /\ st.scopes # <<>>
      BY <3>1 DEF TypeOK
    <3> QED
      BY <3>1, <3>2 DEF Depth
  \* The live definitions of n are what the scopes map n to.
  <2>2. ASSUME NEW id \in alternatives
        PROVE  \E d \in knowing : Binds(d, n, id)
    <3>1. id \in Live /\ id \in Ids /\ id \notin st.freed
      BY DEF Live
    <3>2. PICK d \in 1 .. Depth(st), m \in Names : Binds(d, m, id)
      BY <3>1 DEF IInv, LiveHeld
    <3>3. m = n
      BY <3>1, <3>2 DEF IInv, EntriesLive
    <3> QED
      BY <3>2, <3>3 DEF Binds
  <2>3. ASSUME NEW d \in knowing
        PROVE  /\ Binds(d, n, st.scopes[d].map[n])
               /\ st.scopes[d].map[n] \in alternatives
               /\ st.scopes[d].map[n] \in Ids
    <3>1. st.scopes[d].map[n] \in Ids
      BY <2>1, Types
    <3>2. Binds(d, n, st.scopes[d].map[n])
      BY DEF Binds
    <3>3. /\ st.scopes[d].map[n] \notin st.freed
          /\ st.infos[st.scopes[d].map[n]].name = n
      BY <3>1, <3>2 DEF IInv, EntriesLive
    <3> QED
      BY <3>1, <3>2, <3>3 DEF Live
  <2>4. CASE knowing = {}
    <3>1. Lookup(st, n) = NoInfo
      BY <2>4 DEF Lookup
    <3>2. alternatives = {}
      BY <2>2, <2>4
    <3> QED
      BY <3>1, <3>2
  <2>5. CASE knowing # {}
    <3>1. \E d \in knowing : \A c \in knowing : c <= d
      <4>1. Depth(st) \in 1 .. Depth(st)
        BY <2>1
      <4>2. \/ \A c \in 1 .. Depth(st) : st.scopes[c].map[n] = NoInfo
            \/ \E d \in 1 .. Depth(st) :
                 /\ st.scopes[d].map[n] # NoInfo
                 /\ \A c \in d + 1 .. Depth(st) : st.scopes[c].map[n] = NoInfo
        BY <4>1 DEF IInv, Innermost
      <4>3. PICK d \in 1 .. Depth(st) :
                 /\ st.scopes[d].map[n] # NoInfo
                 /\ \A c \in d + 1 .. Depth(st) : st.scopes[c].map[n] = NoInfo
        BY <2>5, <4>2
      <4>4. \A c \in knowing : c <= d
        BY <2>1, <4>3
      <4> QED
        BY <4>3, <4>4
    <3>2. inner \in knowing /\ \A c \in knowing : c <= inner
      BY <3>1
    <3> HIDE DEF inner
    <3>3. Lookup(st, n) = st.scopes[inner].map[n]
      BY <2>5 DEF Lookup, inner
    <3>4. Lookup(st, n) \in alternatives /\ Binds(inner, n, Lookup(st, n)) /\ Lookup(st, n) \in Ids
      BY <2>3, <3>2, <3>3
    <3>5. ASSUME NEW id \in alternatives PROVE id <= Lookup(st, n)
      <4>1. PICK c \in knowing : Binds(c, n, id)
        BY <2>2
      <4>2. id \in Ids /\ id \in Nat /\ Lookup(st, n) \in Nat
        BY <2>1, <3>4, Types DEF Live
      <4>3. c <= inner /\ c \in 1 .. Depth(st) /\ inner \in 1 .. Depth(st)
        BY <3>2
      <4>4. CASE c = inner
        BY <3>3, <4>1, <4>2, <4>4 DEF Binds
      <4>5. CASE c < inner
        BY <3>4, <4>1, <4>2, <4>3, <4>5 DEF IInv, Ordered
      <4> QED
        BY <2>1, <4>3, <4>4, <4>5
    <3> QED
      BY <3>4, <3>5
  <2> QED
    BY <2>4, <2>5
<1> QED
  BY <1>1, SpecIInv, PTL
=============================================================================
