--------------------------- MODULE RegistryProofs ---------------------------
(***************************************************************************)
(* Proofs about the registry of schemas, for any number of schemas, fields *)
(* and calls.                                                              *)
(***************************************************************************)
EXTENDS RegistryProperties, TLAPS

USE RegistryAssumption DEF RegistryAssumption

(* The parts of TypeOK that an action can disturb.                          *)
RowsOK ==
    /\ stored \in [Schemas -> 0 .. MaxId]
    /\ nextId \in 1 .. (MaxId + 1)
    /\ \A s \in Schemas : stored[s] < nextId
    /\ \A s, r \in Schemas : stored[s] = stored[r] /\ stored[s] # 0 => s = r
MapsOK ==
    /\ fieldRows \subseteq FieldRow
    /\ tables \subseteq Schemas
    /\ columns \subseteq Schemas \X Fields
    /\ registry \in [Schemas -> Model]
    /\ missing \subseteq [schema: Ids, name: Many]
    /\ made \in 0 .. MaxCalls
CallsOK ==
    /\ call \in [Calls -> CallRow]
    /\ \A c \in Calls : call[c].pc = "row" => call[c].id # 0

Typed == RowsOK /\ MapsOK /\ CallsOK

LEMMA TypeParts == TypeOK <=> Typed
  BY DEF TypeOK, Typed, RowsOK, MapsOK, CallsOK

(* An idle call is typed.                                                   *)
LEMMA IdleTyped == Idle \in CallRow /\ Idle.pc = "idle"
<1>1. (CHOOSE s \in Schemas : TRUE) \in Schemas /\ (CHOOSE f \in Fields : TRUE) \in Fields
  OBVIOUS
<1>2. Absent \in Model
  BY DEF Absent, Model
<1>. QED BY <1>1, <1>2 DEF Idle, CallRow, Pcs

(* Putting a typed row in place of a call's keeps the calls typed.          *)
LEMMA ReplaceCall ==
  ASSUME CallsOK, NEW c \in Calls, NEW row \in CallRow, row.pc = "row" => row.id # 0,
         call' = [call EXCEPT ![c] = row]
  PROVE  CallsOK'
<1>1. call' \in [Calls -> CallRow]
  BY DEF CallsOK
<1>2. \A d \in Calls : call'[d] = IF d = c THEN row ELSE call[d]
  BY DEF CallsOK
<1>. QED BY <1>1, <1>2 DEF CallsOK

(* The same for the moves that only change where the call goes on.          *)
LEMMA MoveTyped ==
  ASSUME CallsOK, NEW c \in Calls,
         (\/ End(c)
          \/ \E pc \in Pcs \ {"row"} : Go(c, pc)
          \/ Back(c) \/ GiveUp(c))
  PROVE  CallsOK'
<1>1. CASE End(c)
  BY <1>1, IdleTyped, ReplaceCall DEF End
<1>2. ASSUME NEW pc \in Pcs \ {"row"}, Go(c, pc) PROVE CallsOK'
  <2>1. [call[c] EXCEPT !.pc = pc] \in CallRow /\ [call[c] EXCEPT !.pc = pc].pc = pc
    BY DEF CallsOK, CallRow
  <2>2. call' = [call EXCEPT ![c] = [call[c] EXCEPT !.pc = pc]]
    BY <1>2 DEF Go, CallsOK
  <2>. QED BY <2>1, <2>2, ReplaceCall
<1>3. CASE Back(c)
  <2>1. call[c].back \in {"idle", "outer", "each"}
    BY DEF CallsOK, CallRow
  <2>. QED BY <1>1, <1>2, <1>3, <2>1 DEF Back, Pcs
<1>4. CASE GiveUp(c)
  BY <1>1, <1>2, <1>4 DEF GiveUp, Pcs
<1>. QED BY <1>1, <1>2, <1>3, <1>4

LEMMA TypeInit == Init => Typed
<1>. SUFFICES ASSUME Init PROVE Typed
  OBVIOUS
<1>1. Absent \in Model
  BY DEF Absent, Model
<1>2. RowsOK
  BY DEF Init, RowsOK
<1>3. MapsOK
  BY <1>1 DEF Init, MapsOK
<1>4. CallsOK
  BY IdleTyped DEF Init, CallsOK
<1>. QED BY <1>2, <1>3, <1>4 DEF Typed

LEMMA StepCreateSchema ==
  ASSUME Typed, NEW c \in Calls, NEW s \in Schemas, NEW F \in SUBSET Fields,
         NEW linked \in BOOLEAN, CreateSchema(c, s, F, linked)
  PROVE  Typed'
<1>. DEFINE Loop == [Idle EXCEPT !.pc = "each", !.back = "outer", !.name = s,
                                 !.outer = registry[s], !.linked = linked,
                                 !.todo = [schema: {registry[s].id}, name: F \ registry[s].fields]]
            New == [Idle EXCEPT !.pc = "insert", !.name = s]
<1>1. RowsOK /\ MapsOK /\ CallsOK /\ registry[s] \in Model
  BY DEF Typed, MapsOK
<1>2. New \in CallRow /\ New.pc = "insert"
  BY IdleTyped DEF CallRow, Pcs
<1>3. ASSUME Registered(s) PROVE Loop \in CallRow /\ Loop.pc = "each"
  <2>1. registry[s].id \in Ids
    BY <1>1, <1>3 DEF Registered, Model, Ids
  <2>2. [schema: {registry[s].id}, name: F \ registry[s].fields] \in SUBSET FieldRow
    BY <2>1 DEF FieldRow
  <2>. QED BY <1>1, <2>2, IdleTyped DEF CallRow, Pcs
<1>4. CallsOK'
  <2>1. call' = [call EXCEPT ![c] = IF F # {} /\ Registered(s) THEN Loop ELSE New]
    BY DEF CreateSchema
  <2>. HIDE DEF Loop, New
  <2>2. CASE F # {} /\ Registered(s)
    BY <1>1, <1>3, <2>1, <2>2, ReplaceCall
  <2>3. CASE ~(F # {} /\ Registered(s))
    BY <1>1, <1>2, <2>1, <2>3, ReplaceCall
  <2>. QED BY <2>2, <2>3
<1>5. RowsOK' /\ MapsOK'
  BY <1>1 DEF CreateSchema, Accept, RowsOK, MapsOK
<1>. QED BY <1>4, <1>5 DEF Typed

LEMMA StepInsertSchema ==
  ASSUME Typed, NEW c \in Calls, InsertSchema(c)
  PROVE  Typed'
<1>1. RowsOK /\ MapsOK /\ CallsOK /\ call[c] \in CallRow /\ call[c].name \in Schemas
  BY DEF Typed, CallsOK, CallRow
<1>2. MapsOK'
  BY <1>1 DEF InsertSchema, MapsOK
<1>3. CASE stored[call[c].name] # 0 /\ End(c) /\ UNCHANGED <<stored, nextId>>
  BY <1>1, <1>2, <1>3, MoveTyped DEF Typed, RowsOK
<1>4. CASE ~(stored[call[c].name] # 0 /\ End(c) /\ UNCHANGED <<stored, nextId>>)
  <2>1. /\ nextId <= MaxId /\ nextId' = nextId + 1
        /\ stored' = [stored EXCEPT ![call[c].name] = nextId]
        /\ call' = [call EXCEPT ![c].pc = "table", ![c].id = nextId]
    BY <1>4 DEF InsertSchema
  <2>2. RowsOK'
    BY <1>1, <2>1 DEF RowsOK
  <2>3. [call[c] EXCEPT !.pc = "table", !.id = nextId] \in CallRow
    <3>1. nextId \in 0 .. MaxId
      BY <1>1, <2>1 DEF RowsOK
    <3>. QED BY <1>1, <3>1 DEF CallRow, Pcs
  <2>4. call' = [call EXCEPT ![c] = [call[c] EXCEPT !.pc = "table", !.id = nextId]]
    BY <1>1, <2>1 DEF CallsOK
  <2>5. [call[c] EXCEPT !.pc = "table", !.id = nextId].pc = "table"
    BY <1>1 DEF CallRow
  <2>. QED BY <1>1, <1>2, <2>2, <2>3, <2>4, <2>5, ReplaceCall DEF Typed
<1>. QED BY <1>3, <1>4

LEMMA StepCreateTable ==
  ASSUME Typed, NEW c \in Calls, CreateTable(c)
  PROVE  Typed'
<1>1. RowsOK /\ MapsOK /\ CallsOK /\ call[c].name \in Schemas
  BY DEF Typed, CallsOK, CallRow
<1>2. RowsOK' /\ MapsOK'
  BY <1>1 DEF CreateTable, RowsOK, MapsOK
<1>3. Go(c, "register") \/ End(c)
  BY DEF CreateTable
<1>. QED BY <1>1, <1>2, <1>3, MoveTyped DEF Typed, Pcs

LEMMA StepRegister ==
  ASSUME Typed, NEW c \in Calls, Register(c)
  PROVE  Typed'
<1>. DEFINE T == {m \in missing : Target[m.name] = call[c].name}
            row == [call[c] EXCEPT !.pc = "each", !.back = "each", !.linked = TRUE, !.todo = T]
<1>1. RowsOK /\ MapsOK /\ CallsOK /\ call[c] \in CallRow
  BY DEF Typed, CallsOK
<1>2. RowsOK'
  BY <1>1 DEF Register, RowsOK
<1>3. MapsOK'
  <2>1. [id |-> call[c].id, fields |-> {}] \in Model /\ call[c].name \in Schemas
    BY <1>1 DEF Model, CallRow
  <2>. QED BY <1>1, <2>1 DEF Register, MapsOK
<1>4. T \in SUBSET FieldRow
  BY <1>1 DEF MapsOK, FieldRow
<1>5. row \in CallRow /\ row.pc = "each"
  <2>. HIDE DEF T
  <2>. QED BY <1>1, <1>4 DEF CallRow, Pcs
<1>6. call' = [call EXCEPT ![c] = row]
  BY <1>1 DEF Register, CallsOK
<1>. HIDE DEF row
<1>. QED BY <1>1, <1>2, <1>3, <1>5, <1>6, ReplaceCall DEF Typed

LEMMA StepEach ==
  ASSUME Typed, NEW c \in Calls, Each(c)
  PROVE  Typed'
<1>1. RowsOK /\ MapsOK /\ CallsOK /\ call[c] \in CallRow /\ call[c].todo \in SUBSET FieldRow
  BY DEF Typed, CallsOK, CallRow
<1>2. RowsOK' /\ MapsOK'
  BY <1>1 DEF Each, RowsOK, MapsOK
<1>3. CASE End(c)
  BY <1>1, <1>2, <1>3, MoveTyped DEF Typed
<1>4. CASE ~End(c)
  <2>. DEFINE next(f) == [call[c] EXCEPT !.todo = call[c].todo \ {f}, !.id = f.schema, !.field = f.name]
  <2>1. PICK f \in call[c].todo :
           \/ call' = [call EXCEPT ![c] = [next(f) EXCEPT !.pc = "row"]]
           \/ call' = [call EXCEPT ![c] = next(f)]
    BY <1>1, <1>4 DEF Each, CallRow
  <2>2. f.schema \in Ids /\ f.schema # 0 /\ f.schema \in 0 .. MaxId /\ f.name \in Fields
    BY <1>1 DEF FieldRow, Ids
  <2>3. next(f) \in CallRow /\ next(f).pc = call[c].pc /\ next(f).id = f.schema
    BY <1>1, <2>2 DEF CallRow
  <2>4. call[c].pc = "each"
    BY DEF Each
  <2>. HIDE DEF next
  <2>5. [next(f) EXCEPT !.pc = "row"] \in CallRow /\ [next(f) EXCEPT !.pc = "row"].id = f.schema
    BY <2>3 DEF CallRow, Pcs
  <2>. QED BY <1>1, <1>2, <2>1, <2>2, <2>3, <2>4, <2>5, ReplaceCall DEF Typed
<1>. QED BY <1>3, <1>4

LEMMA StepOuter ==
  ASSUME Typed, NEW c \in Calls, Outer(c)
  PROVE  Typed'
<1>. DEFINE new == [call[c].outer EXCEPT !.fields = call[c].outer.fields \cup {call[c].field}]
            row == [call[c] EXCEPT !.pc = "each", !.outer = new]
<1>1. RowsOK /\ MapsOK /\ CallsOK /\ call[c] \in CallRow
  BY DEF Typed, CallsOK
<1>2. /\ call[c].name \in Schemas
      /\ new \in Model
  BY <1>1 DEF CallRow, Model
<1>3. call' = [call EXCEPT ![c] = row] /\ registry' = [registry EXCEPT ![call[c].name] = new]
  BY <1>1 DEF Outer, CallsOK, CallRow, Model
<1>. HIDE DEF new
<1>4. row \in CallRow /\ row.pc = "each"
  BY <1>1, <1>2 DEF CallRow, Pcs
<1>. HIDE DEF row
<1>5. RowsOK' /\ MapsOK'
  BY <1>1, <1>2, <1>3 DEF Outer, RowsOK, MapsOK
<1>. QED BY <1>1, <1>3, <1>4, <1>5, ReplaceCall DEF Typed

LEMMA StepCreateField ==
  ASSUME Typed, NEW c \in Calls, NEW s \in Schemas, NEW f \in Fields, NEW linked \in BOOLEAN,
         stored[s] # 0, CreateField(c, stored[s], f, linked)
  PROVE  Typed'
<1>. DEFINE row == [Idle EXCEPT !.pc = "row", !.id = stored[s], !.field = f, !.linked = linked]
<1>1. row \in CallRow /\ row.id = stored[s]
  BY IdleTyped DEF Typed, RowsOK, CallRow, Pcs
<1>2. call' = [call EXCEPT ![c] = row]
  BY DEF CreateField
<1>3. RowsOK' /\ MapsOK'
  BY DEF CreateField, Accept, Typed, RowsOK, MapsOK
<1>. HIDE DEF row
<1>. QED BY <1>1, <1>2, <1>3, ReplaceCall DEF Typed

LEMMA StepAddRow ==
  ASSUME Typed, NEW c \in Calls, AddRow(c)
  PROVE  Typed'
<1>1. RowsOK /\ MapsOK /\ CallsOK /\ call[c] \in CallRow /\ call[c].id # 0
  BY DEF Typed, CallsOK, AddRow
<1>2. call[c].id \in Ids /\ call[c].field \in Fields
  BY <1>1 DEF CallRow, Ids
<1>3. RowsOK' /\ MapsOK'
  BY <1>1, <1>2 DEF AddRow, RowsOK, MapsOK, FieldRow
<1>4. GiveUp(c) \/ Go(c, "find")
  BY DEF AddRow
<1>. QED BY <1>1, <1>3, <1>4, MoveTyped DEF Typed, Pcs

LEMMA StepFind ==
  ASSUME Typed, NEW c \in Calls, Find(c)
  PROVE  Typed'
<1>1. RowsOK /\ MapsOK /\ CallsOK /\ call[c] \in CallRow
  BY DEF Typed, CallsOK
<1>2. RowsOK' /\ MapsOK'
  BY <1>1 DEF Find, RowsOK, MapsOK
<1>3. CASE Back(c)
  BY <1>1, <1>2, <1>3, MoveTyped DEF Typed
<1>4. CASE ~Back(c)
  <2>. DEFINE row(s) == [call[c] EXCEPT !.pc = "column", !.found = s, !.copy = registry[s]]
  <2>1. PICK s \in Schemas : call' = [call EXCEPT ![c] = row(s)]
    BY <1>4 DEF Find
  <2>2. row(s) \in CallRow /\ row(s).pc = "column"
    BY <1>1 DEF MapsOK, CallRow, Pcs
  <2>. HIDE DEF row
  <2>. QED BY <1>1, <1>2, <2>1, <2>2, ReplaceCall DEF Typed
<1>. QED BY <1>3, <1>4

LEMMA StepAddColumn ==
  ASSUME Typed, NEW c \in Calls, AddColumn(c)
  PROVE  Typed'
<1>1. RowsOK /\ MapsOK /\ CallsOK /\ call[c].found \in Schemas /\ call[c].field \in Fields
  BY DEF Typed, CallsOK, CallRow
<1>2. RowsOK' /\ MapsOK'
  BY <1>1 DEF AddColumn, RowsOK, MapsOK
<1>. QED BY <1>1, <1>2, MoveTyped DEF AddColumn, Typed, Pcs

LEMMA StepSetField ==
  ASSUME Typed, NEW c \in Calls, SetField(c)
  PROVE  Typed'
<1>1. RowsOK /\ MapsOK /\ CallsOK /\ call[c] \in CallRow /\ call[c].found \in Schemas
  BY DEF Typed, CallsOK, CallRow
<1>2. [call[c].copy EXCEPT !.fields = call[c].copy.fields \cup {call[c].field}] \in Model
  BY <1>1 DEF CallRow, Model
<1>3. RowsOK' /\ MapsOK'
  BY <1>1, <1>2 DEF SetField, RowsOK, MapsOK
<1>. QED BY <1>1, <1>3, MoveTyped DEF SetField, Typed

LEMMA StepDeleteSchema ==
  ASSUME Typed, NEW c \in Calls, NEW s \in Schemas, DeleteSchema(c, s)
  PROVE  Typed'
<1>. DEFINE row == [Idle EXCEPT !.pc = "unfields", !.name = s, !.id = registry[s].id]
<1>1. RowsOK /\ MapsOK /\ CallsOK
  BY DEF Typed
<1>2. row \in CallRow /\ row.pc = "unfields"
  BY <1>1, IdleTyped DEF MapsOK, Model, CallRow, Pcs
<1>3. RowsOK' /\ MapsOK'
  BY <1>1 DEF DeleteSchema, Accept, RowsOK, MapsOK
<1>4. call' = [call EXCEPT ![c] = row] \/ End(c)
  BY DEF DeleteSchema, End
<1>. HIDE DEF row
<1>. QED BY <1>1, <1>2, <1>3, <1>4, ReplaceCall, MoveTyped DEF Typed

LEMMA StepUnregister ==
  ASSUME Typed, NEW c \in Calls, Unregister(c)
  PROVE  Typed'
<1>1. RowsOK /\ MapsOK /\ CallsOK /\ call[c].name \in Schemas /\ Absent \in Model
  BY DEF Typed, CallsOK, CallRow, Absent, Model
<1>2. RowsOK' /\ MapsOK'
  BY <1>1 DEF Unregister, RowsOK, MapsOK
<1>. QED BY <1>1, <1>2, MoveTyped DEF Unregister, Typed

LEMMA StepOthers ==
  ASSUME Typed,
         (\/ \E c \in Calls : DeleteFields(c)
          \/ \E c \in Calls, row \in fieldRows : DeleteField(c, row)
          \/ Restart)
  PROVE  Typed'
<1>1. ASSUME NEW c \in Calls, DeleteFields(c) PROVE Typed'
  <2>1. RowsOK' /\ MapsOK'
    BY <1>1 DEF Typed, DeleteFields, RowsOK, MapsOK
  <2>. QED BY <1>1, <2>1, MoveTyped DEF DeleteFields, Typed, Pcs
<1>2. ASSUME NEW c \in Calls, NEW row \in fieldRows, DeleteField(c, row) PROVE Typed'
  BY <1>2 DEF Typed, DeleteField, Accept, RowsOK, MapsOK, CallsOK
<1>3. CASE Restart
  <2>1. Loaded \in [Schemas -> Model]
    <3>1. Absent \in Model
      BY DEF Absent, Model
    <3>2. ASSUME NEW s \in Schemas
          PROVE  {row.name : row \in {r \in fieldRows : r.schema = stored[s]}} \in SUBSET Fields
      BY DEF Typed, MapsOK, FieldRow
    <3>. QED BY <3>1, <3>2 DEF Loaded, Typed, RowsOK, Model
  <2>2. CallsOK'
    BY <1>3, IdleTyped DEF Restart, CallsOK
  <2>. QED BY <1>3, <2>1, <2>2 DEF Restart, Typed, RowsOK, MapsOK
<1>. QED BY <1>1, <1>2, <1>3

LEMMA TypeStep == Typed /\ [Next]_vars => Typed'
<1>. SUFFICES ASSUME Typed, [Next]_vars PROVE Typed'
  OBVIOUS
<1>1. CASE UNCHANGED vars
  BY <1>1 DEF vars, Typed, RowsOK, MapsOK, CallsOK
<1>2. CASE Restart
  BY <1>2, StepOthers
<1>3. ASSUME NEW c \in Calls, Start(c) PROVE Typed'
  <2>1. ASSUME NEW s \in Schemas, NEW F \in SUBSET Fields, NEW linked \in BOOLEAN,
               CreateSchema(c, s, F, linked)
        PROVE  Typed'
    BY <2>1, StepCreateSchema
  <2>2. ASSUME NEW s \in Schemas, NEW f \in Fields, NEW linked \in BOOLEAN,
               stored[s] # 0, CreateField(c, stored[s], f, linked)
        PROVE  Typed'
    BY <2>2, StepCreateField
  <2>3. ASSUME NEW s \in Schemas, DeleteSchema(c, s) PROVE Typed'
    BY <2>3, StepDeleteSchema
  <2>. QED BY <1>3, <2>1, <2>2, <2>3, StepOthers DEF Start
<1>4. ASSUME NEW c \in Calls, Proceed(c) PROVE Typed'
  BY <1>4, StepInsertSchema, StepCreateTable, StepRegister, StepEach, StepOuter, StepAddRow,
     StepFind, StepAddColumn, StepSetField, StepOthers, StepUnregister DEF Proceed
<1>. QED BY <1>1, <1>2, <1>3, <1>4 DEF Next

(* Every reachable state is typed, ids are given once, and no two schemas   *)
(* share one (the INSERT of SchemaService, against every other call).       *)
THEOREM RegistryTypeCorrect == Spec => []TypeOK
<1>1. Init => Typed
  BY TypeInit, TypeParts
<1>2. Typed => TypeOK
  BY TypeParts
<1>. QED BY <1>1, <1>2, TypeStep, PTL DEF Spec

----------------------------------------------------------------------------
(***************************************************************************)
(* FieldsHaveColumns.  As long as nothing is deleted, the id of a          *)
(* registered schema never changes, so that a copy always belongs to the   *)
(* entry it is written back to, and what a copy holds has its columns.     *)
(***************************************************************************)
Complete(s, F) == \A f \in F \ Many : <<s, f>> \in columns

KnownRight == \A s \in Schemas : Registered(s) => registry[s].id = stored[s] /\ s \in tables

LoopRight(me) ==
    /\ me.outer.id # 0 /\ registry[me.name].id = me.outer.id
    /\ Complete(me.name, me.outer.fields)
    /\ \A f \in me.todo : f.schema = me.outer.id
    /\ me.pc \in {"row", "find", "column", "set"} => me.id = me.outer.id
    /\ me.pc = "outer" => Complete(me.name, {me.field})

CallRight(me) ==
    /\ me.pc \notin {"unfields", "unregister"}
    /\ me.pc \in {"table", "register"} => me.id # 0 /\ stored[me.name] = me.id
    /\ me.pc = "register" => me.name \in tables
    /\ me.pc \in {"column", "set"} =>
           /\ me.copy.id # 0 /\ me.copy.id = me.id /\ registry[me.found].id = me.copy.id
           /\ Complete(me.found, me.copy.fields)
    /\ me.pc = "set" => <<me.found, me.field>> \in columns
    /\ me.pc = "outer" => me.back = "outer"
    /\ me.back = "outer" => LoopRight(me)

Right == KnownRight /\ FieldsHaveColumns /\ \A c \in Calls : CallRight(call[c])

(* What every step does to the shared state as long as nothing is deleted.  *)
Grows ==
    /\ \A s \in Schemas : registry[s].id # 0 => registry'[s].id = registry[s].id
    /\ \A s \in Schemas : stored[s] # 0 => stored'[s] = stored[s]
    /\ tables \subseteq tables' /\ columns \subseteq columns'

(* The calls that do not move stay right when the shared state only grows.  *)
LEMMA Combine ==
  ASSUME Typed, Right, Grows, KnownRight', FieldsHaveColumns',
         NEW c \in Calls, \A d \in Calls \ {c} : call'[d] = call[d],
         CallRight(call[c])'
  PROVE  Right'
<1>1. ASSUME NEW d \in Calls \ {c} PROVE CallRight(call[d])'
  <2>. DEFINE me == call[d]
  <2>1. me \in CallRow /\ CallRight(me) /\ call'[d] = me
    BY <1>1 DEF Typed, CallsOK, Right
  <2>2. me.name \in Schemas /\ me.found \in Schemas
    BY <2>1 DEF CallRow
  <2>. HIDE DEF me
  <2>3. me.pc \in {"table", "register"} => me.id # 0 /\ stored'[me.name] = me.id
    BY <2>1, <2>2 DEF CallRight, Grows
  <2>4. me.pc \in {"column", "set"} =>
           /\ me.copy.id # 0 /\ me.copy.id = me.id /\ registry'[me.found].id = me.copy.id
           /\ \A f \in me.copy.fields \ Many : <<me.found, f>> \in columns'
    BY <2>1, <2>2 DEF CallRight, Grows, Complete
  <2>5. /\ me.pc = "register" => me.name \in tables'
        /\ me.pc = "set" => <<me.found, me.field>> \in columns'
        /\ me.pc = "outer" => me.back = "outer"
    BY <2>1, <2>2 DEF CallRight, Grows
  <2>6. ASSUME me.back = "outer"
        PROVE  /\ me.outer.id # 0 /\ registry'[me.name].id = me.outer.id
               /\ \A f \in me.outer.fields \ Many : <<me.name, f>> \in columns'
               /\ \A f \in me.todo : f.schema = me.outer.id
               /\ me.pc \in {"row", "find", "column", "set"} => me.id = me.outer.id
               /\ me.pc = "outer" => \A f \in {me.field} \ Many : <<me.name, f>> \in columns'
    BY <2>1, <2>2, <2>6 DEF CallRight, LoopRight, Grows, Complete
  <2>. QED BY <2>1, <2>3, <2>4, <2>5, <2>6 DEF CallRight, LoopRight, Complete
<1>. QED BY <1>1 DEF Right

(* Steps that leave the shared state as it is.                              *)
LEMMA Unchanging ==
  ASSUME Typed, Right, UNCHANGED <<stored, tables, columns, registry>>,
         NEW c \in Calls, \A d \in Calls \ {c} : call'[d] = call[d],
         CallRight(call'[c])
  PROVE  Right'
<1>1. Grows /\ KnownRight' /\ FieldsHaveColumns'
  BY DEF Grows, KnownRight, Registered, FieldsHaveColumns, Right
<1>2. CallRight(call[c])'
  BY DEF CallRight, LoopRight, Complete
<1>. QED BY <1>1, <1>2, Combine

LEMMA IdleRight == CallRight(Idle)
  BY DEF CallRight, Idle

LEMMA EndRight ==
  ASSUME Typed, Right, UNCHANGED <<stored, tables, columns, registry>>,
         NEW c \in Calls, End(c)
  PROVE  Right'
<1>1. call'[c] = Idle /\ \A d \in Calls \ {c} : call'[d] = call[d]
  BY DEF End, Typed, CallsOK
<1>. QED BY <1>1, IdleRight, Unchanging

(* Of two registered names with the same id there is only one.              *)
LEMMA SameName ==
  ASSUME Typed, Right, NEW s \in Schemas, NEW r \in Schemas,
         registry[s].id = registry[r].id, registry[s].id # 0
  PROVE  s = r
  BY DEF Typed, RowsOK, Right, KnownRight, Registered

LEMMA RightCreateSchema ==
  ASSUME Typed, Right, NEW c \in Calls, NEW s \in Schemas, NEW F \in SUBSET Fields,
         NEW linked \in BOOLEAN, CreateSchema(c, s, F, linked)
  PROVE  Right'
<1>1. \A d \in Calls \ {c} : call'[d] = call[d]
  BY DEF CreateSchema, Typed, CallsOK
<1>2. CASE F # {} /\ Registered(s)
  <2>1. call'[c] = [Idle EXCEPT !.pc = "each", !.back = "outer", !.name = s,
                                !.outer = registry[s], !.linked = linked,
                                !.todo = [schema: {registry[s].id}, name: F \ registry[s].fields]]
    BY <1>2 DEF CreateSchema, Typed, CallsOK
  <2>2. /\ call'[c].pc = "each" /\ call'[c].back = "outer" /\ call'[c].name = s
        /\ call'[c].outer = registry[s]
        /\ call'[c].todo = [schema: {registry[s].id}, name: F \ registry[s].fields]
    BY <2>1 DEF Idle
  <2>3. Complete(s, registry[s].fields)
    BY DEF Right, FieldsHaveColumns, Complete
  <2>4. LoopRight(call'[c])
    BY <1>2, <2>2, <2>3 DEF LoopRight, Registered
  <2>. QED BY <1>1, <2>2, <2>4, Unchanging DEF CallRight, CreateSchema
<1>3. CASE ~(F # {} /\ Registered(s))
  <2>1. call'[c] = [Idle EXCEPT !.pc = "insert", !.name = s]
    BY <1>3 DEF CreateSchema, Typed, CallsOK
  <2>2. call'[c].pc = "insert" /\ call'[c].back = "idle"
    BY <2>1 DEF Idle
  <2>. QED BY <1>1, <2>2, Unchanging DEF CallRight, CreateSchema
<1>. QED BY <1>2, <1>3

LEMMA RightInsertSchema ==
  ASSUME Typed, Right, NEW c \in Calls, InsertSchema(c)
  PROVE  Right'
<1>1. call[c] \in CallRow /\ call[c].name \in Schemas /\ call[c].pc = "insert"
  BY DEF Typed, CallsOK, CallRow, InsertSchema
<1>2. CASE End(c) /\ UNCHANGED stored
  BY <1>2, EndRight DEF InsertSchema
<1>3. CASE ~(End(c) /\ UNCHANGED stored)
  <2>. DEFINE s == call[c].name
  <2>1. /\ stored[s] = 0 /\ stored' = [stored EXCEPT ![s] = nextId]
        /\ call' = [call EXCEPT ![c].pc = "table", ![c].id = nextId]
    BY <1>3 DEF InsertSchema
  <2>2. /\ \A d \in Calls \ {c} : call'[d] = call[d]
        /\ call'[c].pc = "table" /\ call'[c].id = nextId /\ call'[c].name = s
        /\ call'[c].back = call[c].back /\ call'[c].outer = call[c].outer
        /\ call'[c].todo = call[c].todo
    BY <1>1, <2>1 DEF Typed, CallsOK, CallRow
  <2>3. nextId # 0 /\ stored'[s] = nextId
    BY <1>1, <2>1 DEF Typed, RowsOK
  <2>4. Grows
    BY <1>1, <2>1 DEF Grows, InsertSchema, Typed, RowsOK
  <2>5. KnownRight' /\ FieldsHaveColumns'
    BY <1>1, <2>1 DEF Right, KnownRight, FieldsHaveColumns, Registered, InsertSchema, Typed, RowsOK
  <2>6. CallRight(call[c])
    BY DEF Right
  <2>7. CallRight(call[c])'
    BY <1>1, <2>2, <2>3, <2>6 DEF CallRight, LoopRight, Complete, InsertSchema
  <2>. QED BY <2>2, <2>4, <2>5, <2>7, Combine
<1>. QED BY <1>2, <1>3

LEMMA RightCreateTable ==
  ASSUME Typed, Right, ~DdlMayFail, NEW c \in Calls, CreateTable(c)
  PROVE  Right'
<1>1. call[c] \in CallRow /\ call[c].name \in Schemas /\ CallRight(call[c])
  BY DEF Typed, CallsOK, CallRow, Right
<1>2. /\ \A d \in Calls \ {c} : call'[d] = call[d]
      /\ call'[c] = [call[c] EXCEPT !.pc = "register"]
      /\ tables' = tables \cup {call[c].name}
  BY DEF CreateTable, Go, Typed, CallsOK
<1>3. Grows /\ KnownRight' /\ FieldsHaveColumns'
  BY <1>2 DEF Grows, Right, KnownRight, FieldsHaveColumns, Registered, CreateTable
<1>4. CallRight(call[c])'
  BY <1>1, <1>2 DEF CallRight, LoopRight, Complete, CreateTable, CallRow
<1>. QED BY <1>2, <1>3, <1>4, Combine

LEMMA RightRegister ==
  ASSUME Typed, Right, NEW c \in Calls, Register(c)
  PROVE  Right'
<1>. DEFINE s == call[c].name
<1>1. call[c] \in CallRow /\ s \in Schemas /\ CallRight(call[c])
  BY DEF Typed, CallsOK, CallRow, Right
<1>2. /\ \A d \in Calls \ {c} : call'[d] = call[d]
      /\ call'[c].pc = "each" /\ call'[c].back = "each"
  BY <1>1 DEF Register, Typed, CallsOK, CallRow
<1>3. s \in tables /\ stored[s] = call[c].id
  BY <1>1 DEF CallRight, Register
<1>4. \A r \in Schemas : registry'[r] = IF r = s /\ ~Registered(s)
                                       THEN [id |-> call[c].id, fields |-> {}] ELSE registry[r]
  BY <1>1 DEF Register, Typed, MapsOK
<1>5. Grows
  BY <1>4 DEF Grows, Register, Registered
<1>6. KnownRight' /\ FieldsHaveColumns'
  BY <1>3, <1>4 DEF Right, KnownRight, FieldsHaveColumns, Registered, Register
<1>7. CallRight(call[c])'
  BY <1>2 DEF CallRight
<1>. QED BY <1>2, <1>5, <1>6, <1>7, Combine

LEMMA RightEach ==
  ASSUME Typed, Right, NEW c \in Calls, Each(c)
  PROVE  Right'
<1>1. call[c] \in CallRow /\ CallRight(call[c]) /\ call[c].pc = "each"
  BY DEF Typed, CallsOK, Right, Each
<1>2. CASE End(c)
  BY <1>2, EndRight DEF Each
<1>3. CASE ~End(c)
  <2>1. PICK f \in call[c].todo :
          /\ \A d \in Calls \ {c} : call'[d] = call[d]
          /\ call'[c].pc \in {"row", "each"}
          /\ call'[c].id = f.schema /\ call'[c].todo = call[c].todo \ {f}
          /\ call'[c].back = call[c].back /\ call'[c].name = call[c].name
          /\ call'[c].outer = call[c].outer
    <3>. DEFINE next(f) == [call[c] EXCEPT !.todo = call[c].todo \ {f}, !.id = f.schema, !.field = f.name]
    <3>1. PICK f \in call[c].todo : call' = [call EXCEPT ![c] = [next(f) EXCEPT !.pc = "row"]]
                                    \/ call' = [call EXCEPT ![c] = next(f)]
      BY <1>1, <1>3 DEF Each, CallRow
    <3>2. PICK row \in {next(f), [next(f) EXCEPT !.pc = "row"]} : call' = [call EXCEPT ![c] = row]
      BY <3>1
    <3>3. /\ row.pc \in {"row", "each"} /\ row.id = f.schema /\ row.todo = call[c].todo \ {f}
          /\ row.back = call[c].back /\ row.name = call[c].name /\ row.outer = call[c].outer
      BY <1>1, <3>2 DEF CallRow
    <3>4. call'[c] = row /\ \A d \in Calls \ {c} : call'[d] = call[d]
      BY <3>2 DEF Typed, CallsOK
    <3>. HIDE DEF next
    <3>. QED BY <3>1, <3>3, <3>4
  <2>2. CallRight(call'[c])
    BY <1>1, <2>1 DEF CallRight, LoopRight
  <2>. QED BY <2>1, <2>2, Unchanging DEF Each
<1>. QED BY <1>2, <1>3

LEMMA RightOuter ==
  ASSUME Typed, Right, NEW c \in Calls, Outer(c)
  PROVE  Right'
<1>. DEFINE me == call[c]
            new == [me.outer EXCEPT !.fields = me.outer.fields \cup {me.field}]
<1>1. /\ me \in CallRow /\ me.name \in Schemas /\ me.outer \in Model
      /\ CallRight(me) /\ LoopRight(me) /\ me.pc = "outer" /\ me.back = "outer"
  BY DEF Typed, CallsOK, CallRow, Right, Outer, CallRight
<1>2. new.id = me.outer.id /\ new.fields = me.outer.fields \cup {me.field}
  BY <1>1 DEF Model
<1>3. call' = [call EXCEPT ![c] = [me EXCEPT !.pc = "each", !.outer = new]]
      /\ registry' = [registry EXCEPT ![me.name] = new]
  BY <1>1 DEF Outer, Typed, CallsOK, CallRow, Model
<1>. HIDE DEF new
<1>4. /\ \A d \in Calls \ {c} : call'[d] = call[d]
      /\ call'[c].pc = "each" /\ call'[c].back = "outer" /\ call'[c].name = me.name
      /\ call'[c].todo = me.todo /\ call'[c].outer = new
  BY <1>1, <1>3 DEF Typed, CallsOK, CallRow
<1>5. \A s \in Schemas : registry'[s] = IF s = me.name THEN new ELSE registry[s]
  BY <1>1, <1>3 DEF Typed, MapsOK
<1>6. Complete(me.name, new.fields)
  BY <1>1, <1>2 DEF LoopRight, Complete
<1>7. Grows
  BY <1>1, <1>2, <1>5 DEF Grows, LoopRight, Outer
<1>8. KnownRight'
  BY <1>1, <1>2, <1>5 DEF Right, KnownRight, Registered, LoopRight, Outer
<1>9. FieldsHaveColumns'
  BY <1>5, <1>6 DEF Right, FieldsHaveColumns, Complete, Outer
<1>10. CallRight(call[c])'
  <2>1. LoopRight(call[c])'
    <3>1. registry'[me.name].id = new.id /\ new.id # 0 /\ \A f \in me.todo : f.schema = new.id
      BY <1>1, <1>2, <1>5 DEF LoopRight
    <3>2. columns' = columns
      BY DEF Outer
    <3>. HIDE DEF me
    <3>. QED BY <1>4, <1>6, <3>1, <3>2 DEF LoopRight, Complete
  <2>. QED BY <1>4, <2>1 DEF CallRight
<1>. QED BY <1>4, <1>7, <1>8, <1>9, <1>10, Combine

LEMMA RightCreateField ==
  ASSUME Typed, Right, NEW c \in Calls, NEW i, NEW f, NEW linked, CreateField(c, i, f, linked)
  PROVE  Right'
<1>1. /\ \A d \in Calls \ {c} : call'[d] = call[d]
      /\ call'[c] = [Idle EXCEPT !.pc = "row", !.id = i, !.field = f, !.linked = linked]
  BY DEF CreateField, Typed, CallsOK
<1>2. call'[c].pc = "row" /\ call'[c].back = "idle"
  BY <1>1 DEF Idle
<1>. QED BY <1>1, <1>2, Unchanging DEF CallRight, CreateField

LEMMA RightAddRow ==
  ASSUME Typed, Right, NEW c \in Calls, AddRow(c)
  PROVE  Right'
<1>1. call[c] \in CallRow /\ CallRight(call[c]) /\ call[c].pc = "row"
  BY DEF Typed, CallsOK, Right, AddRow
<1>2. CASE End(c)
  BY <1>2, EndRight DEF AddRow
<1>3. ASSUME NEW pc \in {"each", "find"}, Go(c, pc) PROVE Right'
  <2>1. /\ \A d \in Calls \ {c} : call'[d] = call[d]
        /\ call'[c] = [call[c] EXCEPT !.pc = pc]
    BY <1>3 DEF Go, Typed, CallsOK
  <2>2. CallRight(call'[c])
    BY <1>1, <2>1 DEF CallRight, LoopRight, CallRow
  <2>. QED BY <2>1, <2>2, Unchanging DEF AddRow
<1>. QED BY <1>2, <1>3 DEF AddRow, GiveUp

LEMMA RightFind ==
  ASSUME Typed, Right, NEW c \in Calls, Find(c)
  PROVE  Right'
<1>. DEFINE me == call[c]
<1>1. me \in CallRow /\ me.name \in Schemas /\ CallRight(me) /\ me.pc = "find"
  BY DEF Typed, CallsOK, CallRow, Right, Find
<1>2. ASSUME NEW s \in Schemas, Registered(s), registry[s].id = me.id,
             call' = [call EXCEPT ![c] = [me EXCEPT !.pc = "column", !.found = s, !.copy = registry[s]]]
      PROVE  Right'
  <2>1. /\ \A d \in Calls \ {c} : call'[d] = call[d]
        /\ call'[c] = [me EXCEPT !.pc = "column", !.found = s, !.copy = registry[s]]
    BY <1>2 DEF Typed, CallsOK
  <2>2. /\ call'[c].pc = "column" /\ call'[c].found = s /\ call'[c].copy = registry[s]
        /\ call'[c].back = me.back /\ call'[c].id = me.id /\ call'[c].name = me.name
        /\ call'[c].outer = me.outer /\ call'[c].todo = me.todo
    BY <1>1, <2>1 DEF CallRow
  <2>3. Complete(s, registry[s].fields)
    BY DEF Right, FieldsHaveColumns, Complete
  <2>4. CallRight(call'[c])
    BY <1>1, <1>2, <2>2, <2>3 DEF CallRight, LoopRight, Registered
  <2>. QED BY <2>1, <2>4, Unchanging DEF Find
<1>3. CASE Back(c)
  <2>1. CASE End(c)
    BY <2>1, EndRight DEF Find
  <2>2. CASE ~End(c)
    <3>1. /\ me.back \in {"each", "outer"}
          /\ \A d \in Calls \ {c} : call'[d] = call[d]
          /\ call'[c] = [me EXCEPT !.pc = me.back]
      BY <1>1, <1>3, <2>2 DEF Back, Go, Typed, CallsOK, CallRow
    <3>2. /\ call'[c].pc = me.back /\ call'[c].back = me.back /\ call'[c].name = me.name
          /\ call'[c].outer = me.outer /\ call'[c].todo = me.todo /\ call'[c].field = me.field
      BY <1>1, <3>1 DEF CallRow
    <3>3. CASE me.back = "each"
      BY <3>1, <3>2, <3>3, Unchanging DEF CallRight, Find
    <3>4. CASE me.back = "outer"
      <4>1. LoopRight(me) /\ registry[me.name].id = me.id /\ me.id # 0
        BY <1>1, <3>4 DEF CallRight, LoopRight
      <4>2. Complete(me.name, {me.field})
        <5>1. CASE \E s \in Schemas : /\ Registered(s) /\ registry[s].id = me.id
                                      /\ me.field \in Many \cup registry[s].fields
          BY <1>1, <4>1, <5>1, SameName DEF Right, FieldsHaveColumns, Complete
        <5>2. CASE ~\E s \in Schemas : /\ Registered(s) /\ registry[s].id = me.id
                                       /\ me.field \in Many \cup registry[s].fields
          <6>1. PICK s \in Schemas :
                  call' = [call EXCEPT ![c] = [me EXCEPT !.pc = "column", !.found = s, !.copy = registry[s]]]
            BY <1>1, <4>1, <5>2 DEF Find, Registered
          <6>2. call'[c].pc = "column"
            BY <1>1, <6>1 DEF Typed, CallsOK, CallRow
          <6>. QED BY <3>1, <3>2, <6>2
        <5>. QED BY <5>1, <5>2
      <4>3. CallRight(call'[c])
        BY <3>2, <3>4, <4>1, <4>2 DEF CallRight, LoopRight
      <4>. QED BY <3>1, <4>3, Unchanging DEF Find
    <3>. QED BY <3>1, <3>3, <3>4
  <2>. QED BY <2>1, <2>2
<1>. QED BY <1>2, <1>3 DEF Find

LEMMA RightAddColumn ==
  ASSUME Typed, Right, ~DdlMayFail, NEW c \in Calls, AddColumn(c)
  PROVE  Right'
<1>. DEFINE me == call[c]
<1>1. /\ me \in CallRow /\ me.name \in Schemas /\ me.found \in Schemas
      /\ CallRight(me) /\ me.pc = "column"
  BY DEF Typed, CallsOK, CallRow, Right, AddColumn
<1>2. me.found \in tables
  BY <1>1 DEF CallRight, Right, KnownRight, Registered
<1>3. /\ \A d \in Calls \ {c} : call'[d] = call[d]
      /\ call'[c] = [me EXCEPT !.pc = "set"]
      /\ columns' = columns \cup {<<me.found, me.field>>}
  BY <1>2 DEF AddColumn, Go, Typed, CallsOK
<1>4. /\ call'[c].pc = "set" /\ call'[c].back = me.back /\ call'[c].name = me.name
      /\ call'[c].outer = me.outer /\ call'[c].todo = me.todo /\ call'[c].field = me.field
      /\ call'[c].found = me.found /\ call'[c].copy = me.copy /\ call'[c].id = me.id
  BY <1>1, <1>3 DEF CallRow
<1>5. Grows /\ KnownRight' /\ FieldsHaveColumns'
  BY <1>3 DEF Grows, Right, KnownRight, FieldsHaveColumns, Registered, AddColumn
<1>6. CallRight(call[c])'
  <2>1. UNCHANGED <<registry, stored, tables>>
    BY DEF AddColumn
  <2>. HIDE DEF me
  <2>. QED BY <1>1, <1>3, <1>4, <2>1 DEF CallRight, LoopRight, Complete
<1>. QED BY <1>3, <1>5, <1>6, Combine

LEMMA RightSetField ==
  ASSUME Typed, Right, NEW c \in Calls, SetField(c)
  PROVE  Right'
<1>. DEFINE me == call[c]
            new == [me.copy EXCEPT !.fields = me.copy.fields \cup {me.field}]
<1>1. /\ me \in CallRow /\ me.name \in Schemas /\ me.found \in Schemas /\ me.copy \in Model
      /\ CallRight(me) /\ me.pc = "set"
  BY DEF Typed, CallsOK, CallRow, Right, SetField
<1>2. /\ me.copy.id # 0 /\ me.copy.id = me.id /\ registry[me.found].id = me.copy.id
      /\ Complete(me.found, me.copy.fields) /\ <<me.found, me.field>> \in columns
  BY <1>1 DEF CallRight
<1>3. new.id = me.copy.id /\ new.fields = me.copy.fields \cup {me.field}
  BY <1>1 DEF Model
<1>4. \A s \in Schemas : registry'[s] = IF s = me.found THEN new ELSE registry[s]
  BY <1>1 DEF SetField, Typed, MapsOK
<1>5. UNCHANGED <<stored, tables, columns>> /\ Back(c)
  BY DEF SetField
<1>. HIDE DEF new
<1>6. Grows /\ KnownRight'
  BY <1>1, <1>2, <1>3, <1>4, <1>5 DEF Grows, Right, KnownRight, Registered
<1>7. FieldsHaveColumns'
  BY <1>2, <1>3, <1>4, <1>5 DEF Right, FieldsHaveColumns, Complete
<1>8. (\A d \in Calls \ {c} : call'[d] = call[d]) /\ CallRight(call[c])'
  <2>1. CASE End(c)
    <3>1. call'[c] = Idle /\ \A d \in Calls \ {c} : call'[d] = call[d]
      BY <2>1 DEF End, Typed, CallsOK
    <3>. QED BY <3>1 DEF CallRight, Idle
  <2>2. CASE ~End(c)
    <3>1. /\ me.back \in {"each", "outer"}
          /\ \A d \in Calls \ {c} : call'[d] = call[d]
          /\ call'[c] = [me EXCEPT !.pc = me.back]
      BY <1>1, <1>5, <2>2 DEF Back, Go, Typed, CallsOK, CallRow
    <3>2. /\ call'[c].pc = me.back /\ call'[c].back = me.back /\ call'[c].name = me.name
          /\ call'[c].outer = me.outer /\ call'[c].todo = me.todo /\ call'[c].field = me.field
      BY <1>1, <3>1 DEF CallRow
    <3>3. CASE me.back = "each"
      BY <3>1, <3>2, <3>3 DEF CallRight
    <3>4. CASE me.back = "outer"
      <4>1. LoopRight(me) /\ me.id = me.outer.id /\ me.outer.id # 0 /\ registry[me.name].id = me.id
        BY <1>1, <3>4 DEF CallRight, LoopRight
      <4>2. me.found = me.name
        BY <1>1, <1>2, <4>1, SameName
      <4>3. registry'[me.name].id = me.outer.id
        BY <1>1, <1>2, <1>3, <1>4, <4>1, <4>2
      <4>4. columns' = columns
        BY <1>5
      <4>. HIDE DEF me
      <4>5. LoopRight(call[c])'
        BY <1>2, <3>2, <3>4, <4>1, <4>2, <4>3, <4>4 DEF LoopRight, Complete
      <4>. QED BY <3>1, <3>2, <3>4, <4>5 DEF CallRight
    <3>. QED BY <3>1, <3>3, <3>4
  <2>. QED BY <2>1, <2>2
<1>. QED BY <1>6, <1>7, <1>8, Combine

LEMMA RightInit == Init => Right
<1>. SUFFICES ASSUME Init PROVE Right
  OBVIOUS
<1>1. \A s \in Schemas : registry[s] = Absent /\ Absent.id = 0 /\ Absent.fields = {}
  BY DEF Init, Absent
<1>. QED BY <1>1, IdleRight DEF Init, Right, KnownRight, FieldsHaveColumns, Registered

LEMMA RightStep ==
  ASSUME ~Deletes, ~Restarts, ~DdlMayFail
  PROVE  Typed /\ Right /\ [Next]_vars => Right'
<1>. SUFFICES ASSUME Typed, Right, [Next]_vars PROVE Right'
  OBVIOUS
<1>1. CASE UNCHANGED vars
  BY <1>1 DEF vars, Right, KnownRight, FieldsHaveColumns, Registered, CallRight, LoopRight, Complete
<1>2. ASSUME NEW c \in Calls, Start(c) PROVE Right'
  <2>1. ASSUME NEW s \in Schemas, NEW F \in SUBSET Fields, NEW linked \in BOOLEAN,
               CreateSchema(c, s, F, linked)
        PROVE  Right'
    BY <2>1, RightCreateSchema
  <2>2. ASSUME NEW s \in Schemas, NEW f \in Fields, NEW linked \in BOOLEAN,
               CreateField(c, stored[s], f, linked)
        PROVE  Right'
    BY <2>2, RightCreateField
  <2>. QED BY <1>2, <2>1, <2>2 DEF Start, DeleteSchema, DeleteField
<1>3. ASSUME NEW c \in Calls, Proceed(c) PROVE Right'
  <2>1. ASSUME DeleteFields(c) \/ Unregister(c) PROVE FALSE
    BY <2>1 DEF Right, CallRight, DeleteFields, Unregister
  <2>. QED BY <1>3, <2>1, RightInsertSchema, RightCreateTable, RightRegister, RightEach, RightOuter,
              RightAddRow, RightFind, RightAddColumn, RightSetField DEF Proceed
<1>. QED BY <1>1, <1>2, <1>3 DEF Next, Restart

(* A registered field has its column, however calls overlap, as long as     *)
(* nothing is deleted, no DDL statement is refused and the server does not  *)
(* stop half-way (SchemaFields.Write).                                      *)
THEOREM ColumnsFirst ==
  ASSUME ~Deletes, ~Restarts, ~DdlMayFail
  PROVE  Spec => []FieldsHaveColumns
<1>1. Init => Typed /\ Right
  BY TypeInit, TypeParts, RightInit
<1>2. Typed /\ Right /\ [Next]_vars => (Typed /\ Right)'
  BY TypeStep, RightStep
<1>3. Typed /\ Right => FieldsHaveColumns
  BY DEF Right
<1>. QED BY <1>1, <1>2, <1>3, PTL DEF Spec

----------------------------------------------------------------------------
(***************************************************************************)
(* NoGhost and NothingForgotten, for calls that wait for each other, with  *)
(* deletions, refused DDL statements and restarts.  At most one call c is  *)
(* at work; what it still owes to the registry is said by where it is.     *)
(***************************************************************************)
Lone(c) == \A d \in Calls \ {c} : call[d].pc = "idle"

(* A registered schema has its row, or is being deleted.                    *)
Known(me) ==
    \A s \in Schemas : Registered(s) =>
        \/ registry[s].id = stored[s]
        \/ me.pc \in {"unfields", "unregister"} /\ me.name = s

(* A row is registered, or about to be.                                     *)
Kept(me) ==
    \A s \in Schemas, f \in Fields \ Many :
        Registered(s) /\ registry[s].id = stored[s] /\ [schema |-> stored[s], name |-> f] \in fieldRows
            => \/ f \in registry[s].fields
               \/ me.pc \in {"find", "column", "set"} /\ me.id = stored[s] /\ me.field = f

(* What the call at work knows of the registry is what is there.            *)
LoopUpToDate(me) ==
    /\ me.outer.id # 0 /\ registry[me.name].id = me.outer.id
    /\ \A f \in me.todo : f.schema = me.outer.id
    /\ me.pc \in {"row", "find", "column", "set"} => me.id = me.outer.id
    /\ me.pc # "outer" => registry[me.name].fields = me.outer.fields
    /\ me.pc = "outer" => registry[me.name].fields \subseteq me.outer.fields \cup {me.field}

UpToDate(me) ==
    /\ me.pc \in {"table", "register"} =>
           /\ me.id # 0 /\ stored[me.name] = me.id /\ ~Registered(me.name)
           /\ \A row \in fieldRows : row.schema # me.id
    /\ me.pc \in {"column", "set"} =>
           /\ registry[me.found] = me.copy /\ me.copy.id = me.id /\ me.id # 0
    /\ me.pc \in {"unfields", "unregister"} => stored[me.name] = 0
    /\ me.pc = "outer" => me.back = "outer"
    /\ me.pc # "idle" /\ me.back = "outer" => LoopUpToDate(me)

(* Ids of fields' schemas were given: a new schema starts without fields.   *)
IdsGiven ==
    /\ \A row \in fieldRows \cup missing : row.schema < nextId
    /\ \A c \in Calls : /\ \A row \in call[c].todo : row.schema < nextId
                        /\ call[c].id < nextId
    /\ \A s \in Schemas : registry[s].id < nextId

At(c) == Known(call[c]) /\ Kept(call[c]) /\ UpToDate(call[c])

InTurn ==
    /\ IdsGiven
    /\ \A c, d \in Calls : call[c].pc # "idle" /\ call[d].pc # "idle" => c = d
    /\ \A c \in Calls : Lone(c) => At(c)

(* Enough to look at the one call at work.                                  *)
LEMMA OneAtWork ==
  ASSUME Typed, InTurn, NEW c \in Calls, Lone(c),
         \A d \in Calls \ {c} : call'[d] = call[d],
         IdsGiven', Known(call[c])', Kept(call[c])', UpToDate(call[c])'
  PROVE  InTurn'
<1>1. \A d \in Calls \ {c} : call'[d].pc = "idle"
  BY DEF Lone
<1>2. ASSUME NEW d \in Calls, Lone(d)' PROVE At(d)'
  <2>1. CASE d = c
    BY <2>1 DEF At
  <2>2. CASE d # c
    <3>1. call'[c].pc = "idle" /\ call'[d].pc = "idle"
      BY <1>1, <1>2, <2>2 DEF Lone
    <3>2. Known(call[d])'
      BY <3>1 DEF Known
    <3>3. Kept(call[d])'
      BY <3>1 DEF Kept
    <3>4. UpToDate(call[d])'
      BY <3>1 DEF UpToDate
    <3>. QED BY <3>2, <3>3, <3>4 DEF At
  <2>. QED BY <2>1, <2>2
<1>. QED BY <1>1, <1>2 DEF InTurn

(* A call that starts, and a call that goes on, is alone.                   *)
LEMMA StartsAlone ==
  ASSUME Serial, InTurn, NEW c \in Calls, Accept(c)
  PROVE  Lone(c) /\ At(c) /\ call[c].pc = "idle"
  BY DEF Accept, Lone, InTurn

LEMMA GoesOnAlone ==
  ASSUME InTurn, NEW c \in Calls, call[c].pc # "idle"
  PROVE  Lone(c) /\ At(c)
  BY DEF Lone, InTurn

(* Steps that change neither the rows of schemas nor the registry.          *)
LEMMA CallMoves ==
  ASSUME Typed, InTurn, NEW c \in Calls, Lone(c),
         \A d \in Calls \ {c} : call'[d] = call[d],
         UNCHANGED <<stored, nextId, registry, fieldRows>>, missing' \subseteq missing,
         \A row \in call'[c].todo : row.schema < nextId, call'[c].id < nextId,
         Known(call'[c]), Kept(call'[c]), UpToDate(call'[c])
  PROVE  InTurn'
<1>1. IdsGiven'
  BY DEF IdsGiven, InTurn
<1>2. Known(call[c])' /\ Kept(call[c])'
  BY DEF Known, Kept, Registered
<1>3. UpToDate(call[c])'
  BY DEF UpToDate, LoopUpToDate, Registered
<1>. QED BY <1>1, <1>2, <1>3, OneAtWork

(* Between its special points a call owes nothing.                          *)
LEMMA Owes ==
  ASSUME NEW me, NEW other
  PROVE  /\ Known(me) /\ me.pc \notin {"unfields", "unregister"} => Known(other)
         /\ Kept(me) /\ me.pc \notin {"find", "column", "set"} => Kept(other)
  BY DEF Known, Kept

LEMMA IdleUpToDate == UpToDate(Idle) /\ Idle.todo = {} /\ Idle.id = 0
  BY DEF UpToDate, Idle

LEMMA EndsInTurn ==
  ASSUME Typed, InTurn, NEW c \in Calls, Lone(c), End(c),
         UNCHANGED <<stored, nextId, registry, fieldRows, missing>>,
         Known(Idle), Kept(Idle)
  PROVE  InTurn'
<1>1. call'[c] = Idle /\ \A d \in Calls \ {c} : call'[d] = call[d]
  BY DEF End, Typed, CallsOK
<1>2. 0 < nextId
  BY DEF Typed, RowsOK
<1>. QED BY <1>1, <1>2, IdleUpToDate, CallMoves

LEMMA TurnCreateSchema ==
  ASSUME Serial, Typed, InTurn, NEW c \in Calls, NEW s \in Schemas, NEW F \in SUBSET Fields,
         NEW linked \in BOOLEAN, CreateSchema(c, s, F, linked)
  PROVE  InTurn'
<1>1. Lone(c) /\ At(c) /\ call[c].pc = "idle"
  BY StartsAlone DEF CreateSchema
<1>2. \A d \in Calls \ {c} : call'[d] = call[d]
  BY DEF CreateSchema, Typed, CallsOK
<1>3. Known(call'[c]) /\ Kept(call'[c])
  BY <1>1, Owes DEF At
<1>4. 0 < nextId /\ registry[s].id < nextId
  BY DEF Typed, RowsOK, InTurn, IdsGiven
<1>5. CASE F # {} /\ Registered(s)
  <2>1. call'[c] = [Idle EXCEPT !.pc = "each", !.back = "outer", !.name = s,
                                !.outer = registry[s], !.linked = linked,
                                !.todo = [schema: {registry[s].id}, name: F \ registry[s].fields]]
    BY <1>5 DEF CreateSchema, Typed, CallsOK
  <2>2. /\ call'[c].pc = "each" /\ call'[c].back = "outer" /\ call'[c].name = s /\ call'[c].id = 0
        /\ call'[c].outer = registry[s]
        /\ call'[c].todo = [schema: {registry[s].id}, name: F \ registry[s].fields]
    BY <2>1 DEF Idle
  <2>3. UpToDate(call'[c])
    BY <1>5, <2>2 DEF UpToDate, LoopUpToDate, Registered
  <2>4. \A row \in call'[c].todo : row.schema < nextId
    BY <1>4, <2>2
  <2>. QED BY <1>1, <1>2, <1>3, <1>4, <2>2, <2>3, <2>4, CallMoves DEF CreateSchema
<1>6. CASE ~(F # {} /\ Registered(s))
  <2>1. call'[c] = [Idle EXCEPT !.pc = "insert", !.name = s]
    BY <1>6 DEF CreateSchema, Typed, CallsOK
  <2>2. call'[c].pc = "insert" /\ call'[c].back = "idle" /\ call'[c].id = 0 /\ call'[c].todo = {}
    BY <2>1 DEF Idle
  <2>3. UpToDate(call'[c])
    BY <2>2 DEF UpToDate
  <2>. QED BY <1>1, <1>2, <1>3, <1>4, <2>2, <2>3, CallMoves DEF CreateSchema
<1>. QED BY <1>5, <1>6

LEMMA TurnInsertSchema ==
  ASSUME Typed, InTurn, NEW c \in Calls, InsertSchema(c)
  PROVE  InTurn'
<1>1. call[c] \in CallRow /\ call[c].name \in Schemas /\ call[c].pc = "insert"
  BY DEF Typed, CallsOK, CallRow, InsertSchema
<1>2. Lone(c) /\ At(c)
  BY <1>1, GoesOnAlone
<1>3. \A other : Known(other) /\ Kept(other)
  BY <1>1, <1>2, Owes DEF At
<1>4. CASE End(c) /\ UNCHANGED <<stored, nextId>>
  BY <1>2, <1>3, <1>4, EndsInTurn DEF InsertSchema
<1>5. CASE ~(End(c) /\ UNCHANGED <<stored, nextId>>)
  <2>. DEFINE s == call[c].name
  <2>1. /\ stored[s] = 0 /\ stored' = [stored EXCEPT ![s] = nextId] /\ nextId' = nextId + 1
        /\ call' = [call EXCEPT ![c].pc = "table", ![c].id = nextId]
        /\ UNCHANGED <<registry, fieldRows, missing>>
    BY <1>5 DEF InsertSchema
  <2>2. /\ \A d \in Calls \ {c} : call'[d] = call[d]
        /\ call'[c].pc = "table" /\ call'[c].id = nextId /\ call'[c].name = s
        /\ call'[c].back = call[c].back /\ call'[c].outer = call[c].outer
        /\ call'[c].todo = call[c].todo
    BY <1>1, <2>1 DEF Typed, CallsOK, CallRow
  <2>3. nextId \in Nat /\ nextId # 0 /\ \A r \in Schemas : stored'[r] = IF r = s THEN nextId ELSE stored[r]
    BY <1>1, <2>1 DEF Typed, RowsOK
  <2>4. ~Registered(s)
    BY <1>1, <1>2, <2>1 DEF At, Known, Registered
  <2>5. IdsGiven'
    <3>1. \A i : i \in Int /\ i < nextId => i < nextId'
      BY <2>1, <2>3
    <3>2. \A row \in fieldRows \cup missing : row.schema \in Int /\ row.schema < nextId
      BY DEF Typed, MapsOK, FieldRow, Ids, InTurn, IdsGiven
    <3>3. \A d \in Calls : /\ \A row \in call[d].todo : row.schema \in Int /\ row.schema < nextId
                          /\ call[d].id \in Int /\ call[d].id < nextId
      BY DEF Typed, CallsOK, CallRow, FieldRow, Ids, InTurn, IdsGiven
    <3>4. \A r \in Schemas : registry[r].id \in Int /\ registry[r].id < nextId
      BY DEF Typed, MapsOK, Model, InTurn, IdsGiven
    <3>5. nextId < nextId'
      BY <2>1, <2>3
    <3>6. \A d \in Calls : call'[d].todo = call[d].todo /\ call'[d].id \in {nextId, call[d].id}
      BY <2>2
    <3>. QED BY <2>1, <3>1, <3>2, <3>3, <3>4, <3>5, <3>6 DEF IdsGiven
  <2>6. Known(call[c])'
    BY <1>1, <1>2, <2>1, <2>3, <2>4 DEF At, Known, Registered
  <2>7. Kept(call[c])'
    <3>1. Kept(call[c])
      BY <1>2 DEF At
    <3>. QED BY <1>1, <2>1, <2>3, <2>4, <3>1 DEF Kept, Registered
  <2>8. UpToDate(call[c])'
    <3>1. \A row \in fieldRows : row.schema # nextId
      BY <2>3 DEF InTurn, IdsGiven, Typed, MapsOK, FieldRow, Ids
    <3>2. call[c].back = "outer" => LoopUpToDate(call[c])
      BY <1>1, <1>2 DEF At, UpToDate
    <3>3. call[c].back = "outer" => LoopUpToDate(call[c])'
      BY <1>1, <2>1, <2>2, <3>2 DEF LoopUpToDate
    <3>. QED BY <1>1, <2>1, <2>2, <2>3, <2>4, <3>1, <3>3 DEF UpToDate, Registered
  <2>. QED BY <1>2, <2>2, <2>5, <2>6, <2>7, <2>8, OneAtWork
<1>. QED BY <1>4, <1>5

LEMMA TurnCreateTable ==
  ASSUME Typed, InTurn, NEW c \in Calls, CreateTable(c)
  PROVE  InTurn'
<1>1. call[c] \in CallRow /\ call[c].pc = "table"
  BY DEF Typed, CallsOK, CreateTable
<1>2. Lone(c) /\ At(c)
  BY <1>1, GoesOnAlone
<1>3. \A other : Known(other) /\ Kept(other)
  BY <1>1, <1>2, Owes DEF At
<1>4. CASE End(c)
  BY <1>2, <1>3, <1>4, EndsInTurn DEF CreateTable
<1>5. CASE Go(c, "register")
  <2>1. /\ \A d \in Calls \ {c} : call'[d] = call[d]
        /\ call'[c] = [call[c] EXCEPT !.pc = "register"]
    BY <1>5 DEF Go, Typed, CallsOK
  <2>2. /\ call'[c].pc = "register" /\ call'[c].back = call[c].back /\ call'[c].name = call[c].name
        /\ call'[c].outer = call[c].outer /\ call'[c].todo = call[c].todo
        /\ call'[c].field = call[c].field /\ call'[c].id = call[c].id
    BY <1>1, <2>1 DEF CallRow
  <2>3. UpToDate(call'[c])
    BY <1>1, <1>2, <2>2 DEF At, UpToDate, LoopUpToDate
  <2>4. (\A row \in call'[c].todo : row.schema < nextId) /\ call'[c].id < nextId
    BY <2>2 DEF InTurn, IdsGiven
  <2>. QED BY <1>2, <1>3, <2>1, <2>3, <2>4, CallMoves DEF CreateTable
<1>. QED BY <1>4, <1>5 DEF CreateTable

LEMMA TurnRegister ==
  ASSUME Typed, InTurn, NEW c \in Calls, Register(c)
  PROVE  InTurn'
<1>. DEFINE s == call[c].name
<1>1. call[c] \in CallRow /\ s \in Schemas /\ call[c].pc = "register"
  BY DEF Typed, CallsOK, CallRow, Register
<1>2. Lone(c) /\ At(c)
  BY <1>1, GoesOnAlone
<1>3. /\ \A d \in Calls \ {c} : call'[d] = call[d]
      /\ call'[c].pc = "each" /\ call'[c].back = "each" /\ call'[c].id = call[c].id
      /\ call'[c].todo \subseteq missing
  BY <1>1 DEF Register, Typed, CallsOK, CallRow
<1>4. /\ stored[s] = call[c].id /\ call[c].id # 0 /\ ~Registered(s)
      /\ \A row \in fieldRows : row.schema # call[c].id
  BY <1>1, <1>2 DEF At, UpToDate
<1>5. \A r \in Schemas : registry'[r] = IF r = s THEN [id |-> call[c].id, fields |-> {}] ELSE registry[r]
  BY <1>1, <1>4 DEF Register, Typed, MapsOK
<1>6. UNCHANGED <<stored, nextId, fieldRows, missing>>
  BY DEF Register
<1>7. IdsGiven'
  BY <1>3, <1>5, <1>6 DEF IdsGiven, InTurn
<1>8. Known(call[c])'
  BY <1>1, <1>2, <1>4, <1>5, <1>6 DEF At, Known, Registered
<1>9. Kept(call[c])'
  <2>1. Kept(call[c])
    BY <1>2 DEF At
  <2>. QED BY <1>1, <1>4, <1>5, <1>6, <2>1 DEF Kept, Registered
<1>10. UpToDate(call[c])'
  BY <1>3 DEF UpToDate
<1>. QED BY <1>2, <1>3, <1>7, <1>8, <1>9, <1>10, OneAtWork

LEMMA TurnEach ==
  ASSUME Typed, InTurn, NEW c \in Calls, Each(c)
  PROVE  InTurn'
<1>1. call[c] \in CallRow /\ call[c].pc = "each"
  BY DEF Typed, CallsOK, Each
<1>2. Lone(c) /\ At(c)
  BY <1>1, GoesOnAlone
<1>3. \A other : Known(other) /\ Kept(other)
  BY <1>1, <1>2, Owes DEF At
<1>4. CASE End(c) /\ UNCHANGED missing
  BY <1>2, <1>3, <1>4, EndsInTurn DEF Each
<1>5. CASE ~(End(c) /\ UNCHANGED missing)
  <2>. DEFINE next(f) == [call[c] EXCEPT !.todo = call[c].todo \ {f}, !.id = f.schema, !.field = f.name]
  <2>1. PICK f \in call[c].todo : call' = [call EXCEPT ![c] = [next(f) EXCEPT !.pc = "row"]]
                                  \/ call' = [call EXCEPT ![c] = next(f)]
    BY <1>1, <1>5 DEF Each, CallRow
  <2>2. PICK row \in {next(f), [next(f) EXCEPT !.pc = "row"]} : call' = [call EXCEPT ![c] = row]
    BY <2>1
  <2>3. /\ row.pc \in {"row", "each"} /\ row.id = f.schema /\ row.todo = call[c].todo \ {f}
        /\ row.back = call[c].back /\ row.name = call[c].name /\ row.outer = call[c].outer
    BY <1>1, <2>2 DEF CallRow
  <2>4. call'[c] = row /\ \A d \in Calls \ {c} : call'[d] = call[d]
    BY <2>2 DEF Typed, CallsOK
  <2>. HIDE DEF next
  <2>5. UpToDate(call'[c])
    BY <1>1, <1>2, <2>3, <2>4 DEF At, UpToDate, LoopUpToDate
  <2>6. (\A r \in call'[c].todo : r.schema < nextId) /\ call'[c].id < nextId
    BY <2>1, <2>3, <2>4 DEF InTurn, IdsGiven
  <2>7. UNCHANGED <<stored, nextId, registry, fieldRows>> /\ missing' \subseteq missing
    BY DEF Each
  <2>. QED BY <1>2, <1>3, <2>4, <2>5, <2>6, <2>7, CallMoves
<1>. QED BY <1>4, <1>5

LEMMA TurnOuter ==
  ASSUME Typed, InTurn, NEW c \in Calls, Outer(c)
  PROVE  InTurn'
<1>. DEFINE me == call[c]
            new == [me.outer EXCEPT !.fields = me.outer.fields \cup {me.field}]
<1>1. me \in CallRow /\ me.name \in Schemas /\ me.outer \in Model /\ me.pc = "outer"
  BY DEF Typed, CallsOK, CallRow, Outer
<1>2. Lone(c) /\ At(c)
  BY <1>1, GoesOnAlone
<1>3. LoopUpToDate(me)
  BY <1>1, <1>2 DEF At, UpToDate
<1>4. new.id = me.outer.id /\ new.fields = me.outer.fields \cup {me.field}
  BY <1>1 DEF Model
<1>5. call' = [call EXCEPT ![c] = [me EXCEPT !.pc = "each", !.outer = new]]
      /\ registry' = [registry EXCEPT ![me.name] = new]
      /\ UNCHANGED <<stored, nextId, fieldRows, missing>>
  BY <1>1 DEF Outer, Typed, CallsOK, CallRow, Model
<1>. HIDE DEF new
<1>6. /\ \A d \in Calls \ {c} : call'[d] = call[d]
      /\ call'[c].pc = "each" /\ call'[c].back = me.back /\ call'[c].name = me.name
      /\ call'[c].todo = me.todo /\ call'[c].outer = new /\ call'[c].id = me.id
  BY <1>1, <1>5 DEF Typed, CallsOK, CallRow
<1>7. \A s \in Schemas : registry'[s] = IF s = me.name THEN new ELSE registry[s]
  BY <1>1, <1>5 DEF Typed, MapsOK
<1>8. registry[me.name].id = new.id /\ new.id # 0 /\ registry[me.name].fields \subseteq new.fields
  BY <1>1, <1>3, <1>4 DEF LoopUpToDate
<1>9. \A s \in Schemas : registry'[s].id = registry[s].id /\ registry[s].fields \subseteq registry'[s].fields
  BY <1>7, <1>8
<1>10. IdsGiven'
  BY <1>5, <1>6, <1>9 DEF IdsGiven, InTurn
<1>11. Known(call[c])'
  BY <1>1, <1>2, <1>5, <1>9 DEF At, Known, Registered
<1>12. Kept(call[c])'
  <2>1. \A s \in Schemas, f \in Fields \ Many :
          Registered(s) /\ registry[s].id = stored[s] /\ [schema |-> stored[s], name |-> f] \in fieldRows
            => f \in registry[s].fields
    BY <1>1, <1>2 DEF At, Kept
  <2>. QED BY <1>5, <1>9, <2>1 DEF Kept, Registered
<1>13. UpToDate(call[c])'
  <2>1. registry'[me.name].id = new.id /\ new.id # 0 /\ registry'[me.name].fields = new.fields
    BY <1>1, <1>7, <1>8
  <2>2. \A f \in me.todo : f.schema = new.id
    BY <1>3, <1>4 DEF LoopUpToDate
  <2>. HIDE DEF me
  <2>3. LoopUpToDate(call[c])'
    BY <1>6, <2>1, <2>2 DEF LoopUpToDate
  <2>. QED BY <1>6, <2>3 DEF UpToDate
<1>. QED BY <1>2, <1>6, <1>10, <1>11, <1>12, <1>13, OneAtWork

LEMMA TurnCreateField ==
  ASSUME Serial, Typed, InTurn, NEW c \in Calls, NEW s \in Schemas, NEW f, NEW linked,
         CreateField(c, stored[s], f, linked)
  PROVE  InTurn'
<1>1. Lone(c) /\ At(c) /\ call[c].pc = "idle"
  BY StartsAlone DEF CreateField
<1>2. /\ \A d \in Calls \ {c} : call'[d] = call[d]
      /\ call'[c] = [Idle EXCEPT !.pc = "row", !.id = stored[s], !.field = f, !.linked = linked]
  BY DEF CreateField, Typed, CallsOK
<1>3. call'[c].pc = "row" /\ call'[c].back = "idle" /\ call'[c].todo = {} /\ call'[c].id = stored[s]
  BY <1>2 DEF Idle
<1>4. Known(call'[c]) /\ Kept(call'[c])
  BY <1>1, Owes DEF At
<1>5. UpToDate(call'[c]) /\ stored[s] < nextId
  BY <1>3 DEF UpToDate, Typed, RowsOK
<1>. QED BY <1>1, <1>2, <1>3, <1>4, <1>5, CallMoves DEF CreateField

LEMMA TurnAddRow ==
  ASSUME Typed, InTurn, NEW c \in Calls, AddRow(c)
  PROVE  InTurn'
<1>. DEFINE me == call[c]
            row == [schema |-> me.id, name |-> me.field]
<1>1. me \in CallRow /\ me.pc = "row"
  BY DEF Typed, CallsOK, AddRow
<1>2. Lone(c) /\ At(c) /\ me.id < nextId
  BY <1>1, GoesOnAlone DEF InTurn, IdsGiven
<1>3. \A other : Known(other) /\ Kept(other)
  BY <1>1, <1>2, Owes DEF At
<1>4. UNCHANGED <<stored, nextId, registry>> /\ fieldRows' \cup missing' \subseteq fieldRows \cup missing \cup {row}
  BY DEF AddRow
<1>5. CASE End(c) /\ UNCHANGED fieldRows
  <2>1. call'[c] = Idle /\ \A d \in Calls \ {c} : call'[d] = call[d]
    BY <1>5 DEF End, Typed, CallsOK
  <2>2. 0 < nextId
    BY DEF Typed, RowsOK
  <2>3. IdsGiven'
    BY <1>2, <1>4, <2>1, <2>2, IdleUpToDate DEF IdsGiven, InTurn
  <2>4. Known(call[c])' /\ Kept(call[c])'
    BY <1>3, <1>4, <1>5 DEF Known, Kept, Registered
  <2>5. UpToDate(call[c])'
    BY <2>1 DEF UpToDate, Idle
  <2>. QED BY <1>2, <2>1, <2>3, <2>4, <2>5, OneAtWork
<1>6. ASSUME NEW pc \in {"each", "find"}, Go(c, pc),
             (\/ pc = "each" /\ UNCHANGED fieldRows
              \/ pc = "find" /\ fieldRows' = fieldRows \cup {row})
      PROVE  InTurn'
  <2>1. /\ \A d \in Calls \ {c} : call'[d] = call[d]
        /\ call'[c] = [me EXCEPT !.pc = pc]
    BY <1>6 DEF Go, Typed, CallsOK
  <2>2. /\ call'[c].pc = pc /\ call'[c].back = me.back /\ call'[c].name = me.name
        /\ call'[c].outer = me.outer /\ call'[c].todo = me.todo
        /\ call'[c].field = me.field /\ call'[c].id = me.id
    BY <1>1, <2>1 DEF CallRow
  <2>3. IdsGiven'
    <3>1. \A d \in Calls : call'[d].todo = call[d].todo /\ call'[d].id = call[d].id
      BY <2>1, <2>2
    <3>2. \A r \in fieldRows' \cup missing' : r.schema < nextId
      BY <1>2, <1>4 DEF InTurn, IdsGiven
    <3>. QED BY <1>4, <3>1, <3>2 DEF IdsGiven, InTurn
  <2>4. Known(call[c])'
    BY <1>3, <1>4 DEF Known, Registered
  <2>5. Kept(call[c])'
    BY <1>3, <1>4, <1>6, <2>2 DEF Kept, Registered
  <2>6. UpToDate(call[c])'
    <3>1. me.back = "outer" => LoopUpToDate(me)
      BY <1>1, <1>2 DEF At, UpToDate
    <3>. HIDE DEF me
    <3>2. me.back = "outer" => LoopUpToDate(call[c])'
      BY <1>1, <1>4, <1>6, <2>2, <3>1 DEF LoopUpToDate
    <3>. QED BY <1>6, <2>2, <3>2 DEF UpToDate
  <2>. QED BY <1>2, <2>1, <2>3, <2>4, <2>5, <2>6, OneAtWork
<1>. QED BY <1>5, <1>6 DEF AddRow, GiveUp

(* Of two names registered under the id of their rows there is only one.    *)
LEMMA SameRow ==
  ASSUME Typed, NEW me, Known(me), me.pc \notin {"unfields", "unregister"},
         NEW s \in Schemas, NEW r \in Schemas,
         registry[s].id = registry[r].id, registry[s].id # 0
  PROVE  s = r /\ registry[s].id = stored[s]
  BY DEF Typed, RowsOK, Known, Registered

(* A field's creation ends, its row being registered or without a schema.   *)
LEMMA BacksInTurn ==
  ASSUME Typed, InTurn, NEW c \in Calls, Lone(c), call[c].pc \in {"find", "set"},
         \A d \in Calls \ {c} : call'[d] = call[d],
         Back(c), UNCHANGED <<stored, nextId, fieldRows, missing>>,
         \A s \in Schemas : registry'[s].id = registry[s].id,
         Kept(Idle)',
         call[c].back = "outer" =>
             registry'[call[c].name].fields \subseteq call[c].outer.fields \cup {call[c].field}
  PROVE  InTurn'
<1>. DEFINE me == call[c]
<1>1. me \in CallRow /\ me.name \in Schemas /\ At(c)
  BY GoesOnAlone DEF Typed, CallsOK, CallRow
<1>2. call'[c] = Idle \/ (call'[c] = [me EXCEPT !.pc = me.back] /\ me.back \in {"each", "outer"})
  BY <1>1 DEF Back, End, Go, Typed, CallsOK, CallRow
<1>3. \/ call'[c].pc = "idle" /\ call'[c].todo = {} /\ call'[c].id = 0
      \/ /\ me.back \in {"each", "outer"} /\ call'[c].pc = me.back /\ call'[c].back = me.back
         /\ call'[c].name = me.name /\ call'[c].outer = me.outer /\ call'[c].todo = me.todo
         /\ call'[c].field = me.field /\ call'[c].id = me.id
  BY <1>1, <1>2, IdleTyped, IdleUpToDate DEF CallRow
<1>4. IdsGiven'
  <2>1. \A r \in call'[c].todo : r.schema < nextId
    BY <1>3 DEF InTurn, IdsGiven
  <2>2. call'[c].id < nextId
    BY <1>3 DEF InTurn, IdsGiven, Typed, RowsOK
  <2>. QED BY <2>1, <2>2 DEF IdsGiven, InTurn
<1>5. Known(call[c])'
  BY <1>1 DEF At, Known, Registered
<1>6. Kept(call[c])'
  BY IdleTyped DEF Kept
<1>7. UpToDate(call[c])'
  <2>1. CASE call'[c].pc = "idle"
    BY <2>1 DEF UpToDate
  <2>2. CASE me.back = "each" /\ call'[c].pc = "each" /\ call'[c].back = "each"
    BY <2>2 DEF UpToDate
  <2>3. CASE me.back = "outer" /\ call'[c].pc = "outer" /\ call'[c].back = "outer"
    <3>1. LoopUpToDate(me)
      BY <1>1, <2>3 DEF At, UpToDate
    <3>2. registry'[me.name].id = me.outer.id
      BY <1>1, <3>1 DEF LoopUpToDate
    <3>3. registry'[me.name].fields \subseteq me.outer.fields \cup {me.field}
      BY <2>3
    <3>. HIDE DEF me
    <3>4. LoopUpToDate(call[c])'
      BY <1>3, <2>3, <3>1, <3>2, <3>3 DEF LoopUpToDate
    <3>. QED BY <2>3, <3>4 DEF UpToDate
  <2>. QED BY <1>3, <2>1, <2>2, <2>3
<1>. QED BY <1>4, <1>5, <1>6, <1>7, OneAtWork

LEMMA BackOthers ==
  ASSUME Typed, NEW c \in Calls, Back(c)
  PROVE  \A d \in Calls \ {c} : call'[d] = call[d]
  BY DEF Back, End, Go, Typed, CallsOK

LEMMA TurnFind ==
  ASSUME Typed, InTurn, NEW c \in Calls, Find(c)
  PROVE  InTurn'
<1>. DEFINE me == call[c]
<1>1. me \in CallRow /\ me.name \in Schemas /\ me.pc = "find"
  BY DEF Typed, CallsOK, CallRow, Find
<1>2. Lone(c) /\ At(c)
  BY <1>1, GoesOnAlone
<1>3. UNCHANGED <<stored, nextId, registry, fieldRows, missing>>
  BY DEF Find
<1>4. ASSUME NEW s \in Schemas, Registered(s), registry[s].id = me.id,
             call' = [call EXCEPT ![c] = [me EXCEPT !.pc = "column", !.found = s, !.copy = registry[s]]]
      PROVE  InTurn'
  <2>1. /\ \A d \in Calls \ {c} : call'[d] = call[d]
        /\ call'[c] = [me EXCEPT !.pc = "column", !.found = s, !.copy = registry[s]]
    BY <1>4 DEF Typed, CallsOK
  <2>2. /\ call'[c].pc = "column" /\ call'[c].found = s /\ call'[c].copy = registry[s]
        /\ call'[c].back = me.back /\ call'[c].id = me.id /\ call'[c].name = me.name
        /\ call'[c].outer = me.outer /\ call'[c].todo = me.todo /\ call'[c].field = me.field
    BY <1>1, <2>1 DEF CallRow
  <2>3. Known(call'[c]) /\ Kept(call'[c])
    BY <1>1, <1>2, <2>2 DEF At, Known, Kept
  <2>4. UpToDate(call'[c])
    BY <1>1, <1>2, <1>4, <2>2 DEF At, UpToDate, LoopUpToDate, Registered
  <2>5. (\A r \in call'[c].todo : r.schema < nextId) /\ call'[c].id < nextId
    BY <2>2 DEF InTurn, IdsGiven
  <2>. QED BY <1>2, <1>3, <2>1, <2>3, <2>4, <2>5, CallMoves
<1>5. ASSUME Back(c),
             (\/ ~\E s \in Schemas : Registered(s) /\ registry[s].id = me.id
              \/ \E s \in Schemas : /\ Registered(s) /\ registry[s].id = me.id
                                    /\ me.field \in Many \cup registry[s].fields)
      PROVE  InTurn'
  <2>1. Kept(Idle)
    BY <1>1, <1>2, <1>5, SameRow DEF At, Kept, Registered
  <2>2. Kept(Idle)'
    BY <1>3, <2>1 DEF Kept, Registered
  <2>3. me.back = "outer" => registry'[me.name].fields \subseteq me.outer.fields \cup {me.field}
    BY <1>1, <1>2, <1>3 DEF At, UpToDate, LoopUpToDate
  <2>. QED BY <1>1, <1>2, <1>3, <1>5, <2>2, <2>3, BacksInTurn, BackOthers
<1>. QED BY <1>4, <1>5 DEF Find

LEMMA TurnAddColumn ==
  ASSUME Typed, InTurn, NEW c \in Calls, AddColumn(c)
  PROVE  InTurn'
<1>1. call[c] \in CallRow /\ call[c].pc = "column"
  BY DEF Typed, CallsOK, AddColumn
<1>2. Lone(c) /\ At(c)
  BY <1>1, GoesOnAlone
<1>3. /\ \A d \in Calls \ {c} : call'[d] = call[d]
      /\ call'[c] = [call[c] EXCEPT !.pc = "set"]
  BY DEF AddColumn, Go, Typed, CallsOK
<1>4. /\ call'[c].pc = "set" /\ call'[c].back = call[c].back /\ call'[c].name = call[c].name
      /\ call'[c].outer = call[c].outer /\ call'[c].todo = call[c].todo
      /\ call'[c].field = call[c].field /\ call'[c].id = call[c].id
      /\ call'[c].found = call[c].found /\ call'[c].copy = call[c].copy
  BY <1>1, <1>3 DEF CallRow
<1>5. Known(call'[c]) /\ Kept(call'[c])
  BY <1>1, <1>2, <1>4 DEF At, Known, Kept
<1>6. UpToDate(call'[c])
  BY <1>1, <1>2, <1>4 DEF At, UpToDate, LoopUpToDate
<1>7. (\A r \in call'[c].todo : r.schema < nextId) /\ call'[c].id < nextId
  BY <1>4 DEF InTurn, IdsGiven
<1>. QED BY <1>2, <1>3, <1>5, <1>6, <1>7, CallMoves DEF AddColumn

LEMMA TurnSetField ==
  ASSUME Typed, InTurn, NEW c \in Calls, SetField(c)
  PROVE  InTurn'
<1>. DEFINE me == call[c]
            new == [me.copy EXCEPT !.fields = me.copy.fields \cup {me.field}]
<1>1. /\ me \in CallRow /\ me.name \in Schemas /\ me.found \in Schemas /\ me.copy \in Model
      /\ me.pc = "set"
  BY DEF Typed, CallsOK, CallRow, SetField
<1>2. Lone(c) /\ At(c)
  BY <1>1, GoesOnAlone
<1>3. registry[me.found] = me.copy /\ me.copy.id = me.id /\ me.id # 0
  BY <1>1, <1>2 DEF At, UpToDate
<1>4. new.id = me.copy.id /\ new.fields = me.copy.fields \cup {me.field}
  BY <1>1 DEF Model
<1>5. \A s \in Schemas : registry'[s] = IF s = me.found THEN new ELSE registry[s]
  BY <1>1 DEF SetField, Typed, MapsOK
<1>6. UNCHANGED <<stored, nextId, fieldRows, missing>> /\ Back(c)
  BY DEF SetField
<1>. HIDE DEF new
<1>7. \A s \in Schemas : /\ registry'[s].id = registry[s].id
                        /\ registry[s].fields \subseteq registry'[s].fields
  BY <1>1, <1>3, <1>4, <1>5
<1>8. Kept(Idle)'
  <2>1. Kept(me) /\ Known(me)
    BY <1>2 DEF At
  <2>2. me.field \in registry'[me.found].fields /\ registry[me.found].id = me.id
    BY <1>1, <1>3, <1>4, <1>5
  <2>3. \A s \in Schemas : registry[s].id = me.id => s = me.found
    BY <1>1, <1>3, <2>1, <2>2, SameRow
  <2>. QED BY <1>6, <1>7, <2>1, <2>2, <2>3 DEF Kept, Registered
<1>9. ASSUME me.back = "outer"
      PROVE  registry'[me.name].fields \subseteq me.outer.fields \cup {me.field}
  <2>1. /\ me.id = me.outer.id /\ registry[me.name].id = me.outer.id
        /\ registry[me.name].fields = me.outer.fields
    BY <1>1, <1>2, <1>9 DEF At, UpToDate, LoopUpToDate
  <2>2. me.found = me.name
    BY <1>1, <1>2, <1>3, <2>1, SameRow DEF At
  <2>. QED BY <1>1, <1>3, <1>4, <1>5, <2>1, <2>2
<1>. QED BY <1>1, <1>2, <1>6, <1>7, <1>8, <1>9, BacksInTurn, BackOthers

LEMMA TurnDeleteSchema ==
  ASSUME Serial, Typed, InTurn, NEW c \in Calls, NEW s \in Schemas, DeleteSchema(c, s)
  PROVE  InTurn'
<1>. DEFINE row == [Idle EXCEPT !.pc = "unfields", !.name = s, !.id = registry[s].id]
<1>1. Lone(c) /\ At(c) /\ call[c].pc = "idle"
  BY StartsAlone DEF DeleteSchema
<1>2. call'[c] = (IF Registered(s) THEN row ELSE Idle) /\ \A d \in Calls \ {c} : call'[d] = call[d]
  BY DEF DeleteSchema, Typed, CallsOK
<1>3. row.pc = "unfields" /\ row.back = "idle" /\ row.name = s /\ row.id = registry[s].id /\ row.todo = {}
  BY DEF Idle
<1>. HIDE DEF row
<1>4. /\ \A r \in Schemas : stored'[r] = IF r = s THEN 0 ELSE stored[r]
      /\ UNCHANGED <<nextId, registry, fieldRows, missing>>
  BY DEF DeleteSchema, Typed, RowsOK
<1>5. \A r \in Schemas : Registered(r) => registry[r].id = stored[r]
  BY <1>1 DEF At, Known
<1>6. IdsGiven'
  <2>1. 0 < nextId /\ registry[s].id < nextId
    BY DEF Typed, RowsOK, InTurn, IdsGiven
  <2>2. call'[c].todo = {} /\ call'[c].id < nextId
    BY <1>2, <1>3, <2>1, IdleUpToDate
  <2>. QED BY <1>2, <1>4, <2>2 DEF IdsGiven, InTurn
<1>7. Known(call[c])'
  BY <1>2, <1>3, <1>4, <1>5 DEF Known, Registered
<1>8. Kept(call[c])'
  BY <1>1, <1>4 DEF At, Kept, Registered
<1>9. UpToDate(call[c])'
  BY <1>2, <1>3, <1>4, IdleTyped DEF UpToDate
<1>. QED BY <1>1, <1>2, <1>6, <1>7, <1>8, <1>9, OneAtWork

LEMMA TurnDeleteFields ==
  ASSUME Typed, InTurn, NEW c \in Calls, DeleteFields(c)
  PROVE  InTurn'
<1>1. call[c] \in CallRow /\ call[c].pc = "unfields"
  BY DEF Typed, CallsOK, DeleteFields
<1>2. Lone(c) /\ At(c)
  BY <1>1, GoesOnAlone
<1>3. /\ \A d \in Calls \ {c} : call'[d] = call[d]
      /\ call'[c] = [call[c] EXCEPT !.pc = "unregister"]
  BY DEF DeleteFields, Go, Typed, CallsOK
<1>4. /\ call'[c].pc = "unregister" /\ call'[c].back = call[c].back /\ call'[c].name = call[c].name
      /\ call'[c].outer = call[c].outer /\ call'[c].todo = call[c].todo
      /\ call'[c].field = call[c].field /\ call'[c].id = call[c].id
  BY <1>1, <1>3 DEF CallRow
<1>5. UNCHANGED <<stored, nextId, registry, missing>> /\ fieldRows' \subseteq fieldRows
  BY DEF DeleteFields
<1>6. IdsGiven'
  <2>1. \A d \in Calls : call'[d].todo = call[d].todo /\ call'[d].id = call[d].id
    BY <1>3, <1>4
  <2>. QED BY <1>5, <2>1 DEF IdsGiven, InTurn
<1>7. Known(call[c])' /\ Kept(call[c])'
  BY <1>1, <1>2, <1>4, <1>5 DEF At, Known, Kept, Registered
<1>8. UpToDate(call[c])'
  <2>1. stored[call[c].name] = 0 /\ (call[c].back = "outer" => LoopUpToDate(call[c]))
    BY <1>1, <1>2 DEF At, UpToDate
  <2>2. call[c].back = "outer" => LoopUpToDate(call[c])'
    BY <1>1, <1>4, <1>5, <2>1 DEF LoopUpToDate
  <2>. QED BY <1>4, <1>5, <2>1, <2>2 DEF UpToDate
<1>. QED BY <1>2, <1>3, <1>6, <1>7, <1>8, OneAtWork

LEMMA TurnUnregister ==
  ASSUME Typed, InTurn, NEW c \in Calls, Unregister(c)
  PROVE  InTurn'
<1>1. call[c] \in CallRow /\ call[c].name \in Schemas /\ call[c].pc = "unregister"
  BY DEF Typed, CallsOK, CallRow, Unregister
<1>2. Lone(c) /\ At(c)
  BY <1>1, GoesOnAlone
<1>3. call'[c] = Idle /\ \A d \in Calls \ {c} : call'[d] = call[d]
  BY DEF Unregister, End, Typed, CallsOK
<1>4. /\ \A s \in Schemas : registry'[s] = IF s = call[c].name THEN Absent ELSE registry[s]
      /\ UNCHANGED <<stored, nextId, fieldRows, missing>>
  BY DEF Unregister, Typed, MapsOK
<1>5. Absent.id = 0 /\ 0 < nextId
  BY DEF Absent, Typed, RowsOK
<1>6. IdsGiven'
  BY <1>3, <1>4, <1>5, IdleUpToDate DEF IdsGiven, InTurn
<1>7. Known(call[c])'
  BY <1>1, <1>2, <1>4, <1>5 DEF At, Known, Registered
<1>8. Kept(call[c])'
  BY <1>1, <1>2, <1>4, <1>5 DEF At, Kept, Registered
<1>9. UpToDate(call[c])'
  BY <1>3, IdleTyped DEF UpToDate
<1>. QED BY <1>2, <1>3, <1>6, <1>7, <1>8, <1>9, OneAtWork

LEMMA TurnDeleteField ==
  ASSUME Serial, Typed, InTurn, NEW c \in Calls, NEW row \in fieldRows, DeleteField(c, row)
  PROVE  InTurn'
<1>1. Lone(c) /\ At(c) /\ call[c].pc = "idle"
  BY StartsAlone DEF DeleteField
<1>2. UNCHANGED <<stored, nextId, registry, missing, call>> /\ fieldRows' \subseteq fieldRows
  BY DEF DeleteField
<1>3. IdsGiven'
  BY <1>2 DEF IdsGiven, InTurn
<1>4. Known(call[c])' /\ Kept(call[c])'
  BY <1>1, <1>2 DEF At, Known, Kept, Registered
<1>5. UpToDate(call[c])'
  BY <1>1, <1>2 DEF UpToDate
<1>. QED BY <1>1, <1>2, <1>3, <1>4, <1>5, OneAtWork

(* A restart finds the rows as they are, and nobody at work.                *)
LEMMA TurnRestart ==
  ASSUME Typed, InTurn, Restart
  PROVE  InTurn'
<1>1. /\ UNCHANGED <<stored, nextId, fieldRows>> /\ missing' = {} /\ registry' = Loaded
      /\ \A c \in Calls : call'[c] = Idle
  BY DEF Restart
<1>2. ASSUME NEW s \in Schemas
      PROVE  /\ registry'[s].id = stored[s]
             /\ stored[s] # 0 => registry'[s].fields =
                                   {row.name : row \in {r \in fieldRows : r.schema = stored[s]}}
  BY <1>1 DEF Loaded, Absent
<1>3. \A s \in Schemas : stored[s] < nextId /\ 0 < nextId
  BY DEF Typed, RowsOK
<1>4. IdsGiven'
  BY <1>1, <1>2, <1>3, IdleUpToDate DEF IdsGiven, InTurn, Typed, RowsOK
<1>5. ASSUME NEW me PROVE Known(me)' /\ Kept(me)'
  <2>1. Known(me)'
    BY <1>1, <1>2 DEF Known, Registered
  <2>2. ASSUME NEW s \in Schemas, NEW f \in Fields, stored[s] # 0,
               [schema |-> stored[s], name |-> f] \in fieldRows
        PROVE  f \in registry'[s].fields
    <3>1. [schema |-> stored[s], name |-> f].name = f /\ [schema |-> stored[s], name |-> f].schema = stored[s]
      OBVIOUS
    <3>. QED BY <1>2, <2>2, <3>1
  <2>3. Kept(me)'
    BY <1>1, <1>2, <2>2 DEF Kept, Registered
  <2>. QED BY <2>1, <2>3
<1>6. \A c \in Calls : call'[c].pc = "idle" /\ UpToDate(call[c])'
  BY <1>1, IdleTyped DEF UpToDate
<1>. QED BY <1>4, <1>5, <1>6 DEF InTurn, At

LEMMA TurnInit == Init => InTurn
<1>. SUFFICES ASSUME Init PROVE InTurn
  OBVIOUS
<1>1. \A c \in Calls : call[c] = Idle
  BY DEF Init
<1>2. \A s \in Schemas : registry[s].id = 0
  BY DEF Init, Absent
<1>3. IdsGiven
  BY <1>1, <1>2, IdleUpToDate DEF Init, IdsGiven
<1>4. \A c \in Calls : At(c)
  BY <1>1, <1>2, IdleUpToDate DEF At, Known, Kept, Registered
<1>. QED BY <1>1, <1>3, <1>4, IdleTyped DEF InTurn

LEMMA TurnStep ==
  ASSUME Serial
  PROVE  Typed /\ InTurn /\ [Next]_vars => InTurn'
<1>. SUFFICES ASSUME Typed, InTurn, [Next]_vars PROVE InTurn'
  OBVIOUS
<1>1. CASE UNCHANGED vars
  BY <1>1 DEF vars, InTurn, IdsGiven, Lone, At, Known, Kept, UpToDate, LoopUpToDate, Registered
<1>2. ASSUME NEW c \in Calls, Start(c) PROVE InTurn'
  <2>1. ASSUME NEW s \in Schemas, NEW F \in SUBSET Fields, NEW linked \in BOOLEAN,
               CreateSchema(c, s, F, linked)
        PROVE  InTurn'
    BY <2>1, TurnCreateSchema
  <2>2. ASSUME NEW s \in Schemas, NEW f \in Fields, NEW linked \in BOOLEAN,
               CreateField(c, stored[s], f, linked)
        PROVE  InTurn'
    BY <2>2, TurnCreateField
  <2>. QED BY <1>2, <2>1, <2>2, TurnDeleteSchema, TurnDeleteField DEF Start
<1>3. ASSUME NEW c \in Calls, Proceed(c) PROVE InTurn'
  BY <1>3, TurnInsertSchema, TurnCreateTable, TurnRegister, TurnEach, TurnOuter, TurnAddRow,
     TurnFind, TurnAddColumn, TurnSetField, TurnDeleteFields, TurnUnregister DEF Proceed
<1>. QED BY <1>1, <1>2, <1>3, TurnRestart DEF Next

LEMMA InTurnAlways ==
  ASSUME Serial
  PROVE  Spec => [](Typed /\ InTurn)
<1>1. Init => Typed /\ InTurn
  BY TypeInit, TypeParts, TurnInit
<1>2. Typed /\ InTurn /\ [Next]_vars => (Typed /\ InTurn)'
  BY TypeStep, TurnStep
<1>. QED BY <1>1, <1>2, PTL DEF Spec

(* Calls that wait for each other leave no ghost in the registry, whatever  *)
(* is deleted, refused by the database or lost in a restart.                *)
THEOREM NoGhostInTurn ==
  ASSUME Serial
  PROVE  Spec => []NoGhost
<1>1. Typed /\ InTurn => NoGhost
  <2>. SUFFICES ASSUME InTurn, Quiet PROVE \A s \in Schemas : Registered(s) => registry[s].id = stored[s]
    BY DEF NoGhost
  <2>1. PICK c \in Calls : TRUE
    OBVIOUS
  <2>2. At(c) /\ call[c].pc = "idle"
    BY DEF InTurn, Lone, Quiet
  <2>. QED BY <2>2 DEF At, Known
<1>. QED BY <1>1, InTurnAlways, PTL

(* And they leave no field unregistered that has a row and needs a column.  *)
THEOREM NothingForgottenInTurn ==
  ASSUME Serial
  PROVE  Spec => []NothingForgotten
<1>1. Typed /\ InTurn => NothingForgotten
  <2>. SUFFICES ASSUME Typed, InTurn, Quiet, NEW s \in Schemas, Registered(s)
                PROVE  Loaded[s].fields \ Many \subseteq registry[s].fields
    BY DEF NothingForgotten
  <2>1. PICK c \in Calls : TRUE
    OBVIOUS
  <2>2. At(c) /\ call[c].pc = "idle"
    BY DEF InTurn, Lone, Quiet
  <2>3. registry[s].id = stored[s] /\ stored[s] # 0
    BY <2>2 DEF At, Known, Registered
  <2>4. ASSUME NEW f \in Loaded[s].fields \ Many PROVE f \in registry[s].fields
    <3>1. Loaded[s].fields = {row.name : row \in {r \in fieldRows : r.schema = stored[s]}}
      BY <2>3 DEF Loaded
    <3>2. PICK row \in fieldRows : row.schema = stored[s] /\ row.name = f
      BY <3>1
    <3>3. row \in FieldRow
      BY DEF Typed, MapsOK
    <3>4. row = [schema |-> stored[s], name |-> f] /\ f \in Fields
      BY <3>2, <3>3 DEF FieldRow
    <3>. QED BY <2>2, <2>3, <3>2, <3>4 DEF At, Kept
  <2>. QED BY <2>4
<1>. QED BY <1>1, InTurnAlways, PTL

=============================================================================
