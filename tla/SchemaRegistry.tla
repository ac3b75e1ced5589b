--------------------------- MODULE SchemaRegistry ---------------------------
(***************************************************************************)
(* The registry of schemas (domain/schema, specialized_service/            *)
(* schema_service): tables are described by rows of dbschema and           *)
(* dbschema_column, made by DDL statements, and every call consults a      *)
(* process-wide map of both, the registry.                                 *)
(*                                                                         *)
(* A call runs in a goroutine of its own.  One action is one statement on  *)
(* the database or one use of the registry's mutex, with the code up to    *)
(* the next.  A SchemaModel is passed by value: what a call holds is a     *)
(* copy of the registry's entry, and SetField writes a copy back.  (Copies *)
(* of a slice share their array from the fourth field on; Fields has at    *)
(* most three members where that matters.)                                 *)
(***************************************************************************)
EXTENDS Integers, FiniteSets

CONSTANTS
    Schemas, Fields,    \* names
    Many,               \* the fields of a "many" type: they have no column
    Target,             \* Target[f]: the foreign table of f \in Many
    Calls,              \* calls that can be in progress together
    Serial,             \* does each call wait for the end of the one before?
    Deletes,            \* may schemas and fields be deleted?
    Restarts,           \* may the server stop, at any time, and start again?
    DdlMayFail,         \* may a CREATE or ALTER TABLE be refused?
    MaxId, MaxCalls     \* bounds

ASSUME RegistryAssumption ==
    /\ MaxId \in Nat /\ MaxCalls \in Nat
    /\ Schemas # {} /\ Fields # {} /\ Calls # {}
    /\ Many \subseteq Fields /\ Target \in [Many -> Schemas]
    /\ {Serial, Deletes, Restarts, DdlMayFail} \subseteq BOOLEAN

VARIABLES
    stored,     \* dbschema: the id of a name's row, or 0
    nextId,
    fieldRows,  \* dbschema_column: [schema, name]
    tables,     \* the tables of the database, and their columns
    columns,    \* <<table, field>>
    registry,   \* SchemaRegistry: id 0 for a name that is not a key
    missing,    \* MissingField: fields waiting for their target
    call,
    made        \* the number of calls made
vars == <<stored, nextId, fieldRows, tables, columns, registry, missing, call, made>>

Ids == 1 .. MaxId
Model == [id: 0 .. MaxId, fields: SUBSET Fields]
Absent == [id |-> 0, fields |-> {}]
FieldRow == [schema: Ids, name: Fields]

Pcs == {"idle", "insert", "table", "register", "each", "row", "find", "column", "set",
        "outer", "unfields", "unregister"}

(* What a call holds: a schema's name and id, the fields it still has to    *)
(* create (todo), the one it is creating (field, linked if it has a         *)
(* link_id), the copy found for that field under the name found, the copy   *)
(* kept by a loop around it (outer), and where to go on after it (back).    *)
CallRow == [pc: Pcs, back: {"idle", "outer", "each"}, name: Schemas, id: 0 .. MaxId,
            todo: SUBSET FieldRow, field: Fields, linked: BOOLEAN,
            found: Schemas, copy: Model, outer: Model]
Idle == [pc |-> "idle", back |-> "idle", name |-> CHOOSE s \in Schemas : TRUE, id |-> 0,
         todo |-> {}, field |-> CHOOSE f \in Fields : TRUE, linked |-> FALSE,
         found |-> CHOOSE s \in Schemas : TRUE, copy |-> Absent, outer |-> Absent]

Init ==
    /\ stored = [s \in Schemas |-> 0]
    /\ nextId = 1
    /\ fieldRows = {} /\ tables = {} /\ columns = {} /\ missing = {}
    /\ registry = [s \in Schemas |-> Absent]
    /\ call = [c \in Calls |-> Idle]
    /\ made = 0

----------------------------------------------------------------------------
Registered(s) == registry[s].id # 0

Accept(c) ==
    /\ call[c].pc = "idle"
    /\ Serial => \A d \in Calls : call[d].pc = "idle"
    /\ made < MaxCalls
    /\ made' = made + 1

Go(c, pc) == call' = [call EXCEPT ![c].pc = pc]
End(c) == call' = [call EXCEPT ![c] = Idle]

(* The creation of a field is over; a postponed or refused one does not     *)
(* come back to the loop that asked for it.                                 *)
Back(c) == IF call[c].back = "idle" THEN End(c) ELSE Go(c, call[c].back)
GiveUp(c) == IF call[c].back = "idle" THEN End(c) ELSE Go(c, "each")

----------------------------------------------------------------------------
(***************************************************************************)
(* Creating a schema.  The fields given with a name that is registered are *)
(* created one by one and the call is refused; given with a new name they  *)
(* are taken off the record and forgotten.                                 *)
(***************************************************************************)
CreateSchema(c, s, F, linked) ==
    /\ Accept(c)
    /\ call' = [call EXCEPT ![c] =
                   IF F # {} /\ Registered(s)
                   THEN [Idle EXCEPT !.pc = "each", !.back = "outer", !.name = s,
                                     !.outer = registry[s], !.linked = linked,
                                     !.todo = [schema: {registry[s].id}, name: F \ registry[s].fields]]
                   ELSE [Idle EXCEPT !.pc = "insert", !.name = s]]
    /\ UNCHANGED <<stored, nextId, fieldRows, tables, columns, registry, missing>>

(* Slip: the id is given again.                                             *)
ReusesId(c) ==
    LET s == call[c].name IN
    /\ call[c].pc = "insert"
    /\ stored' = [stored EXCEPT ![s] = IF @ = 0 THEN 1 ELSE @]
    /\ IF stored[s] = 0 THEN call' = [call EXCEPT ![c].pc = "table", ![c].id = 1] ELSE End(c)
    /\ UNCHANGED <<nextId, fieldRows, tables, columns, registry, missing, made>>

(* The name is unique in dbschema.                                          *)
InsertSchema(c) ==
    LET s == call[c].name IN
    /\ call[c].pc = "insert"
    /\ \/ /\ stored[s] # 0
          /\ End(c)
          /\ UNCHANGED <<stored, nextId>>
       \/ /\ stored[s] = 0 /\ nextId <= MaxId
          /\ stored' = [stored EXCEPT ![s] = nextId]
          /\ nextId' = nextId + 1
          /\ call' = [call EXCEPT ![c].pc = "table", ![c].id = nextId]
    /\ UNCHANGED <<fieldRows, tables, columns, registry, missing, made>>

(* The error is dropped; the call looks whether the table is there.         *)
CreateTable(c) ==
    /\ call[c].pc = "table"
    /\ \/ /\ tables' = tables \cup {call[c].name}
          /\ Go(c, "register")
       \/ /\ DdlMayFail
          /\ IF call[c].name \in tables THEN Go(c, "register") ELSE End(c)
          /\ UNCHANGED tables
    /\ UNCHANGED <<stored, nextId, fieldRows, columns, registry, missing, made>>

(* SetSchema keeps the id and the fields of an entry that is there; then    *)
(* come the fields that waited for this schema.                             *)
Register(c) ==
    LET s == call[c].name IN
    /\ call[c].pc = "register"
    /\ registry' = IF Registered(s) THEN registry
                   ELSE [registry EXCEPT ![s] = [id |-> call[c].id, fields |-> {}]]
    /\ call' = [call EXCEPT ![c].pc = "each", ![c].back = "each", ![c].linked = TRUE,
                            ![c].todo = {m \in missing : Target[m.name] = s}]
    /\ UNCHANGED <<stored, nextId, fieldRows, tables, columns, missing, made>>

(* The next field of the loop, in any order.  A field that waited is only   *)
(* taken while its target is registered.                                    *)
Each(c) ==
    LET me == call[c] IN
    /\ me.pc = "each"
    /\ \/ /\ me.todo = {}
          /\ End(c)
          /\ UNCHANGED missing
       \/ \E f \in me.todo :
             LET next == [me EXCEPT !.todo = @ \ {f}, !.id = f.schema, !.field = f.name] IN
             IF me.back = "outer"
             THEN /\ call' = [call EXCEPT ![c] = [next EXCEPT !.pc = "row"]]
                  /\ UNCHANGED missing
             ELSE /\ call' = [call EXCEPT ![c] =
                                 IF Registered(me.name) THEN [next EXCEPT !.pc = "row"] ELSE next]
                  /\ missing' = IF Registered(me.name) THEN missing \ {f} ELSE missing
    /\ UNCHANGED <<stored, nextId, fieldRows, tables, columns, registry, made>>

(* The loop's own SetField, on the copy it took at its start.               *)
Outer(c) ==
    LET me == call[c]  new == [me.outer EXCEPT !.fields = @ \cup {me.field}] IN
    /\ me.pc = "outer"
    /\ registry' = [registry EXCEPT ![me.name] = new]
    /\ call' = [call EXCEPT ![c].pc = "each", ![c].outer = new]
    /\ UNCHANGED <<stored, nextId, fieldRows, tables, columns, missing, made>>

----------------------------------------------------------------------------
(***************************************************************************)
(* Creating a field: on its own, or from one of the loops above.           *)
(***************************************************************************)
CreateField(c, i, f, linked) ==
    /\ Accept(c)
    /\ call' = [call EXCEPT ![c] = [Idle EXCEPT !.pc = "row", !.id = i, !.field = f,
                                                !.linked = linked]]
    /\ UNCHANGED <<stored, nextId, fieldRows, tables, columns, registry, missing>>

(* A "many" field without link_id is postponed.                             *)
AddRow(c) ==
    LET me == call[c]  row == [schema |-> me.id, name |-> me.field] IN
    /\ me.pc = "row"
    /\ IF me.field \in Many /\ ~me.linked
       THEN /\ missing' = missing \cup {row}
            /\ GiveUp(c)
            /\ UNCHANGED fieldRows
       ELSE /\ fieldRows' = fieldRows \cup {row}
            /\ Go(c, "find")
            /\ UNCHANGED missing
    /\ UNCHANGED <<stored, nextId, tables, columns, registry, made>>

(* Slip: the field is registered before it has its column.                  *)
RegistersFirst(c) ==
    LET me == call[c] IN
    /\ me.pc = "find"
    /\ \E s \in Schemas :
          /\ Registered(s) /\ registry[s].id = me.id /\ me.field \notin Many
          /\ registry' = [registry EXCEPT ![s].fields = @ \cup {me.field}]
          /\ call' = [call EXCEPT ![c] = [me EXCEPT !.pc = "column", !.found = s,
                                                    !.copy = registry'[s]]]
    /\ UNCHANGED <<stored, nextId, fieldRows, tables, columns, missing, made>>

(* Write takes a copy of the entry with this id, and stops there for a      *)
(* field it has or that needs no column.                                    *)
Find(c) ==
    LET me == call[c]  S == {s \in Schemas : Registered(s) /\ registry[s].id = me.id} IN
    /\ me.pc = "find"
    /\ \/ S = {} /\ Back(c)
       \/ \E s \in S :
             IF me.field \in Many \cup registry[s].fields
             THEN Back(c)
             ELSE call' = [call EXCEPT ![c] = [me EXCEPT !.pc = "column", !.found = s,
                                                         !.copy = registry[s]]]
    /\ UNCHANGED <<stored, nextId, fieldRows, tables, columns, registry, missing, made>>

(* The ALTER TABLE; the call does not look at its answer.                   *)
AddColumn(c) ==
    LET me == call[c] IN
    /\ me.pc = "column"
    /\ Go(c, "set")
    /\ \/ /\ me.found \in tables
          /\ columns' = columns \cup {<<me.found, me.field>>}
       \/ /\ DdlMayFail \/ me.found \notin tables
          /\ UNCHANGED columns
    /\ UNCHANGED <<stored, nextId, fieldRows, tables, registry, missing, made>>

(* Slip: the field takes the place of the others.                           *)
OnlyTheNew(c) ==
    LET me == call[c] IN
    /\ me.pc = "set"
    /\ registry' = [registry EXCEPT ![me.found] = [me.copy EXCEPT !.fields = {me.field}]]
    /\ Back(c)
    /\ UNCHANGED <<stored, nextId, fieldRows, tables, columns, missing, made>>

SetField(c) ==
    LET me == call[c] IN
    /\ me.pc = "set"
    /\ registry' = [registry EXCEPT ![me.found] =
                       [me.copy EXCEPT !.fields = @ \cup {me.field}]]
    /\ Back(c)
    /\ UNCHANGED <<stored, nextId, fieldRows, tables, columns, missing, made>>

----------------------------------------------------------------------------
(***************************************************************************)
(* Deleting.  Tables and columns always stay: a DELETE of a table or a     *)
(* column is refused before it reaches the database.                       *)
(***************************************************************************)
DeleteSchema(c, s) ==
    /\ Deletes
    /\ Accept(c)
    /\ stored[s] # 0
    /\ stored' = [stored EXCEPT ![s] = 0]
    /\ call' = [call EXCEPT ![c] =
                   IF Registered(s)
                   THEN [Idle EXCEPT !.pc = "unfields", !.name = s, !.id = registry[s].id]
                   ELSE Idle]
    /\ UNCHANGED <<nextId, fieldRows, tables, columns, registry, missing>>

DeleteFields(c) ==
    /\ call[c].pc = "unfields"
    /\ fieldRows' = {row \in fieldRows : row.schema # call[c].id}
    /\ Go(c, "unregister")
    /\ UNCHANGED <<stored, nextId, tables, columns, registry, missing, made>>

(* Slip: the entry stays.                                                   *)
KeepsEntry(c) ==
    /\ call[c].pc = "unregister"
    /\ End(c)
    /\ UNCHANGED <<stored, nextId, fieldRows, tables, columns, registry, missing, made>>

Unregister(c) ==
    /\ call[c].pc = "unregister"
    /\ registry' = [registry EXCEPT ![call[c].name] = Absent]
    /\ End(c)
    /\ UNCHANGED <<stored, nextId, fieldRows, tables, columns, missing, made>>

(* SpecializedDeleteRow acts on the fields of schemas that are not found:   *)
(* the row goes, and nothing else does.                                     *)
DeleteField(c, row) ==
    /\ Deletes
    /\ Accept(c)
    /\ fieldRows' = fieldRows \ {row}
    /\ UNCHANGED <<stored, nextId, tables, columns, registry, missing, call>>

----------------------------------------------------------------------------
(* What LoadCache makes of the rows.                                        *)
Loaded ==
    [s \in Schemas |->
        IF stored[s] = 0 THEN Absent
        ELSE [id |-> stored[s], fields |-> {row.name : row \in {r \in fieldRows : r.schema = stored[s]}}]]

Restart ==
    /\ Restarts
    /\ registry' = Loaded
    /\ missing' = {}
    /\ call' = [c \in Calls |-> Idle]
    /\ UNCHANGED <<stored, nextId, fieldRows, tables, columns, made>>

Start(c) ==
    \/ \E s \in Schemas, F \in SUBSET Fields, linked \in BOOLEAN : CreateSchema(c, s, F, linked)
    \/ \E s \in Schemas, f \in Fields, linked \in BOOLEAN :
           stored[s] # 0 /\ CreateField(c, stored[s], f, linked)
    \/ \E s \in Schemas : DeleteSchema(c, s)
    \/ \E row \in fieldRows : DeleteField(c, row)

Proceed(c) ==
    \/ InsertSchema(c) \/ CreateTable(c) \/ Register(c) \/ Each(c) \/ Outer(c)
    \/ AddRow(c) \/ Find(c) \/ AddColumn(c) \/ SetField(c)
    \/ DeleteFields(c) \/ Unregister(c)

Next == Restart \/ \E c \in Calls : Start(c) \/ Proceed(c)

Spec == Init /\ [][Next]_vars
=============================================================================
