------------------------- MODULE RegistryProperties -------------------------
(***************************************************************************)
(* What the registry of schemas promises to the calls that consult it.     *)
(***************************************************************************)
EXTENDS SchemaRegistry

(* Ids in use were given, no two rows of dbschema share one, and a field is *)
(* only created for a schema that has one.                                  *)
TypeOK ==
    /\ stored \in [Schemas -> 0 .. MaxId]
    /\ nextId \in 1 .. (MaxId + 1)
    /\ fieldRows \subseteq FieldRow
    /\ tables \subseteq Schemas
    /\ columns \subseteq Schemas \X Fields
    /\ registry \in [Schemas -> Model]
    /\ missing \subseteq [schema: Ids, name: Many]
    /\ call \in [Calls -> CallRow]
    /\ made \in 0 .. MaxCalls
    /\ \A s \in Schemas : stored[s] < nextId
    /\ \A c \in Calls : call[c].pc = "row" => call[c].id # 0
    /\ \A s, r \in Schemas : stored[s] = stored[r] /\ stored[s] # 0 => s = r

Quiet == \A c \in Calls : call[c].pc = "idle"

(* Calls build their statements from the registry.  A field that needs a    *)
(* column and is registered has it, with any number of calls at work, as    *)
(* long as nothing is deleted, no DDL statement is refused and the server   *)
(* does not stop half-way (SchemaFields.Write: the column, then SetField).  *)
FieldsHaveColumns ==
    \A s \in Schemas : \A f \in registry[s].fields \ Many : <<s, f>> \in columns

(* When calls wait for each other, the registry is as good as the rows it   *)
(* was loaded from: between calls it knows a schema under the id of its row *)
(* or not at all, so nothing survives a deletion (SpecializedDeleteRow of   *)
(* SchemaService), whatever was deleted, created again, refused or lost in  *)
(* a restart.                                                               *)
NoGhost == Quiet => \A s \in Schemas : Registered(s) => registry[s].id = stored[s]

(* And between such calls a restart would teach it nothing about a schema   *)
(* it knows: every field with a column is registered (SetField).            *)
NothingForgotten ==
    Quiet => \A s \in Schemas : Registered(s) => Loaded[s].fields \ Many \subseteq registry[s].fields
=============================================================================
