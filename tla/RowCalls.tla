------------------------------ MODULE RowCalls ------------------------------
(***************************************************************************)
(* Reading and writing rows: SpecializedDomain.call and GetRowResults, the *)
(* cache of results in front of them (domain_cache.go), TableRowService    *)
(* behind them, and the database handle with the restriction of the next   *)
(* statement, which a timer closes after one second.                       *)
(*                                                                         *)
(* A call works through its items, one row id each or one filter for all   *)
(* of them; an action is one SQL statement with the code up to the next.   *)
(* A restriction is the set of row ids it selects, and a row is the number *)
(* of the write that made it.                                              *)
(***************************************************************************)
EXTENDS Integers, Sequences

CONSTANTS
    Users, Tables, Ids,
    View,           \* the table dbview
    Wide,           \* tables of users, roles, permissions and entities
    NoRestriction,  \* the empty restriction of a handle: not a set of ids
    Stored,         \* the rows there from the start, in every table
    Requests,       \* what a call may ask: sequences of items
    Serial,         \* does a user wait for one call before the next?
    Calls,          \* calls that can be in progress together
    MaxCalls        \* bound on the calls made

Methods == {"SELECT", "CREATE", "UPDATE", "DELETE"}
(* byId: the row is named by the call, so that the record has its id.      *)
Item == [rows: SUBSET Ids, byId: BOOLEAN]

ASSUME CallsAssumption ==
    /\ View \in Tables /\ Wide \subseteq Tables
    /\ ~(NoRestriction \subseteq Ids)
    /\ Stored \subseteq Ids
    /\ \A q \in Requests : q \in Seq(Item) /\ q # <<>>
    /\ Serial \in BOOLEAN /\ MaxCalls \in Nat

VARIABLES
    row,        \* the tables
    registered, \* the tables whose schema is registered
    writes,     \* how many statements have written rows
    params,     \* the parameters of earlier reads, by table and index
    cache,      \* answers by user, table and index of the parameters
    cached,     \* the users with a map in the cache, be it empty
    call,       \* the calls in progress, each with its handle
    made,       \* calls made so far
    wrote       \* history: each user's last write of each row

vars == <<row, registered, writes, params, cache, cached, call, made, wrote>>

Row == [live: BOOLEAN, write: Nat]
Answer == [asked: SUBSET Ids, rows: [Ids -> Row]]
Nothing == [asked |-> {}, rows |-> [i \in Ids |-> [live |-> FALSE, write |-> 0]]]
Places == {"cache", "verify", "filter", "select", "insert", "build", "columns", "update",
           "reread", "get", "guard", "delete", "store"}
(* fresh: the handle that BuildUpdateRowQuery opens when the call's own is   *)
(* closed by then.                                                          *)
CallRow == [pc: Places, user: Users, table: Tables, method: Methods, items: Seq(Item) \ {<<>>},
            open: BOOLEAN, restriction: (SUBSET Ids) \cup {NoRestriction},
            fresh: {"unused", "open", "closed"}, target: SUBSET Ids, answer: Answer]

Idle == [pc |-> "idle"]

TypeOK ==
    /\ row \in [Tables -> [Ids -> Row]]
    /\ registered \in SUBSET Tables
    /\ writes \in Nat
    /\ params \in [Tables -> Seq(SUBSET Ids)]
    /\ cache = [u \in Users |-> [t \in Tables |-> cache[u][t]]]
    /\ \A u \in Users, t \in Tables : cache[u][t] \in [DOMAIN cache[u][t] -> Answer]
    /\ \A u \in Users, t \in Tables : DOMAIN cache[u][t] \subseteq 1 .. Len(params[t])
    /\ cached \in SUBSET Users
    /\ call \in [Calls -> CallRow \cup {Idle}]
    /\ made \in 0 .. MaxCalls
    /\ wrote \in [Users -> [Tables -> [Ids -> Nat]]]

Empty == [t \in Tables |-> <<>>]      \* a user's cache without an answer

Init ==
    /\ row = [t \in Tables |-> [i \in Ids |-> [live |-> i \in Stored, write |-> 0]]]
    /\ registered = Tables
    /\ writes = 0
    /\ params = Empty
    /\ cache = [u \in Users |-> Empty]
    /\ cached = {}
    /\ call = [c \in Calls |-> Idle]
    /\ made = 0
    /\ wrote = [u \in Users |-> [t \in Tables |-> [i \in Ids |-> 0]]]

----------------------------------------------------------------------------
(***************************************************************************)
(* The handle.  A method called on a closed handle works on a fresh one,   *)
(* which has no restriction, and leaves the closed one as it is.           *)
(***************************************************************************)
Selected(restriction) == IF restriction = NoRestriction THEN Ids ELSE restriction
Current(me) == IF me.open THEN me.restriction ELSE NoRestriction

(* ClearQueryFilter().ApplyQueryFilters(restriction).                      *)
Filtered(me, restriction) == IF me.open THEN [me EXCEPT !.restriction = restriction] ELSE me

(* The rows in the restriction, read now.                                  *)
Read(me) ==
    LET S == Selected(Current(me)) IN
    [asked |-> S,
     rows |-> [i \in Ids |-> IF i \in S THEN row[me.table][i] ELSE [live |-> FALSE, write |-> 0]]]

At(c, pc) == call[c].pc = pc
Go(c, me, pc) == call' = [call EXCEPT ![c] = [me EXCEPT !.pc = pc]]
First(c) == Head(call[c].items)

(* The next item of the call; the last one ends it and closes its handle.  *)
Following(me) ==
    IF Len(me.items) = 1 THEN Idle
    ELSE [me EXCEPT !.pc = "cache", !.items = Tail(@), !.fresh = "unused",
                    !.target = {}, !.answer = Nothing]

(* The second after which the goroutine of Open closes the handle.         *)
CloseHandle(c) ==
    /\ call[c].pc # "idle" /\ call[c].open
    /\ call' = [call EXCEPT ![c].open = FALSE]
    /\ UNCHANGED <<row, registered, writes, params, cache, cached, made, wrote>>

(* The same second of the handle opened to build an UPDATE.                *)
CloseFresh(c) ==
    /\ At(c, "columns") /\ call[c].fresh = "open"
    /\ call' = [call EXCEPT ![c].fresh = "closed"]
    /\ UNCHANGED <<row, registered, writes, params, cache, cached, made, wrote>>

(* The same as a statement is about to be sent on the handle: the statement *)
(* fails, and the call with it.  (In the loop on the columns it takes the   *)
(* statements of all of them: "no value to update".)                        *)
StatementFails(c) ==
    /\ call[c].pc \in {"select", "insert", "columns", "update", "reread", "get", "delete"}
    /\ call[c].open
    /\ call' = [call EXCEPT ![c] = Idle]
    /\ UNCHANGED <<row, registered, writes, params, cache, cached, made, wrote>>

----------------------------------------------------------------------------
(***************************************************************************)
(* The cache.                                                              *)
(***************************************************************************)

(* Slip: only the number of parameters is compared.                         *)
CompareLengths(p, q) == (p = {}) = (q = {})
(* Params.Compare.                                                         *)
Compare(p, q) == p = q

Known(t, p) == {i \in DOMAIN params[t] : Compare(params[t][i], p)}

(* addParams: the index of parameters already seen (there is one at most), *)
(* or a new one.                                                           *)
IndexOf(t, p) ==
    IF Known(t, p) = {} THEN Len(params[t]) + 1 ELSE CHOOSE i \in Known(t, p) : TRUE
ForgetsParams(t, p) == UNCHANGED params      \* slip: nothing is appended
AddParams(t, p) ==
    params' = IF Known(t, p) = {} THEN [params EXCEPT ![t] = Append(@, p)] ELSE params

(* Slip: an answer is dropped only if there is one for the view as well.    *)
KeepsOwnTable(u, t) ==
    /\ cache' = [cache EXCEPT ![u][View] = <<>>]
    /\ UNCHANGED cached

(* deleteInCache, for a write by u on t.                                   *)
DeleteInCache(u, t) ==
    CASE u \notin cached -> UNCHANGED <<cache, cached>>
      [] u \in cached /\ t \in Wide -> /\ cache' = [v \in Users |-> Empty]
                                       /\ cached' = {}
      [] OTHER -> /\ cache' = IF cache[u][t] = <<>> THEN cache
                              ELSE [cache EXCEPT ![u][View] = <<>>, ![u][t] = <<>>]
                  /\ UNCHANGED cached

----------------------------------------------------------------------------
(***************************************************************************)
(* One call.                                                               *)
(***************************************************************************)
Start(c, u, t, method, items) ==
    /\ At(c, "idle") /\ made < MaxCalls
    /\ Serial => \A d \in Calls : call[d].pc # "idle" => call[d].user # u
    /\ made' = made + 1
    /\ call' = [call EXCEPT ![c] =
                   [pc |-> "cache", user |-> u, table |-> t, method |-> method, items |-> items,
                    open |-> TRUE, restriction |-> NoRestriction, fresh |-> "unused", target |-> {},
                    answer |-> Nothing]]
    /\ UNCHANGED <<row, registered, writes, params, cache, cached, wrote>>

(* GetInCache, for a write: before the write.                              *)
Invalidate(c) ==
    LET me == call[c] IN
    /\ At(c, "cache") /\ me.method # "SELECT"
    /\ DeleteInCache(me.user, me.table)
    /\ Go(c, me, IF me.method = "DELETE" THEN "filter" ELSE "verify")
    /\ UNCHANGED <<row, registered, writes, params, made, wrote>>

(* GetInCache, for a read: an answer to the same parameters ends it.       *)
LookUp(c) ==
    LET me == call[c]  p == First(c).rows  mine == cache[me.user][me.table] IN
    /\ At(c, "cache") /\ me.method = "SELECT"
    /\ IF mine = <<>>
       THEN UNCHANGED params /\ Go(c, me, "filter")
       ELSE /\ AddParams(me.table, p)
            /\ LET i == IndexOf(me.table, p) IN
               IF i \in DOMAIN mine THEN Go(c, [me EXCEPT !.answer = mine[i]], "store")
               ELSE Go(c, me, "filter")
    /\ UNCHANGED <<row, registered, writes, cache, cached, made, wrote>>

(* VerifyDataIntegrity, for what is written: "no schema found".            *)
Verify(c) ==
    LET me == call[c] IN
    /\ At(c, "verify")
    /\ IF me.table \notin registered THEN call' = [call EXCEPT ![c] = Idle]
       ELSE Go(c, me, IF me.method = "CREATE" THEN "insert" ELSE "filter")
    /\ UNCHANGED <<row, registered, writes, params, cache, cached, made, wrote>>

(* GetQueryFilter: there is no restriction for a table without a schema.   *)
Filter(c) == IF call[c].table \in registered THEN First(c).rows ELSE NoRestriction

(* setupFilter.                                                            *)
SetupFilter(c) ==
    LET me == call[c] IN
    /\ At(c, "filter")
    /\ Go(c, Filtered(me, Filter(c)),
          CASE me.method = "SELECT" -> "select"
            [] me.method = "UPDATE" -> "build"
            [] OTHER -> "get")
    /\ UNCHANGED <<row, registered, writes, params, cache, cached, made, wrote>>

SelectRows(c) ==
    /\ At(c, "select")
    /\ Go(c, [call[c] EXCEPT !.answer = Read(call[c])], "store")
    /\ UNCHANGED <<row, registered, writes, params, cache, cached, made, wrote>>

(* The rows S of the call's table written anew, or deleted.                *)
WriteRows(me, S, live) ==
    /\ writes' = writes + 1
    /\ row' = [row EXCEPT ![me.table] = [i \in Ids |->
                  IF i \in S THEN [live |-> live, write |-> writes + 1] ELSE @[i]]]
    /\ wrote' = [wrote EXCEPT ![me.user][me.table] = [i \in Ids |->
                    IF i \in S THEN writes + 1 ELSE @[i]]]

LiveIn(t, S) == {i \in S : row[t][i].live}

(* Create: the row is read back by its id, whatever the handle.            *)
InsertRow(c) ==
    LET me == call[c] IN
    /\ At(c, "insert")
    /\ \E i \in Ids \ LiveIn(me.table, Ids) : WriteRows(me, {i}, TRUE)
    /\ call' = [call EXCEPT ![c] = Following(me)]
    /\ UNCHANGED <<registered, params, cache, cached, made>>

(* BuildUpdateRowQuery: the UPDATE is built on the call's handle, or on a   *)
(* fresh one if that is closed.  Each column of the record is then verified *)
(* by a statement of its own.                                              *)
BuildUpdate(c) ==
    /\ At(c, "build")
    /\ Go(c, [call[c] EXCEPT !.fresh = IF call[c].open THEN "unused" ELSE "open"], "columns")
    /\ UNCHANGED <<row, registered, writes, params, cache, cached, made, wrote>>

(* The handle the UPDATE is built on: whether it is still open, and its     *)
(* restriction, which it keeps when it is closed.                          *)
BuildOpen(me) == IF me.fresh = "unused" THEN me.open ELSE me.fresh = "open"
BuildRestriction(me) == IF me.fresh = "unused" THEN me.restriction ELSE NoRestriction

(* Slip: the record's id is not looked at.                                  *)
KeepsFilter(c) ==
    /\ At(c, "columns")
    /\ Go(c, [call[c] EXCEPT !.target = Selected(BuildRestriction(call[c]))], "update")
    /\ UNCHANGED <<row, registered, writes, params, cache, cached, made, wrote>>

(* BuildUpdateQuery comes to the record's id, which replaces the           *)
(* restriction; on a closed handle the replacement is lost.  The columns    *)
(* after it change nothing in what is selected.                            *)
NameRow(c) ==
    LET me == call[c]  item == First(c)  named == item.byId /\ BuildOpen(me) IN
    /\ At(c, "columns")
    /\ Go(c, [me EXCEPT
                 !.restriction = IF named /\ me.fresh = "unused" THEN item.rows ELSE @,
                 !.target = IF named THEN item.rows ELSE Selected(BuildRestriction(me))], "update")
    /\ UNCHANGED <<row, registered, writes, params, cache, cached, made, wrote>>

UpdateRows(c) ==
    LET me == call[c] IN
    /\ At(c, "update")
    /\ WriteRows(me, LiveIn(me.table, me.target), TRUE)
    /\ Go(c, me, "reread")
    /\ UNCHANGED <<registered, params, cache, cached, made>>

(* SpecializedUpdateRow is given what the restriction selects by then.      *)
RereadRows(c) ==
    /\ At(c, "reread")
    /\ call' = [call EXCEPT ![c] = Following(call[c])]
    /\ UNCHANGED <<row, registered, writes, params, cache, cached, made, wrote>>

(* Delete reads the rows for SpecializedDeleteRow, with the filter set up   *)
(* once more.                                                              *)
GetRows(c) ==
    /\ At(c, "get")
    /\ Go(c, Filtered(call[c], Filter(c)), "guard")
    /\ UNCHANGED <<row, registered, writes, params, cache, cached, made, wrote>>

(* "no restriction can't delete all".                                      *)
GuardDelete(c) ==
    LET me == call[c] IN
    /\ At(c, "guard")
    /\ IF Current(me) = NoRestriction THEN call' = [call EXCEPT ![c] = Idle]
       ELSE Go(c, me, "delete")
    /\ UNCHANGED <<row, registered, writes, params, cache, cached, made, wrote>>

(* Slip: a DELETE without a restriction is sent without WHERE.             *)
DeleteAnything(c) ==
    LET me == call[c] IN
    /\ At(c, "delete")
    /\ WriteRows(me, LiveIn(me.table, Selected(Current(me))), FALSE)
    /\ call' = [call EXCEPT ![c] = Following(me)]
    /\ UNCHANGED <<registered, params, cache, cached, made>>

(* A DELETE whose WHERE is empty is refused by the database.               *)
DeleteRows(c) ==
    LET me == call[c] IN
    /\ At(c, "delete")
    /\ IF Current(me) = NoRestriction
       THEN /\ call' = [call EXCEPT ![c] = Idle]
            /\ UNCHANGED <<row, writes, wrote>>
       ELSE /\ WriteRows(me, LiveIn(me.table, me.restriction), FALSE)
            /\ call' = [call EXCEPT ![c] = Following(me)]
    /\ UNCHANGED <<registered, params, cache, cached, made>>

(* AddInCache.                                                             *)
StoreAnswer(c) ==
    LET me == call[c]  p == First(c).rows  i == IndexOf(me.table, p) IN
    /\ At(c, "store")
    /\ AddParams(me.table, p)
    /\ cached' = cached \cup {me.user}
    /\ cache' = [cache EXCEPT ![me.user][me.table] =
                    [j \in DOMAIN @ \cup {i} |-> IF j = i THEN me.answer ELSE @[j]]]
    /\ call' = [call EXCEPT ![c] = Following(me)]
    /\ UNCHANGED <<row, registered, writes, made, wrote>>

----------------------------------------------------------------------------
Handle(c) ==
    \/ Invalidate(c) \/ LookUp(c) \/ Verify(c) \/ SetupFilter(c) \/ SelectRows(c) \/ InsertRow(c)
    \/ BuildUpdate(c) \/ NameRow(c) \/ UpdateRows(c) \/ RereadRows(c)
    \/ GetRows(c) \/ GuardDelete(c) \/ DeleteRows(c) \/ StoreAnswer(c)

(* Somebody else's call deletes a schema, or makes one.                    *)
Reregister(t) ==
    /\ made < MaxCalls
    /\ made' = made + 1
    /\ registered' = IF t \in registered THEN registered \ {t} ELSE registered \cup {t}
    /\ UNCHANGED <<row, writes, params, cache, cached, call, wrote>>

Next ==
  \/ \E t \in Tables : Reregister(t)
  \/ \E c \in Calls :
        \/ \E u \in Users, t \in Tables, m \in Methods, q \in Requests : Start(c, u, t, m, q)
        \/ Handle(c) \/ CloseHandle(c) \/ CloseFresh(c) \/ StatementFails(c)

Spec == Init /\ [][Next]_vars
=============================================================================
