--------------------------- MODULE RowProperties ---------------------------
(* What a call on rows promises.                                            *)
EXTENDS RowCalls

(* What it takes for the UPDATE of a named row to lose its row: the handle it *)
(* is built on is closed before the column id, and that is either a second  *)
(* handle, the call's own being closed before it, or the call's own with no  *)
(* restriction because the table's schema was deleted as it was set up.     *)
Unnamed(me) ==
    \/ me.fresh = "closed"
    \/ me.fresh = "unused" /\ ~me.open /\ me.restriction = NoRestriction

(* What the steps of a call rely on: the method that leads to a step, the   *)
(* handle's restriction, the rows to write and the answer to store.         *)
InStep(me) ==
    LET asked == Head(me.items).rows IN
    /\ me.pc = "filter" => me.method # "CREATE"
    /\ me.pc \in {"get", "guard", "delete"} => me.method = "DELETE"
    /\ me.pc \in {"select", "guard", "delete"} /\ me.open => me.restriction \in {asked, NoRestriction}
    /\ (me.pc = "build" /\ me.open) \/ (me.pc = "columns" /\ me.fresh = "unused")
          => me.restriction \in {asked, NoRestriction}
    /\ me.pc = "update" /\ Head(me.items).byId => me.target = asked \/ Unnamed(me)
    /\ me.pc = "store" => asked \subseteq me.answer.asked
CallsInStep == \A c \in Calls : call[c].pc # "idle" => InStep(call[c])

(* What ReadYourWrites relies on: a user has one call at a time, rows are as *)
(* recent as any write of theirs, answers as recent as their user's, and a  *)
(* call about to write has dropped its user's answers for the table.        *)
Writing(me) ==
    \/ me.pc \in {"verify", "insert", "build", "columns", "update", "reread",
                  "get", "guard", "delete"}
    \/ me.pc = "filter" /\ me.method # "SELECT"
OneCall == \A c, d \in Calls : c # d /\ call[c].pc # "idle" /\ call[d].pc # "idle"
                                => call[c].user # call[d].user
UsersKnown == \A u \in Users, t \in Tables : cache[u][t] # <<>> => u \in cached
RowsRecent ==
    \A t \in Tables, i \in Ids :
        row[t][i].write <= writes /\ \A u \in Users : wrote[u][t][i] <= row[t][i].write
AnswersRecent ==
    \A u \in Users, t \in Tables : \A j \in DOMAIN cache[u][t] :
        \A i \in cache[u][t][j].asked : cache[u][t][j].rows[i].write >= wrote[u][t][i]
Dropped == \A c \in Calls : Writing(call[c]) => cache[call[c].user][call[c].table] = <<>>

Deleted(t) == {i \in Ids : row[t][i].live /\ ~row'[t][i].live}
Updated(t) == {i \in Ids : row'[t][i].live /\ row[t][i].live /\ row'[t][i] # row[t][i]}

(* A row is deleted only by a DELETE that asked for it.  The handle may be   *)
(* closed, and its restriction lost, between any two statements of Delete:  *)
(* the guard and the empty WHERE must stop it in time.                      *)
DeleteScoped ==
    [][\A t \in Tables : Deleted(t) # {} =>
          \E c \in Calls : /\ At(c, "delete") /\ call[c].table = t /\ call[c].method = "DELETE"
                           /\ Deleted(t) \subseteq First(c).rows]_vars

(* An UPDATE of a row named by its id touches that row and no other, even    *)
(* when its handle was closed before the statement was built, between two   *)
(* columns of the loop that builds it or after, and even when the schema was *)
(* deleted before the restriction was set up: it takes two of them together *)
(* (the id put on a second handle that is closed as well, or on a closed    *)
(* handle without a restriction), and then it is sent without WHERE.        *)
NamedUpdateScoped ==
    [][\A t \in Tables : Updated(t) # {} =>
          \E c \in Calls : /\ At(c, "update") /\ call[c].table = t
                           /\ First(c).byId /\ ~Unnamed(call[c])
                                => Updated(t) \subseteq First(c).rows]_vars

(* A read is never answered with less than it asked for: whatever an answer *)
(* in the cache was read for, it covers the parameters it is filed under.   *)
CacheCovers ==
    \A u \in Users, t \in Tables : \A i \in DOMAIN cache[u][t] :
        params[t][i] \subseteq cache[u][t][i].asked

(* A user who waits for the end of each call reads his own writes: no       *)
(* answer is older than what he wrote of its rows before.                   *)
ReadYourWrites ==
    \A c \in Calls : call[c].pc = "store" =>
        LET me == call[c] IN
        \A i \in me.answer.asked : me.answer.rows[i].write >= wrote[me.user][me.table][i]
=============================================================================
