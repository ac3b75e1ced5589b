# A verification model of sqldb-ws

sqldb-ws is a web service over PostgreSQL, written in Go.  Its tables are
themselves rows (`dbschema`, `dbschema_column`), and on top of the generic
reading and writing of rows it runs a workflow engine: requests that walk
through the steps of a workflow, and tasks that users answer.  This directory
holds TLA+ modules translated from the source, TLC configurations that check
them on small instances, and proofs that TLAPS checks.  Paths are relative to
the repository.

## 1. Inventory

### How a call runs

The controllers (`controllers/`, `routers/`) parse an HTTP call and build a
`SpecializedDomain` (`domain/domain.go`): a user, a database handle and the
parameters of the call.  The HTTP server runs every call in a goroutine of its
own; `call` picks a *specialized service* for the table and then
`TableRowService` (`infrastructure/service/row.go`) does

1. the service's `VerifyDataIntegrity`, which may read rows and change the record,
2. one SQL statement, sent through the handle (`infrastructure/connector/db`),
3. for an update, one more read of the rows it wrote,
4. the service's `SpecializedCreateRow`, `SpecializedUpdateRow` or
   `SpecializedDeleteRow`, which may issue further calls on other tables
   (`SuperCall`: the same pipeline without the permission checks).

There is **no transaction** around these statements, and no lock on rows.  So
between two statements of a call any other call may run any number of its own.

### Components

| component | state | operations | talks to |
|---|---|---|---|
| Workflow engine, `task_service/` | rows of `dbrequest`, `dbtask`, `dbnotification` | create, answer, edit, delete requests and tasks | row service, hierarchy, workflow tables |
| Domain call pipeline, `domain.go`, `domain_cache.go` | a cache of results by user, table and parameters, with no lock | `Call`, `SuperCall`, cache get/put/invalidate | every service |
| Row service, `infrastructure/service/row.go` | none | `Get`, `Create`, `Update`, `Delete` | database handle, specialized services |
| Database handle and query text, `connector/db/` | connection, the filters of the next query | open/close (also by a timer of one second), build and run queries | PostgreSQL |
| Schema registry and its services, `schema/cache.go`, `schema_service/` | one process-wide map of schemas, behind a mutex; tables `dbschema`, `dbschema_column`; the SQL tables themselves | create, change, delete schemas and fields; reload | table/column services, everybody reads the map |
| Permissions, `permission/` | per-user permissions, cached by the domain | build from rows, test a call | registry, rows |
| Delegation and sharing, `user_service/` | `dbdelegation`, bound copies of tasks, shares | create, change, delete a delegation; copy tasks; close copies | tasks |
| Triggers, `triggers/` | a queue of delayed triggers, a map of redirections, both behind mutexes | trigger, postpone, execute, redirect | mails, rows |
| E-mail, `email_service/` | mails sent and their answers | send, answer, validate or refuse a task from an answer | tasks |
| Schema deletion's fan-out, drafts and consents, `specialized_service/utils/utils.go` | rows that point to other rows | delete what points to a deleted row (in goroutines of its own), ask for consents, create the request of published data | every service |
| Filters, views, dashboards, history, uploads, plugins | rows of their own, or none | build restrictions, shape results | row service |

`PROJECT.json` lists all of them with the status of each.

### What is hard

* **Interleaving.**  The checks of the workflow engine (is the task closed? is
  another task of the step open? which index has the request?) and the writes
  that rely on them are different statements.
* **Ordering.**  Steps follow an index, changed by plus or minus one, rounded,
  moved by a tenth for verifications and by a whole step for dismissals.
* **Partial failure.**  Most errors of secondary statements are dropped and the
  call goes on.
* **Liveness.**  Every answer may leave the request to whoever answers last, so
  somebody has to move it.
* **Stale copies.**  The registry, the permission cache and the result cache are
  process-wide copies of rows that other calls change.

### What makes each part correct

* Workflow engine: an open request always has somebody at work on it; steps open
  in order and only when the one before is answered; how a request ends follows
  from the answers; `state` and `is_close` agree; a step's task is not created
  twice; every request ends if its users answer.
* Call pipeline: a result taken from the cache is one that its own parameters
  gave; after a user's write that user reads the write; an update or deletion
  touches the rows of its restriction and no other.
* Schema registry: a registered field is a column of the database, and once no
  call is at work every column is registered.
* Permissions: what the cached permissions allow, the rows allow.
* Delegation: a bound copy closes with its original; deleting a delegation leaves
  no copy behind.
* Triggers: a postponed trigger runs once, after its time; none is lost.


## 2. Plan

The most important behaviour, the workflow engine, comes first; then the pipeline
every call goes through; then the registry all of them consult; then what the
first promises, and the delegation of its tasks.  Those are done.  What follows
them, in this order:

| module | what it adds | properties and theorems aimed at |
|---|---|---|
| **done** `RequestWorkflow` | requests and tasks under concurrent calls | section 4, `RequestProofs` |
| **done** `RowCalls` | a call from the cache to its last statement | section 4, `RowProofs` |
| **done** `SchemaRegistry` | schemas and fields: rows, DDL, the registry, restarts | section 4, `RegistryProofs` |
| **done** `RequestPath`, `RequestRefinement` | abstract: a request stands somewhere on its path and leaves a step when it is answered | `RequestWorkflow` implements it when calls do not overlap: section 4, `RequestProofs` |
| **done** `Delegations` | `delegation_service.go`, `UpdateDelegated`, `CreateDelegated`: bound copies of tasks, created and closed in goroutines | section 4, `DelegationProofs` |
| `RowStore`, abstract | what a row call promises: a read answers what some moment between its start and its end held | `RowCalls` implements it for calls that wait for each other (`INSTANCE RowStore WITH ...`), its step simulation proved |
| `Drafts` | `specialized_service/utils/utils.go`: drafts, consents, the request made for published data, deletion of the rows that point to a deleted one | published data has one request; nothing points to a deleted row in the end |
| `Permissions` | `permission.go`, `CachePerms`, `UpdatePermissions` | what the cached permissions allow, the rows allow |
| `TriggerJobs` | `triggers*.go`, `email_service/`: the queue of postponed triggers, redirections, answers of mails | a trigger runs once and after its time; an answer reaches its task once |
| `StatementText` | `connector/db/utils.go`, `query_builder.go`, `filter_queries.go` as pure operators on token sequences | a restriction built from a map selects what the map says; a filter line keeps its operator and its value |
| `ViewOrder` | `view_convertor*.go`: the channel that gathers converted rows | every row of the answer is there once, in its order |

Each is written with its parameters as constants, one action per statement or use
of a lock, and without recursive operators where a theorem is planned.  The runs
stay small (two actors, two or three names); what depends on the number of actors
is left to the proofs.

## 3. The modules and the code

Each component has a module that translates the code (`RequestWorkflow`, `RowCalls`,
`SchemaRegistry`, `Delegations`), a module of properties that extends it
(`...Properties`), an `MC...` module that gives TLC its tables, and a module of proofs
(`...Proofs`), or several where there is much to prove: `DelegationTurnProofs` goes on
from `DelegationProofs`, `DelegationCopyProofs` and `DelegationCloseProofs` each from
`DelegationTurnProofs`, and `DelegationPairProofs` from `DelegationCloseProofs`.
`RequestPath` is an abstract specification, without code of its own; `RequestRefinement`
states that `RequestWorkflow` implements it, and `RequestProofs` proves it.
`RequestDocumented` holds the words of the repository that the engine does not keep.
Beside some actions stands a *slip*, a mutated form of the action below it; no
specification uses it, and it is there to show that the properties notice the mistake it
describes.  `PROJECT.json` names for every definition the lines it translates.

The common abstraction is the **granularity**: an action is one SQL statement (or
one use of a mutex, or one access to an unguarded process-wide map) together with
the code up to the next one.  Code between two statements touches only what
belongs to its own call, so nothing another call does can tell the difference.

### RequestWorkflow: `task_service.go`, `request_service.go`, `utils.go`

| state | code |
|---|---|
| `request`, `nextRequest` | rows of `dbrequest`: workflow, owner, state, is_close, current_index |
| `task`, `nextTask` | rows of `dbtask`: request, step (the code matches tasks by their name), user, state, is_close, nexts |
| `handler` | the local variables of a call in progress: its place, what it read, and the tasks it still has to create (`todo`) |
| `reached` | no code: a history variable, the highest index a request was given |

| action | code |
|---|---|
| `CreateRequest` | `SpecializedCreateRow`, `handleInitialWorkflow`: the request is stored, and the first steps of its workflow are to be created |
| `SubmitTask`, `UpdateTask`, `UpdateTaskFails`, `RereadTask` | `VerifyDataIntegrity` of an update, the UPDATE, and the SELECT whose rows `Write` works on |
| `DeleteTask` | `SpecializedDeleteRow`: the rows count as refused |
| `ReadRequest`, `CheckOthers`, `AdvanceRequest`, `AdvanceRequestFails` | `Write`: the request, the other open tasks of the step, and the UPDATE of index and state |
| `PrepareTask`, `FindTask`, `InsertTask`, `InsertVerification`, `InsertFails` | `PrepareAndCreateTask`, `createTaskAndNotify`, `CreateHierarchicalTask` |
| `EditRequest`, `DeleteRequest` | changes of a request by hand |

Workflows, steps and the hierarchy are constants: they are configuration that changes
between requests, not during one.  An index is kept in tenths, since a verification
before step *k* has index *k* - 0.1.  Left out: drafts, consents, permissions (each a
module of the plan), delegated copies (in `Delegations`), the notification's text, and
mails.  A request that is deleted leaves its tasks where they are: there is **no foreign
key** in the database.  `FieldModel.ForeignTable` has the JSON name `-`
(`domain/schema/models/model.go:214`) and `foreign_table` is taken off the record before
it is stored (`schema_field_service.go:61`), so the branch of `query_builder.go:349`
that would write `ON DELETE CASCADE` is never taken.

**UPDATE statements.**  `BuildUpdateRowQuery` (`query_builder.go:316`) drops the
index `BuildUpdateQuery` gives back, so each column of a record is written as
`$1`.  PostgreSQL's driver refuses such a statement unless it sets one column
only.  A model in which every update fails has nothing to say of the engine, so
the model has both outcomes: `UpdatesMayFail = TRUE` lets any UPDATE be refused,
with what the code then does (an answer is not stored; the request does not
move, and yet the tasks of its next step are created), `FALSE` leaves them as
the code around them expects them.  `RequestTurns` runs with `TRUE`, and
`TypeCorrect`, `ClosureCorrect` and `StepGateCorrect` are proved for both.
`InsertsMayFail` does the same for the INSERT of a task or of the request of a
wrapped workflow, whose error is dropped (`utils.go:138`, `utils.go:363`): the
other tasks of the step are created without it.

### RequestPath and its refinement

`RequestPath` knows three things: where each request stands (`at`), which names
of tasks somebody has to do for it (`open`), and which somebody has answered
(`done`).  A step is given out only where the request stands; a verification only
where no step is; the request moves only when nothing but a name answered already
is open, and at most one step forward.  `RequestRefinement` reads them off the
tables: `at` is `current_index`, `open` and `done` are the pairs of request and
name with a task in an open or an ended state.  Every statement of a call is then
one step of the path or none of it: `AddRequest` a `Start`, `AdvanceRequest` a
`Move`, the INSERT of a task a `Give`, the UPDATE of a task an `Answer`.

### RowCalls: `domain.go`, `domain_cache.go`, `row.go`, `connector/db`

| state | code |
|---|---|
| `row` | the tables: whether an id has a row, and the write that made it |
| `registered` | which tables have a schema in the registry (for the filter) |
| `params`, `cache`, `cached` | `params` and `cache` of `domain_cache.go`: answers filed by user, table and the index of the parameters |
| `call` | a call in progress: its items (a row id each, or a filter), its handle with the restriction of the next statement, and `fresh`, the second handle an UPDATE is built on when the first is closed |
| `writes`, `wrote` | no code: a counter and the history of each user's writes |

| action | code |
|---|---|
| `Start`, `Invalidate`, `LookUp` | `SpecializedDomain.call`, `GetInCache` |
| `CloseHandle` | the goroutine of `Open` that closes the handle after one second |
| `Verify`, `InsertRow` | `Create` |
| `Filter`, `SelectRows`, `StoreAnswer` | `setupFilter`, `Get`, `AddInCache` |
| `BuildUpdate`, `NameRow`, `CloseFresh` | `BuildUpdateRowQuery`: the handle it builds on, its loop over the columns, and the end of the second of a handle opened for it |
| `UpdateRows`, `RereadRows` | the rest of `Update` |
| `GetRows`, `GuardDelete`, `DeleteRows` | `Delete`: reads, tests the restriction, deletes |
| `StatementFails` | any statement may be refused |
| `Reregister` | schemas come and go |

A restriction is the set of ids it selects.  On a handle that was closed every
method opens a fresh one, so a restriction set there is lost at once; that is why
`Filtered` sets none there.  Ids may be given by the caller, as the code allows.
Left out: the branch of `Create` that becomes an `Update`, the limit of shallow
reads, the deletion of rows that point to a deleted row
(`AbstractSpecializedService.SpecializedDeleteRow`, planned in `Drafts`), and
permissions.  Four things the model has on purpose because the code has them:
another user's answers stay in the cache when a row is written; an answer read
before a write may be filed after it when calls of a user overlap; an UPDATE by a
filter whose handle was closed is built without WHERE; and so is that of a row
named by its id, when two things go wrong.  The loop of `BuildUpdateRowQuery`
verifies each column by a statement of its own (`query_builder.go:307`,
`column.go:53`), so the handle may be closed before the loop comes to the record's
id, and `id=` is then put on a handle that is thrown away (`query_builder.go:258`).
The WHERE is what the handle of the loop had before, the same row as a rule; it is
nothing if no restriction was put on it (the schema was deleted as the filter was
set up), or if it is a second handle, opened because the call's own was closed.
`Unnamed` names these two cases, and `NamedUpdateScoped` says that there is no other.

### SchemaRegistry: `schema/cache.go`, `schema_service/`, `table.go`, `column.go`

| state | code |
|---|---|
| `stored`, `nextId`, `fieldRows` | rows of `dbschema` and `dbschema_column` |
| `tables`, `columns` | the tables of the database |
| `registry` | `SchemaRegistry`, name to `SchemaModel` |
| `missing` | `MissingField`: "many" fields whose target is not known yet |
| `call` | a call in progress and the **copy** of the entry it holds |

| action | code |
|---|---|
| `CreateSchema`, `InsertSchema`, `CreateTable`, `Register`, `Each`, `Outer` | `SchemaService.VerifyDataIntegrity`, the INSERT, `SpecializedCreateRow` with `SetSchema` and the loops over fields |
| `CreateField`, `AddRow`, `Find`, `AddColumn`, `SetField` | `SchemaFields.VerifyDataIntegrity`, the INSERT, `Write` with `GetSchemaByID`, the ALTER TABLE and `SetField` |
| `DeleteSchema`, `DeleteFields`, `Unregister`, `DeleteField` | the deletions |
| `Restart` | the server stops anywhere; `LoadCache` |

A `SchemaModel` is passed by value: a call keeps a copy while it issues
statements and writes the whole copy back.  The copies share the array of their
fields once it has room (from the fourth field on); the model has values, which
is exact for up to three fields.  A loop takes fields in any order.  Tables and
columns are never dropped: a DELETE of either is refused in `domain.go:166`
before it reaches its service.  An UPDATE of a field changes at most its label
(see UPDATE statements above) and is left out, like the views, workflows and
permissions created with a schema.

### Delegations: `delegation_service.go`, `task_service/utils.go:127-336`

| state | code |
|---|---|
| `place` | `current_index` of each request: 0 before it is opened, one past the last step when it ends, and -1 after an answer repeated once it has ended |
| `request` | its state, and a history variable, `again`: whether it was walked on after its end |
| `task`, `nextTask` | rows of `dbtask`: open or closed, request, step, user, entity, and `binded_dbtask` (`bound`) |
| `delegation`, `nextDelegation` | rows of `dbdelegation`: the window of its two dates seen from today, owner, delegate, one task or all (0) |
| `share` | rows of `dbshare` made for delegations |
| `handler` | a call in progress; `todo` is the stack of what `createTaskAndNotify` and `CreateDelegated`, which call each other, still have to do |
| `copying` | the goroutines of `Trigger`, one per task and delegation |
| `spreading` | the runs of `UpdateDelegated`: a call's own (`by` a handler), and the goroutines it starts |

| action | code |
|---|---|
| `OpenRequest` | a request is opened and its first steps are to be created |
| `FindTask`, `InsertTask`, `InsertFails` | `createTaskAndNotify` |
| `GiveOwner`, `Rebind`, `GiveDelegates`, `FindShare`, `AddShare` | `CreateDelegated`: a copy for the owner of the closed copy's original, copies and shares for the delegates |
| `SubmitTask`, `UpdateTask`, `RereadTask`, `ReadRequest`, `CheckOthers`, `AdvanceRequest` | `TaskService`, with one verdict |
| `FindAbove`, `WriteAbove`, `FindBelow`, `WriteBelow` | `UpdateDelegated`: what the task is bound to, then what is bound to it, each written row starting a goroutine |
| `CreateDelegation`, `UpdateDelegation`, `Today` | `DelegationService`: stored and changed; a day passes |
| `Trigger`, `FindCopyShare`, `AddCopyShare`, `FindCopy`, `AddCopy` | `Trigger` and its goroutines, one for each open task of the owner, or of an entity of any task of his |
| `DeleteDelegation`, `DeleteShares`, `FindRivals`, `WithdrawCopies` | `SpecializedDeleteRow` |
| `ExpireDaily`, `TriggerDaily` | `VerifyLoop` |

`Alone` names the calls that start only when nobody, goroutines included, is at
work; it is how the runs choose which calls overlap, and the proofs hold for any
value of it.  `RequestWorkflow` and `Delegations` share the functions of
`task_service`; the first has their verdicts, dismissals, wrapped workflows and
verifications, the second one verdict and the bound copies.

What the code does that a reader may not expect, and the model has:
`UpdateDelegated` writes the id of the row it found into `binded_dbtask` of that
row (`utils.go:309`), so an original is bound to itself once its copy closes;
`GiveOwner` gives the next step to the owner of the closed copy's original, beside
its own assignee; `Trigger` looks for a copy by user and request and leaves the
step out (`delegation_service.go:103`); the test for another current delegation
runs when the row of the deleted one is gone (`delegation_service.go:173`).  Two
more bound what can be promised at all:

* *A request is walked twice.*  An answer may be sent again after the end.  The
  request then gets the index -1 and nothing is created, but its state is computed
  from the next index as if it stood there (`task_service.go:162-191`,
  `task_service.go:208-210`).  So repeated answers lead it from one past the last
  step to -1, to -1 with the state running, to 0, and to its first step once more,
  whose tasks are found and not created again, or created where the first walk lost
  them.  The index is then below tasks that are still open, and tasks are left
  behind it.  `AdvanceRequest` and `StateAt` have all of it; `ClosedTogether`,
  `OpenHere` and `PassedOver` are said of the time before (`FirstWalk`), the others
  of both walks.
* *A delegation takes in tasks of others.*  A delegation of all tasks copies the
  open tasks of an entity that any task of its owner has, whoever has them
  (`delegation_service.go:58-66`).  Such a copy has no delegation between its user
  and its original's, no end of a delegation withdraws it, and a delegate may get it
  twice, from two goroutines.  The constant `Entity` gives steps their entity;
  `OneOfEach`, `CopiesDelegated` and `CopiesShared` are said of the steps that have
  none (`Personal`, `Sole`), the others of all.

Left out: the share of `utils.go:264-277`, whose query has a stray parenthesis and
is always refused; the second half of `Trigger` (`delegation_service.go:155`), which
triggers the delegations of the delegate; changes of a delegation by somebody else
than its owner; tasks created directly, not through a request; steps given to an
entity alone or to the creator (`Assignee` is a user, the entity stands beside it).
A share's dates are
those of its delegation, and two shares alike are one.  INSERTs of shares are taken
as accepted; those of tasks may be refused.  `UpdatesMayFail` is about the UPDATEs
of requests and of `UpdateDelegated`; that of the answered task itself
(`UpdateTask`) is accepted, since a call whose UPDATE is refused ends there.  The
`Domain` the goroutines share keeps nothing between statements that matters to them.

### Limits of the statements

* A SELECT that is refused is modelled in `RowCalls` only.  In `CheckOthers` of
  `RequestWorkflow` and `Delegations` it would count as "no other task is open"
  (`task_service.go:133` tests the error and the number of rows together), and the
  request would move.
* `DeleteTask` of `RequestWorkflow` reads the row and deletes it in one step.  The
  call uses of the row its request and its name, which no call changes, and its choice
  of next steps: an answer that changes the choice between the two statements, and a
  second deletion that reads the same row, are not in the model.
* A field that has the name of a root table gets no column
  (`schema_field_service.go:102`).  No field of `SchemaRegistry` has such a name.
* A request whose workflow has no first step is deleted as it is opened;
  `OpenRequest` of `Delegations` opens none of these.

## 4. The runs

All runs check deadlock off: a server with no call in progress, and a model whose
bound on calls is used up, may stop.

| run | what it checks | bounds |
|---|---|---|
| `RequestTurns` | `TypeOK`, `NoDuplicateTask`, `ReopenedByDismissal`: a request that goes back and forth never gets a step's task twice for the same data | every verdict, any UPDATE or INSERT refused, 9 calls: the request returns to step 1 and comes forward again |
| `RequestPath` | `PathRefined`: the engine implements `RequestPath`; `StepGate`, `NextsHonoured`: a step is left when it is answered, and what comes next was left open or chosen | two parallel tasks, then a choice of two steps, one of which wraps a workflow; 4 calls: open, answer both, answer once more, which dismisses, refuses or completes at step 2; no task is canceled or sent again, since both give out a step anew whatever was chosen |
| `RequestParallel` | `ClosureAgrees`, `NoStepAhead` with two calls side by side | answers sent twice, deletions, changes by hand, verifications; 4 calls are the least with which both tasks of a step are closed together and the next one answered |
| `RequestLiveness` | `NeverStranded`, `VerdictTraced`, `ClosedLeavesNoMandatoryTask`: an open request is never left without a task, and ends as its users answered; `EventuallyClosed` | two requests with two tasks on step 1 and one on step 2, completed or refused; 8 calls are two creations and three answers each, so the bound on calls never stops a request |
| `RowsShared` | `TypeOK`, `CacheCovers`, `ReadYourWrites`, `DeleteScoped`, `NamedUpdateScoped`: a row that was not asked for is never deleted, and is written by the UPDATE of a named row only after two mishaps together | two users, two tables (`dbview`, emptied with every other table, and one whose writes empty the whole cache), calls of two items, 3 calls: write, read, and read again of the other user |
| `RegistryShared` | `TypeOK`, `FieldsHaveColumns` with two calls side by side | two schemas, two plain fields and a "many" field, 4 calls |
| `RegistrySerial` | `NoGhost`, `NothingForgotten` | one call at a time; deletions, refused DDL, a restart between any two statements; 3 ids, so that a schema is deleted and created again; 5 calls |
| `DelegationTurns` | `TypeOK`, `BoundAlike`, `ClosedTogether`, `OpenHere`, `OneOfEach`, `SharesFollow`, `CopiesDelegated`, `CopiesShared`, `ClosingSpreads`, `PassedOver`: once nobody is at work, copies, originals and shares agree, and nothing is open that a closed task or a passed step should have closed; `ClosedKept`: what is closed is never written again.  `ClosedTogether`, `OpenHere` and `PassedOver` until a request that has ended is walked again, `OneOfEach`, `CopiesDelegated` and `CopiesShared` of steps of no entity | one call after another, the goroutines of each in every order; two steps, the second given to an entity too, one delegate each, 2 delegations (of one task or of all), any INSERT of a task refused; 7 calls: delegate, close the copy or the original, end the delegation before or after; or open, close both steps and repeat an answer until the request is running again |
| `DelegationOverlap` | `BoundAlike`, and `Settles`: the goroutines that start one another come to an end | two closings at a time with the goroutines of both, the daily loop, 10 tasks, 5 calls; one delegation; the second step has an entity |

### Where code and comments disagree

These runs must fail, each on one property taken from the repository's own words.

| run | the words | what happens |
|---|---|---|
| `FoundCompleted` | "should be last..." (`task_service.go:183`) | the last two tasks of a step are closed together; both calls move the request, which completes with a mandatory step untouched |
| `FoundVerification` | "must have a before hierarchical validation" (`database.go:391`) | after the validation the index goes from *k* - 0.1 to *k*, whose step asks for the validation again, for ever |
| `FoundReopened` | "task is already closed, you cannot change its state" (`task_service.go:83`) | a goroutine of `UpdateDelegated` goes on with a row read while it was open, or a second call with the check it made then, and writes the closed task open |

Seven more were seen in the models and have no run of their own, to keep the
project small; each is plain once the line is read:

* dismissing the only task of the first step: the test is `current_index >= 1`
  (`task_service.go:155`), which holds there, so the request goes to index 0 and stays
  open with no task, while the comment says "no before task close request and
  task" (`task_service.go:160`);
* deleting a field: the test of the error is inverted (`schema_field_service.go:120`),
  so the column and the entry in the registry stay, while the comment says "delete
  all columns" (`schema_field_service.go:118`);
* the daily loop ends a delegation as the super administrator, and the copies
  withdrawn are those bound to tasks of the user of the call
  (`delegation_service.go:185`), so the delegate's copies stay open;
* a delegation of "all tasks" (`database.go:692`) copies only one of two open tasks of
  a request, because the lookup for an earlier copy leaves the step out
  (`delegation_service.go:103`);
* the UPDATE of a row named by its id, built while its handles are closed, is sent
  without WHERE and writes every row (`query_builder.go:258`, `query_builder.go:326`;
  section 3, `RowCalls`);
* answers repeated after the end of a request lead it through its steps once more
  (`task_service.go:162-191`, `task_service.go:208-210`);
* a delegation copies tasks of other users of an entity for the delegate, and no end
  of it withdraws them (`delegation_service.go:58-66`).

Met while reading: of two tasks of one step the last answered decides, so an
earlier refusal does nothing (`task_service.go:193`); the workflows chosen in `nexts`
are searched as text, so that 1 is found in 12 (`task_service/utils.go:117`); a step
"assigned to its creator" goes to the user of the call in progress
(`task_service/utils.go:39`); canceling a task without a choice gives out the other
steps of its index, chosen or not (`NextsHonoured` excludes it); a custom state of
a step is overwritten (`task_service.go:204`); the DELETE of a notification names a
column it does not have, so notifications stay (`task_service.go:117`); two fields
created side by side on one schema lose one registration (`models/model.go:70`);
fields given together with a new schema are dropped (`schema_service.go:38`); an
answer of a read that began before a write of the same user may be filed after it
(`domain.go:234`); with two delegates, closing one copy may leave the other open
after the request has moved (the runs have one delegate each).

### Fairness

`Fairness` of `RequestProperties` gives each handler weak fairness on its own steps:
a handler is a goroutine, the Go scheduler runs goroutines that are ready, and none
of its statements waits for a lock another call holds, since there are no
transactions.  The users' part is separate: `AnsweredSpec` adds weak fairness of
answering each open task with completed or refused.  That is an assumption about
people, not about the code, and without it no request need end.  `RequestLiveness`
has one handler, i.e. calls wait for each other.

`FairSpec` of `DelegationProperties` (run `DelegationOverlap`) has weak fairness of
each call's steps and of the goroutines' (`SpreadStep`, `CopyStep`: one of them goes
on), for the same reason, and nothing of users or of the daily loop.  `Settles`
holds although each run of `UpdateDelegated` starts others, because a run takes only
rows it finds open, and the run of the call has closed them by then.

## 5. The proofs

All theorems are of the full specifications, for any number of users, steps,
tables, calls and any bound.  Assumptions about constants are those named in the
modules (`ConfigAssumption`, `InputAssumption`, `BoundAssumption`,
`CallsAssumption`, `RegistryAssumption`, `StepAssumption`, `ModeAssumption`,
`SizeAssumption`), and those in the second column.

| theorem | assumes | says |
|---|---|---|
| `TypeCorrect` | | `TypeOK`, and rows and calls refer to requests that were inserted |
| `ClosureCorrect` | | `ClosureAgrees` |
| `NoStepAheadCorrect` | `~UpdatesMayFail` | `NoStepAhead` |
| `StepGateCorrect` | calls in turn (`InTurns`), `~Deletes` | `StepGate`, an action property |
| `PathRefinement` | `InTurns`, `~Deletes`, `~UpdatesMayFail` | `PathRefined`: the engine implements `RequestPath` |
| `NoDuplicateCorrect` | `InTurns` | `NoDuplicateTask` |
| `NextsCorrect` | `Sequential`, `BeforeFirst`, `NoneGivenAgain` | `NextsHonoured` |
| `VerdictCorrect` | `Sequential`, `BeforeFirst`, `Contiguous`, `EndsByAnswers` | `VerdictTraced` |
| `ClosedCorrect` | `Sequential`, `BeforeFirst`, nobody ends a request by hand | `ClosedLeavesNoMandatoryTask` |
| `ReopenedCorrect` | `Sequential`, `NoneBefore`, `Contiguous`, no request changed by hand | `ReopenedByDismissal`, an action property |
| `NeverStrandedCorrect` | the same, and `PlainAnswers` | `NeverStranded` |
| `RowTypeCorrect` | | `TypeOK` of the row calls |
| `AnswersCover` | | `CacheCovers` |
| `DeletesScoped` | | `DeleteScoped`, an action property |
| `UpdatesScoped` | | `NamedUpdateScoped`, an action property: the UPDATE of a named row leaves its row only after two mishaps (`Unnamed`) |
| `OwnWritesRead` | `Serial` | `ReadYourWrites` |
| `RegistryTypeCorrect` | | `TypeOK` of the registry |
| `ColumnsFirst` | `~Deletes`, `~Restarts`, `~DdlMayFail` | `FieldsHaveColumns`, with calls side by side |
| `NoGhostInTurn`, `NothingForgottenInTurn` | `Serial` | `NoGhost`, `NothingForgotten` |
| `DelegationsTyped` | | `TypeOK` of the delegations |
| `DelegationsBoundAlike` | | `BoundAlike` |
| `SharesCorrect` | delegations are ended when nobody is at work | `SharesFollow` |
| `OneOfEachCorrect` | every call waits until nobody is at work | `OneOfEach`, of steps of no entity |
| `CopiesDelegatedCorrect` | the same, `~InsertsMayFail`, `~Daily`, and no delegate delegates in turn (`NoChain`) | `CopiesDelegated`, of steps of no entity |
| `CopiesSharedCorrect` | as for `CopiesDelegatedCorrect` | `CopiesShared`, of steps of no entity |
| `ClosedKeptCorrect` | every call waits until nobody is at work, `~UpdatesMayFail` | `ClosedKept`, an action property |
| `ClosingSpreadsCorrect` | the same | `ClosingSpreads` |
| `PassedOverCorrect` | the same | `PassedOver`, until a request that has ended is walked again |
| `ClosedTogetherCorrect`, `OpenHereCorrect` | the same, `LastLevel <= 2`, and all delegate to one user who delegates to nobody (`OneDelegate`) | `ClosedTogether`, `OpenHere`, until a request that has ended is walked again |

The assumptions of the requests in turn, and why they are there:

| name | means | without it |
|---|---|---|
| `InTurns` | calls do not overlap | both tasks of a step closed together move a request twice (`FoundCompleted`) |
| `Sequential` | `InTurns`, nothing is deleted, no UPDATE is refused, no answer is sent again | a refused UPDATE of the request gives out the tasks of a step at which it does not stand; an answer sent again moves the request again |
| `BeforeFirst`, `NoneBefore` | only a first step asks for a validation before it, or none does | the index goes back and forth between *k* - 0.1 and *k* (`FoundVerification`) |
| `Contiguous` | the steps of a workflow are numbered without a gap | a step is searched at the next index, and a gap ends the request there |
| `EndsByAnswers` | nobody ends a request by hand, and tasks are canceled only where no step asks for a validation | a request ended by hand ends without answers |
| `NoneGivenAgain` | nothing is canceled; with dismissals a workflow has two steps at most; where tasks are refused only a first step is optional | each of these gives out a step anew, whatever was chosen before |
| `PlainAnswers` | tasks are completed, refused or set running; no optional step is refused; no choice of next steps; INSERTs are accepted | dismissing a first step, choosing no next step or losing the INSERT of the only task leaves the request open with nobody to answer |

They are conditions on the configuration and on what users do, and the runs that
check the properties satisfy them, with two exceptions: `RequestTurns` checks
`ReopenedByDismissal` with refused UPDATEs too, which the proof does not cover, and
`DelegationTurns` checks `CopiesDelegated` and `CopiesShared` with refused INSERTs.
There `CopiesDelegated` holds because three users leave nobody to be bound wrongly:
with four, the refused INSERT of an owner's task lets a delegate's copy be bound to
the task of another.  The proof of `CopiesShared` rests on the same invariant.
Delegation chains and the daily loop break `CopiesDelegated` too: the copies of a
chain are not withdrawn with its first delegation, since no foreign key removes them,
and the loop, which deletes as the super administrator, withdraws nothing.

The inductive invariants:

* **Requests.**  `Typed` is `TypeOK /\ References`; the second is needed because
  a handler writes the request it read some statements ago.  `ClosureAgrees` is
  inductive on top of it: every write goes through `SetClosureStatus`.
  `NoStepAhead` is not inductive, since a call that has moved a request still has
  its tasks to create: `WithinReach` says that this work, too, lies within what
  the request has reached.  If the UPDATE of the request is refused the work is
  created without it, hence the assumption.
* **Requests in turn.**  `StepGate` and the refinement are about what a handler
  read some statements ago.  `Turn` says it is still so: the task it was sent has
  the verdict it works with, the index it read is the request's, and at `advance`
  every open task of the request has its name; no other call can have changed
  them, and the proof is that no other step of this call does.  With it each
  action but the moving of the request leaves `current_index` alone, and that one
  is guarded.  For the refinement `Placed` adds that everything still to be
  created belongs where its request stands (`Here`), and that ids not yet given
  have no row.  Each action is then mapped to its step of `RequestPath`.  A refused
  UPDATE of the request would create tasks of a step where it does not stand,
  hence the assumption; refused INSERTs do no harm.
* **What a request's tasks are.**  For `NoDuplicateTask`, `Single` says that no two
  things a call has to create are the same step of the same request, and that what
  it looked for in vain (`FindTask`) is still absent.  The other properties build on
  `Steady`: besides what the refinement needed, open tasks and tasks to be created
  belong to the step at which their request stands, a step's task is open once, and
  an answering call holds the choice of next steps that its task has (`Standing`).
  For `NextsHonoured` each thing to create has a completed task behind it that asked
  for it (`ChosenItem`), and such a task is never written again (`EndedStays`).
* **How requests end.**  For `VerdictTraced`, `LevelsDone` says that every step the
  request has left behind has a completed task; without it nothing is known of the
  earlier steps when the last one completes.  For `ClosedLeavesNoMandatoryTask`,
  `Mild` extends the property to what is still to be created.  For
  `ReopenedByDismissal`, `Rested` says that whoever is still at work on an ended
  request finds it at its last step, where only a dismissal leaves it open.  For
  `NeverStranded`, `Followed` is the property and `Passed` says that a request never
  comes to a step it has tasks of already, since `CreateHierarchicalTask` would find
  those and create none.
* **Rows.** `CallsInStep` says what a call at a given place may hold; the restriction of
  a handle that is still open is the one the item asked for or none, and `DeleteScoped`
  follows because `GuardDelete` and an empty WHERE stop the other case.  Of an UPDATE it
  says that while the loop over the columns is on the call's own handle, closed or not,
  that handle keeps such a restriction, and that what is selected when the UPDATE is
  sent is what the item asked for unless `Unnamed` holds; that is `NamedUpdateScoped`.
  `Recent` (one call per user, rows and answers at least as recent as their user's
  writes, and a writing call that has dropped its user's answers) gives
  `ReadYourWrites`.
* **Registry.**  For `ColumnsFirst`, `Right` says that an entry's id never
  changes, so a copy belongs to the entry it will be written to, and that what a
  copy lists has a column already.  For calls in turn, `InTurn` says what the one
  call at work still owes the registry at each of its places; it is restored by
  `Restart`, which ends the call and reads the rows.

* **Delegations.**  A task's request and step are never written again, so what a
  call, a goroutine or a row remembers of them stays true.  The sets of what may
  be remembered (`GoodItem`, `GoodHandler`, `GoodCopy`, `GoodSpread`) only grow
  (`SetsGrow`); `IInv` says that every row, stack, call and goroutine is in its
  set, and each action adds a member that is good already.  No assumption on who
  overlaps with whom is needed.
* **Delegations in turn.**  For `SharesFollow`, `Sharing`: every share has a
  delegation that is there, or one whose end is about to delete it, and whatever a
  call or goroutine is about to add has a delegation that is there; the end waits
  for them, so none is added behind it.  For `OneOfEach`, `Turnwise` (one call at
  most is at work, and goroutines of `Trigger` only when none is) and `Single`: of
  all tasks, open or closed, a user has one per step of a request that no entity has
  (`Sole`, `Twins`), since a closed
  row counts for the search and may be opened again; what a stack or a goroutine
  looked for in vain is still absent when it is inserted (`Ready`, `Fresh`), and no
  two goroutines copy the same step.

* **Copies.**  For `CopiesDelegated`, `Backing`.  A task becomes a copy by being
  bound, and it is bound by what creates tasks and by the goroutines of
  `UpdateDelegated`, which write a row they read before.  So the invariant says of
  each such row, and of all that a stack, a run or a goroutine of `Trigger` still
  has to write, that a delegation that has begun stands behind it (`Backed`) or
  that the user is the one the step is assigned to (`Allowed`); of the copies there
  are it says that a delegation stands behind them or that its end is at work
  (`Ending`).  While an end is at work no goroutine is (`Quiet`).  The end then
  finds every copy: the owner's task is his, since nothing changes a task's user,
  and it is there, since only copies are withdrawn and with `NoChain` nothing is
  bound to a copy through another delegation.
  One binding goes the other way: when a delegate has closed a copy, the next step
  goes to whom it is assigned to and also to the owner of the original, and the
  first is bound to the second.  Every copy made on the way asks for the owner's
  task again; `Neat` says that he has it by then (`Served`), so that no delegate's
  copy is bound to it.  The order of the stack brings that about as long as the
  INSERT of his task is accepted.
  For `CopiesShared`, `Showing` says the same of shares: the delegation of a share is
  one between the share's two users; in a stack what creates a copy is followed by its
  share (`Paid`); and for every copy, and for every goroutine or run that may still
  write one, the share is there or still to be added by a call (`Sees`), unless the
  end of the delegation is at work.  Like the property, it says nothing of two users
  between whom more than one delegation was ever made (`Only`): there one end deletes
  the shares that the other delegation needs.

* **Closing.** For `ClosedKept`, `ClosingSpreads` and `PassedOver`, four layers, each
  inductive on the ones before.  `Placed`: the index and the state a call read are still
  its request's; what it creates is bound to nothing that was there before, nor that to
  it (`Aside`); and, until a request is walked again, it belongs to the step just
  reached, and no task to a later one (`NewStep`, `Reached`, `Walked`).  The layers
  above need of new tasks only that they stay aside, so that `ClosedKept` and
  `ClosingSpreads` hold in second walks too.  `Sorted`: which rows each goroutine can
  still reach.  Bindings form a tree of two levels under an original (`Root`), a
  goroutine goes up it or down it, and what the closing of one task has started stays
  away from what the other runs write; so no two goroutines are about to write "closed"
  and "open" on one row, which is what `ClosedKept` needs of rows read several
  statements before they are written.  `Shut`: what is bound to a closed task, and what
  a closed task is bound to, is closed, unless a goroutine is still on its way to it,
  upwards (`Rises`) or downwards (`Falls`); at rest no goroutine is left to excuse
  anything, which is `ClosingSpreads`.  `AllLeft`: when a call comes to `advance`, and
  until the next step's tasks are made, what the request leaves behind is closed or has
  a goroutine that will close it; at rest this is `PassedOver`.  A refused UPDATE leaves
  a row open behind the goroutine that should have closed it, hence `~UpdatesMayFail`;
  the number of users, of delegates and of steps is not restricted, and refused INSERTs
  do no harm.

* **One delegate.** `ClosedTogether` and `OpenHere` do not hold of every configuration:
  with a second delegate, or with a third step, a task closed by one user leaves the
  copies of others open; what holds then is `ClosingSpreads` and `PassedOver`.  They
  hold of workflows of two steps when all delegate to one user who delegates to nobody,
  as long as no request is walked again, and `Paired`, a fifth layer over the four of
  closing, says why: the invariant is `FirstWalk => Paired`, and `WalkedOnce` that a
  second walk, once begun, is never forgotten.  Of the tasks: a step of a request has
  two at most (`Duo`), one of which is the delegate's, unless he has closed a task of
  the request before, and the two are of different users (`Mixed`), which is why copies
  of an entity's tasks do no harm here; what is bound to another is bound to one that is
  bound to none (`Flat`); and of two, one is bound to the other, or a call has the
  UPDATE still to do that binds it (`Tied`, `Pending`).  Of what a call creates: it is
  for the user in charge of the step, or for the delegate, or for the owner of the
  original that the closing call has closed with its copy, who are never more than two
  (`Duet`).  Of the goroutines: the ones that write "open" find nothing open to write
  (`Mute`).  And of requests at their first step: one that has a closed task has an open
  one too, or is just being closed (`InPlay`), and a call that closes an original again
  does not move it (`RowSolo`); it is here that a third step would fail.  At rest no
  UPDATE is pending, so `Tied` with `Shut` gives `ClosedTogether`; and the closed task
  that `AllLeft` demands of what is left behind, bound to it neither way, cannot exist,
  which gives `OpenHere`.

Only model-checked: liveness (`EventuallyClosed`, `Settles`), which is out of TLAPS's
reach.  Every invariant and every safety property of the passing runs is a theorem,
under the assumptions of the table.

## 6. What is not modelled

See the components in `PROJECT.json`.  Beyond the modules of the plan: parsing of
HTTP calls and encoding of answers (no state), the shape of views (display),
uploads (files), plugins (data of one customer), dashboards and the access log
(rows appended and listed).
