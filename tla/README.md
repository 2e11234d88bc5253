# Verification of nodecosmos_server

Nodecosmos is a server for trees of nodes that users edit together. Each tree
has an *original* and any number of *contribution branches*, in which changes
are made that are later merged into the original. The data is in ScyllaDB,
written in unlogged batches without transactions; locks and sessions are in
Redis; several instances of the server (actix on tokio) share both. What makes
this system hard is that every operation on a tree rewrites many rows of many
tables, that nothing but a recovery log and the locks keeps these changes
together, and that the process may die, and any call may fail, in between.

The modules here model this: the recovery log, the locks, the tables of a tree
and of what belongs to its nodes, the branches and their merge, and around them
contribution requests and the membership of private trees. TLC checks them on
small instances, and TLAPS proves the most important statements for every
instance.

## Inventory

Paths are relative to `src/nodecosmos/src`.

| Component | State | Operations | Correct when |
|---|---|---|---|
| Recovery log and task (`models/recovery.rs`, `tasks.rs`) | table `recoveries`: object, step, data, `updated_at` | create, update step, delete (all upserts or deletes without condition); every instance looks every three minutes for rows three minutes old and undoes them | an operation takes place as a whole or not at all; every log is dealt with; nobody undoes what is still executed |
| Resource locker (`resources/resource_locker.rs`) | Redis keys `tree:branch` and `action:tree:branch` with TTL | lock a tree, lock actions of a tree, validate, unlock | what the keys are to exclude is excluded; no key is forgotten |
| Request handlers of nodes (`api/node_api.rs`) | – | create, title, import (lock the actions reorder and merge for two seconds), delete (for an hour), reorder (locks the tree) | locks are taken, validated and released on all paths |
| Node reorder (`models/node/reorder*.rs`) | `nodes` (ancestors, parent, order), `node_descendants` (a row per ancestor and descendant), the branch's `reordered_nodes` | 11 logged steps, each with an undo | the two tables describe one tree; an undone move leaves no trace; the node is where it was asked to be |
| Node create, title, delete, import (`models/node/*.rs`) | same two tables, archive tables, workflows and all that belongs to nodes | insert with rows at all ancestors; rewrite of titles at ancestors; archive and delete in 16 logged steps | rows and nodes agree; deletion is undone without loss |
| Branched trees (`models/traits/find_branched.rs`, `models/traits/node/descendants.rs`) | the same tables keyed by branch | show the original's row where the branch has none; copy node and ancestors at first touch | a branch shows the original with its own changes, the original never sees them |
| Branch (`models/branch.rs`, `models/branch/update.rs`) | row `branches`: sets of created, deleted, restored, edited, reordered objects, conflict, status | one `BranchUpdate` per change, read-modify-write of some columns | the lists name what differs between branch and original; no update is lost |
| Contribution requests (`api/contribution_request_api.rs`, `models/contribution_request.rs`) | a row, a branch of the same id, its data, a counter | create, rename, publish, merge, delete | all parts or none; merged once |
| Merge (`models/branch/merge.rs`, `models/branch/merge/*.rs`) | the original's tables, the recovery log, what it keeps in memory of flow steps | 22 logged steps, each with an undo | every listed change is applied once, or none; nothing else is touched |
| Workflows, flows, steps, IOs (`models/flow*`, `models/io*`, `models/workflow*`) | `flows`, `flow_steps` (nodes, inputs and outputs of a step), `input_outputs` (the steps that take them), initial inputs of workflows; a Redis key per flow | create, delete, update of inputs, outputs, nodes | what a step lists is there and knows of it; one step per index; what is deleted stays deleted |
| Descriptions (`models/description*`) | CRDT text, base64 | load, merge updates, save; broadcast to web sockets | no update is lost |
| Invitations, subscriptions (`models/invitation.rs`, `models/subscription.rs`) | editors of nodes, members in the subscription row, seats billed by Stripe, a flag on every node | invite, confirm, remove; Stripe's events and checkout sessions | editors are members, members are billed, flags follow the status; who is removed edits nothing |
| Users, sessions, tokens, likes, counters, comments, tasks, notifications, attachments | a table each | single row reads and writes, counters | statuses follow their life cycle; counters follow rows |
| SSE and web-socket rooms (`resources/*_broadcast.rs`) | in-memory maps of rooms | join, send, periodic clean-up | a member of a room receives its events |
| Search, S3, mail | external | best effort calls | – |

Interaction: a handler takes its lock from the locker, loads the node through
the branched view, runs the operation (`Reorder`, `NodeDelete`, `BranchMerge`,
each with its own copy of the log-and-undo loop), which lists its change in the
branch, and gives the lock back. Handlers of flows, steps and IOs do the same for
their objects, without a log, and only steps with a lock. A merge takes what the
branch's row lists and calls the same models on the original, one kind of object
after the other. The recovery task runs the second half of the
same loop from the log, in any instance, and gives back the lock in the name of
the request that died.

Hard behaviour: two requests between the calls of one another; a crash or an
error at any call, in the middle of a batch, in the undo; the recovery task and
a slow handler on one log; two recoverers on one log; keys that expire or that
somebody else deletes; nodes copied from an original that is being changed. The
list with the line of each is `hazards` in PROJECT.json.

## Modules

| Module | Models | Of |
|---|---|---|
| `SagaContract` | what a logged operation promises: mixed effects only while its log is open | abstract |
| `Saga` | the log-and-undo protocol, with errors, crashes, recoverers, the lock | `recovery.rs`, `tasks.rs`, the loops of `reorder.rs` that `delete.rs` and `merge.rs` repeat |
| `ResourceLocker` | Redis keys and the requests that take them | `resource_locker.rs`, handlers of `node_api.rs`, `contribution_request_api.rs` |
| `NodeTree` | the two tables of a tree for several branches, the branched view, copying, statements on the tables | `node.rs`, `node_descendant.rs`, `find_branched.rs`, `descendants.rs`, part of `create.rs` |
| `Reorder` | the eleven steps of a reorder and their undos on those tables | `reorder.rs`, `reorder/data.rs`, `reorder/validator.rs`, part of `branch/update.rs` |
| `NodeEdits` | creation, renaming and the sixteen steps of deletion, with archives | `node.rs`, `create.rs`, `update_title.rs`, `delete.rs` |
| `BranchRow` | the branch's row: every `BranchUpdate` as a function of it, the lists a merge makes of it, conflicts | `branch.rs`, `branch/update.rs`, `branch/merge/conflicts.rs` |
| `BranchChanges` | requests that update the row at the same time, call by call | `branch/update.rs`, `branch_api.rs` |
| `Contents` | nodes, flows, steps, IOs and descriptions of an original or a branch, and what each handler does to them as a whole | the models and their callbacks |
| `Merge` | the 22 steps of a merge on these tables, with their undos, errors, crashes and recovery | `branch/merge.rs`, `branch/merge/*.rs` |
| `Flows` | the handlers of flows, steps and IOs in an original, call by call | `flow*`, `io*`, `workflow*`, `flow_api.rs`, `flow_step_api.rs`, `input_output_api.rs` |
| `Contributions` | the handlers of contribution requests, call by call | `contribution_request_api.rs`, `contribution_request.rs` |
| `Membership` | who edits and who pays for a private tree | `invitation.rs`, `subscription.rs`, `node.rs` |
| `MC...` | constants for TLC | – |
| `SagaProofs` (with the locker's), `ReorderProofs`, `NodeEditsProofs`, `BranchChangesProofs`, `MergeProofs`, `FlowsProofs`, `ContributionsProofs`, `MembershipProofs` | theorems about these | – |

How they fit together: `Saga` says of a step only whether it is undone, done in
part or done, and has the log, the recoverers and the lock in full. `Reorder`
and `NodeEdits` turn this round: the rows in full, and of the log only that a
crash leaves an operation `dead` at its logged step until `Recover` undoes it
from there. That this is all there is to the log is what `Saga` shows (`Atomic`,
`WriteAhead`). Both rest on `ResourceLocker` for what may run at the same time:
`Reorder` has one reorder per branch, `NodeEdits` no reorder at all.

`Merge` is built of `Contents`, whose handlers are single steps, and of
`BranchRow`, which `BranchChanges` uses as well: what a merge reads is exactly
what concurrent requests may have written. `Flows` takes the handlers of
`Contents` apart into database calls, and `AsOne` checks that a request that
runs alone has the effect that `Contents` gives it in one step; so the merge, which
has the tree to itself, may use them whole. `Contributions` has of a merge only
that it takes place, and around it all that may happen to the request, the
branch and the lock.

### Saga

`mode[p]`, `step[p]`, `phase[p]` are where process `p` (the request handler or a
recoverer) is in the loop of `execute_reorder` or `recover`; `phase` says whether
it is to log its step or to act on it, since a crash may fall between the two.
`log` and `logStep` are the row in `recoveries`; `log` also tells whether
`updated_at` is three minutes old, and whether the row is a `stub`, which the
upsert of `update_recovery_log_step` makes of a row that has been deleted. A
failed step leaves any of the effects it may leave: error replies do not say
that nothing was written. `Irreversible` are the steps with an empty undo
(`undo_push_new_editors`); they are exempt from `RolledBack`.

The code has two weak spots that the constants switch on and off. A handler may
outlast its log's three minutes (`SlowHandler`), and the deletion of the log may
succeed while its reply is lost (`LostDeleteAck`): the handler then undoes a
finished operation without a log, and if this is cut off the operation stays
half done. `UnlockOnError` says that the API handler unlocks after an error, as
the merge's does: a second request then runs beside the recovery of the first
and writes over its log, as both have the same key. With any of the three set
to TRUE TLC refutes `Atomic`. Two recoverers with one request are harmless,
since undoing twice is undoing; with two requests the slower recoverer undoes
the second request's steps, and TLC refutes `Atomic` again.

### ResourceLocker

Requests are edits (create, title, import; keys for two seconds), deletions,
reorders and merges. `FindFree`/`FindLocked` are the EXISTS of the tree's key,
`Set` the SET NX whose reply the code discards, `ActionFree`/`ActionLocked` the
checks of the action keys, `UnlockKeys` the DEL. `WorkFails` and `Die` leave the
keys that the handlers leave. `Exclusion` is what the locks do guarantee:
between two requests whose keys were set while the tree was free, and have not
been taken away since. Where this does not apply, nothing is excluded: the
`intact` requests of the property are the price of the three flaws the findings
show (EXISTS and SET are two calls, DEL is unconditional, edits' keys expire).

### NodeTree and Reorder

A step is a set of statements, each an insert or delete of a descendant row, or
an update of a node; `FailExecute` carries out any subset of them, which is what
a failed or interrupted unlogged batch may have done. `FindNode` reads the node
(and copies it to the branch), `Refuse`/`Validate` do the rest of
`from_params` with `ReorderValidator`, `CreateBranchNodes` copies all nodes
touched, then come the steps. Order indexes are integers of a small range and
halving is integer division: a grid on which there is soon no room between two
neighbours, as with doubles after some fifty halvings at one place. An index that
the client gives (`GivenIndexes`) is taken for the computed one, whether or not it lies
between the siblings; `Placed` then speaks of the parent alone. Left out:
titles, the limit of 15000 descendants, step 11 (editors are pushed to the moved
nodes; it has no undo and touches no other column), and an insert of a copied
node that fails while its rows are written (`create.rs:195` only logs it).

Of a contribution's tables less is claimed than of the original's. A branch shows a
node below its old ancestors after it has moved it away, since the original's rows
say so (`traits/node/descendants.rs:67`), copies may lack rows, and the original may be
reordered while it is copied from; so two moves of a branch, a failed copy or a
reorder of the original at the same time each leave a branch whose two tables disagree about
nodes that were *not* asked for. What a branch does keep is `MovedListed`: whatever
the branch has and lacks, the rows of the node that was moved, or put back, are
afterwards those of its ancestors, with its order. Its run has all three, and an undo or
the recovery of a first move before a second. Exempt are nodes that were copied in the middle
of a reorder of the original, whose rows, parent and ancestors are not of one tree
when the branch reads them.

### NodeEdits

Every request goes call by call: a creation inserts the workflow, the rows at
the ancestors (one logged batch) and the node; a renaming the rows and the node;
a deletion reads ids, nodes, rows and content one after the other, archives and
deletes. `live` and `archived` say of which nodes the six tables hold rows; what
the rows hold is not told apart, but for the title. The tree's shape is fixed,
since the action keys keep reorders out. Likes, attachments and the search index
are deleted last, without undo and best effort, and left out.

`Racing = FALSE` keeps a deletion apart from work in its subtree and two
renamings of a node from each other. Nothing in the code does this: the action
keys are shared. With `Racing = TRUE` TLC refutes `Listed`, `NothingLost`,
`Agree` and `UndoRestores`; the hazards list how.

### BranchRow and BranchChanges

`BranchRow` has the row's lists as sets, of pairs where the code has a map of
sets by step, and `reordered` as a sequence. Updates of single columns are
statements; updates of `reordered`, inputs and outputs read a column, change it
and write it back. After any of them the row is read again, and if conflicts are
to be looked for it is written back *whole* (`branch/update.rs:559-570`), over
what others have pushed meanwhile. `BranchChanges` has each of these calls as a
step: `Read`, `Write` or `FailWrite` (an error is logged, and the request goes
on), `Reread`, `WriteBack`. `fate` is what was last decided about an object;
`overtaken` are those decided on while another request held a copy to write back,
whose entries may be lost. `Exclusive` and `MovedOnce` say of the row, and of
every such copy, that it can be merged without doing a thing and its opposite.

### Contents and Merge

A set of tables is one record: the rows there are, and a component for each
column that the merge treats in a way of its own (parents and ancestors, titles,
the index of a step, its nodes, inputs and outputs, `inputted_by_flow_steps`,
initial inputs, texts). `loose` are main IOs, which are kept without a step when
it goes. The handlers in a branch (`CreateNodeIn`, `DeleteStepIn`, ...) change
the branch's tables and its row together.

The title of an IO is that of all with its `main_id` (`Alike`): writing one writes
those that are there (`io/update_title.rs:13-38`), and in a branch copies them first.
A new IO takes it from the main one (`CreateIoIn`).

`Merge` starts with what `BranchMerge::new` loads: `was` and `src` are the rows
of the original and of the branch at that time, from which the lists of all steps
are made. `Items` are a step's objects, `Effect` what it does for them,
`UndoItems` and `UndoEffect` the way back, which is not always over the same
objects. `Stuck` are steps that fail each time since a row they need is gone. A
step that fails has done any portion of its items; it is undone, with those
before it, from memory; after a crash, or when the undo fails, from the log
(`fromLog`), which lacks the `deltas` of steps 13 to 16, has the index a step had
before it gave way, and the place a flow had in the branch. A
delta is saved when its UPDATE has answered (`merge/flow_steps.rs:405-417`): the item at
which a step breaks off may have been written without one (`Carry`). Titles of IOs are
written by main_id, so that a merge writes, and its undo puts back, those of IOs
which the branch never listed; of several listed ones that share a main_id the last
stays, and which that is is left open. The title of a node is written with the rest of the
branch's row (`NodeTitles`), its parent and ancestors included, since a merge does
not read the node again (`node.rs:301`), and the node is listed below these; the model takes
the ancestors that `node_descendants` has for those of the row, which differ only when
the merge has written them in this way before. That the rows at the ancestors fail while the title
is written is logged only and left out here (`NodeEdits` has it). A reorder within the
merge is one step here; how it goes wrong is `Reorder`'s matter. That it fails is
no error of the merge nor of its undo, which log it and go on (`FailMove`,
`FailMoveBack`).

`MergeInv` says what a merge leaves alone: everything in `Left`, which is what
the original had without what is `Doomed`. Doomed are, while a merge goes on, what the branch
deletes and what goes with it (`Along`, `Unlisted`); while it is undone, also the
branch's own objects, and with them the nodes that lie below these or may be moved or
listed there (`Astray`).

### Flows

Each request is a program of calls; a read puts the calls that follow from it
in front of the rest, with what it has read. So a deletion of a flow reads its
steps and then deletes what it knows of, an update of inputs writes back IOs it
has read before, and an UPDATE inserts a row it does not find: `Upserted` rows are
the stubs `DeletedStays` speaks of. Steps are created and deleted under a key of
their flow, taken in two calls (`FindFree`, `SetKey`) as `lock_resource` does, which
expires only when its owner is not at work; `shared` are the flows whose key two
requests have found free at once, which `IndexOwn` exempts. A new
step comes with the nodes its client sends (`FirstNodes`). It may also come with inputs and
outputs, which `create_flow_step` inserts without telling the IOs; the models
create steps without, so that `Agreement` says nothing of these. A request that
broke off leaves its objects `Unsettled` until it is repeated, or a deletion mends
it. `Racing = FALSE` keeps requests on the same rows apart, which nothing in the
code does: with `Racing = TRUE` TLC refutes `FlowsInv` and `DeletedStays`, and also
`IndexOwn`, since the stub of a deleted step comes back at an index that is taken by
then.

### Contributions

A contribution request is a row, a branch of the same id, the branch's data and
a unit of a counter, which the handlers write one after the other. `Ask` chooses
a request; `copy` is what it has read and will rely on: the status a page showed
(`publish` sends the whole row back), the row that a merge reads *before* it takes
the lock, the branch's row that an edit writes back whole. Only merges take a
lock, in two calls (`FindFree`, `SetKey`), so that two may hold it, and edits,
renamings and deletions run beside them. `unsettled` are
contribution requests with a broken-off request or with ones that clash (a
deletion beside anything, an edit beside the merge); `reopened` those with
overlapping merges, a merge broken off between its work and its mark, an old
page published over the mark, or a client that made it as merged: a new request keeps
the status that came with it (`contribution_request/create.rs:11-21`). These are what
`Agrees` and `MergedOnce` exempt. A merge that finds conflicts writes the branch's row
whole, as it was loaded, before it gives up (`FindConflicts`); over the mark that an
overlapping merge has made this takes the mark away while the request's row stays merged,
which is why `reopened` exempts such a branch from agreeing with its row.

### Membership

For a private tree four things must agree that no transaction holds together:
`editor_ids` of the nodes, members of the subscription row, seats at Stripe, and
`is_subscription_active` on every node. `Calls` lists what each request and each
of Stripe's events reads and writes, in order; the row is read and written whole.
Stripe's events come in any order and again until they are answered. What has
clashed or broken off is in `owing` (confirmed editors who are not members yet),
`stray` (removed while confirmed, or while a node was created) and `mixed` (row,
seats, flags), and is exempted as far as it reaches; without any one of these TLC
refutes `MembershipInv` or `Expelled`.

## Runs

| Run | Checks | Bounds |
|---|---|---|
| `saga` | `Atomic`, `SagaInv`, `WriteAhead`, `Implements`, `RecoveryCompletes`, `LockFreed` | 4 steps (first, last, irreversible and one between), 1 recoverer, 2 requests, 4 faults: enough for a failed step, a failed undo, a failed recovery and one more |
| `locker` | `Exclusion`, `LockerInv`, `NoLeak` | 3 requests of all kinds, the original and one branch: any two that conflict and one that takes a key away |
| `reorder` | `OriginalRight`, `ListFollowsTree`, `RollbackRestores`, `Placed`, `OriginalUntouched` | all shapes of trees of 4 nodes, two order indexes, one of them also given, one reorder in either branch, 2 faults: the deepest moves, with ancestors removed and added, and a failing undo |
| `reorder_both` | `OriginalRight`, `OriginalUntouched`, `MovedListed` | 3 nodes, 1 fault, copies that break off; a reorder in each branch at once, or two of the contribution, the second over a first that was done, undone or half copied |
| `node_edits` | `Listed`, `NothingLost`, `Agree`, `UndoRestores`, `EditsInv` | 4 nodes, a deletion and another request, 2 faults |
| `branch_changes` | `ChangesInv`, `FateListed` | 2 nodes one below the other, 2 flows, a step, an IO; 2 requests at once out of all handlers, 3 in all, 1 failed write: two that read and write the same column and one in between |
| `merge` | `MergeInv`, `MergedRight`, `Undone`, `AllOrNothing` | 4 nodes, 3 flows, 3 steps, 3 IOs; any 2 edits of the branch, 1 of the original by others, 2 merges, 2 faults: a step and its undo that fail, or an undone merge and a second one over what it left |
| `flows` | `FlowsInv`, `IndexOwn`, `DeletedStays`, `AsOne` | 2 nodes, 2 flows, 4 steps of which three have one index, 3 IOs (main, plain, initial); 2 clients, 3 requests, 1 failure |
| `contributions` | `ContributionsInv`, `MergedOnce` | one contribution request that is there and one to be made, 3 clients, 4 requests, 1 failure: two merges, an edit and a deletion on the same one |
| `membership` | `MembershipInv`, `Expelled` | a root and one node to be created, the owner and 2 users, 2 requests or events at once, 4 in all, 1 failure: invited, confirmed, removed and one thing beside |
| `merge_undo` | refutes `DeletedDataRecovered` | one merge and one fault |
| `locker_reorders` | refutes `ReorderAlone` | two reorders |

The two refuted properties quote what the code's comments say; PROJECT.json
`findings` has the quotations.

### What else the models show

Some limits of the code can be seen by changing a constant or by dropping an
exemption from a property. They need no run of their own:

- The recovery task takes a log after three minutes whether its handler is done or
  not (`recovery.rs:79`), and two instances may take the same one
  (`recovery.rs:92`, `:98`): `SlowHandler = TRUE`, or two recoverers and two requests,
  refute `Atomic`.
- A lock does not keep two creations of a step at one index apart: `IndexOwn`
  without `shared` is refuted.
- A merge locks the original, not the branch (`contribution_request_api.rs:142-144`).
  Of two merges that wait for the lock the second merges a branch that is merged: its
  request was read before (`contribution_request_api.rs:132`, while
  `contribution_request.rs:254-256` refuses merged ones). `MergedOnce` without
  `reopened` is refuted.
- A merge undoes its reorders in the order they were made
  (`merge/nodes.rs:344`), to the parent they had in the branch. `Undone` without its
  restriction to one move is refuted.
- The undo of a merge deletes nodes of the original: those that the branch has moved
  below a node of its own, if they are not moved back (`merge/nodes.rs:365-380` logs
  the error of the move, and the undo of the creation deletes the branch's node with all
  that is below it). `MergeInv` without `Astray` is refuted.
- It may also leave nodes. `remove_nodes` passes over a node of its list that is listed
  below another one of it, which takes it along (`merge/nodes.rs:209-217`); but the
  moves have been undone by then, so a new or restored node below one that the branch
  had moved under a new node is no longer below that one, and stays. `Undone` without
  `MovedBack` is refuted.
- A branch keeps of each node its last move only (`branch/update.rs:151-159`), in the
  order of the first ones. A move that an earlier one had made room for may then be
  refused on the merge, which is logged and passed over (`merge/nodes.rs:313`):
  `MergedRight` without `NeverBelow` is refuted.
- A main IO that is deleted is kept without its step, but loses its description
  (`io.rs:114-123`); a description that the merge has given it before is lost as well.
- A step kept in spite of a conflict gets the next index, which is not checked to be
  free (`merge/flow_steps.rs:318`).
- Descendants of a node in a branch are those of the branch and of the original
  together (`traits/node/descendants.rs:34`, `:67`): a node moved away in the branch
  is still shown below its old ancestors. A second move in a branch then takes it
  along, into the wrong place: `MoveBudgets` of two in a branch of four nodes refute
  `RollbackRestores` (with one move it holds, `CopyFaults` or not; `Placed` holds of two
  as well).
- A copy of a node to a branch may lose its rows for good (`node/create.rs:184`, an
  error is logged), and nodes may be copied from an original that is being reordered:
  without its exemption of these `MovedListed` is refuted.
- With the title of a node a merge writes the parent that the node has in the branch
  (`node.rs:301`, where "the latest data" is read outside of merges only), over what others
  have moved, and the undo does not take this back: `Undone` is refuted without its
  exemption of nodes with a new title.
- The deltas of steps 13 to 16 are kept after the write was answered
  (`merge/flow_steps.rs:414`): a step whose write was applied though an error came back
  keeps the branch's nodes when the merge is undone. `AllOrNothing` is refuted without
  its exemption of one such step.
- Two merges at once, of which one finds conflicts, leave a merged request with a branch
  that is not marked (`merge/conflicts.rs:92`): `Agrees` without `reopened` is refuted.
- `Branch::update` swallows its own error: `SilentListError = TRUE` refutes
  `ListFollowsTree`. An undone reorder stays listed, as a move back
  (`node/reorder.rs:810`).
- Inputs of a step may be listed at nodes that the step has no more after a merge
  (`merge/flow_steps.rs:522`); `MergedRight` speaks of the inputs of steps from
  which no nodes are taken.
- Main IOs are kept when they are deleted (`io.rs:119`), but not when their step or
  its node is (`flow_step/delete.rs:32-41`); `loose` are the former only.

Deadlock is not checked: every system here comes to rest when its requests and
faults are used up. Faults and requests are the only bounds; no action is
guarded otherwise than the code is, but for `Racing` and for the lock of a request
at work, which does not expire.

Fairness, in `saga` only: the handler, each recoverer, the ageing of the log and
the expiry of the lock are weakly fair. Tokio polls a task that is ready; the
recovery task is a loop around a three-minute interval; time passes; Redis
expires keys. No request is obliged to come and nothing obliged to fail. The
number of faults is bounded, without which nothing would have to complete.

## Proofs

| Theorem | Says, for all values of the constants | Under |
|---|---|---|
| `SagaProofs!TypeCorrect` | `Spec => []TypeOK` | – |
| `SagaProofs!Invariance`, `Atomicity` | `[]SagaInv`, `[]Atomic` | `Restricted` |
| `SagaProofs!WritesAhead` | `WriteAhead` | `Restricted` |
| `SagaProofs!Refinement` | `Saga` implements `SagaContract` | `Restricted` |
| `SagaProofs!LockerTypes` | `[]LockerTypeOK` | – |
| `SagaProofs!LockerInvariance`, `ConditionalExclusion` | `[]LockerInv`, `[]Exclusion` | – |
| `SagaProofs!KeysAccountedFor` | `[]NoLeak` | – |
| `ReorderProofs!Types` | `[]TypeOK` | – |
| `ReorderProofs!OriginalSafe` | `OriginalUntouched` | – |
| `ReorderProofs!OriginalStaysRight` | `[]OriginalRight` | – |
| `ReorderProofs!OriginalComesBack` | a reorder of the original that is undone leaves both tables as they were | – |
| `ReorderProofs!OriginalPlacesNode` | a reorder of the original that is done has put the node below its new parent and between its new siblings | – |
| `ReorderProofs!ListTellsWhere` | `[]ListFollowsTree` | `~SilentListError` |
| `NodeEditsProofs!Types` | `[]TypeOK` | – |
| `NodeEditsProofs!EditsInvariant` | `[]EditsInv` | `~Racing` |
| `NodeEditsProofs!AlwaysListed`, `NeverLost` | `[]Listed`, `NothingLost` | `~Racing` |
| `NodeEditsProofs!UndoneIsRestored` | `UndoRestores` | `~Racing` |
| `NodeEditsProofs!AgreeAtRest` | `[]Agree` | `~Racing` |
| `BranchChangesProofs!FreeOfContradictions` | `[]ChangesInv` | – |
| `BranchChangesProofs!DecisionsListed` | `[]FateListed` | – |
| `FlowsProofs!Types` | `[]TypeOK` | `~Racing`, `Proper` |
| `FlowsProofs!DeletedStaysDeleted` | `[]DeletedStays` | `~Racing`, `Proper` |
| `FlowsProofs!PlacesOwn` | `[]IndexOwn` | `~Racing`, `Proper` |
| `FlowsProofs!Agreement` | `[]FlowsInv` | `~Racing`, `Proper`, `Sensible` |
| `MergeProofs!MergeSafe` | `[]MergeInv` | `Handled` |
| `MergeProofs!MergeAllOrNothing` | `[]AllOrNothing` | `Handled` |
| `ContributionsProofs!NotMergedAgain` | `[]MergedOnce` | – |
| `ContributionsProofs!PartsAgree` | `[]ContributionsInv` | – |
| `MembershipProofs!AtRestAllAgree` | `[]MembershipInv` | – |
| `MembershipProofs!RemovedEditsNothing` | `[]Expelled` | – |

All of them rest on the assumptions that the modules state of their constants, which
TLC evaluates in every run: that trees are trees (`IsTree`: ancestors are
those of the parent and the parent, and no node is its own), that a request for a
creation names a node of its own (`IsPlan`), that a call lists an object as created
once, that kinds of objects are disjoint, that a step has a flow
(`flow_step.rs:40`), that the steps there are at first have each a place of
their own, and that the rows there are at first agree (`OriginalAssumption`).
`Proper` says that clients of `Flows` ask only for what the handlers offer, `Sensible`
that what they create has a new id and that they give a step inputs which are
there at the time. Without the latter a step may take an IO that is yet to be
created, and which will not know of it: `update_inputs` tells only the IOs that it finds.
Each inductive invariant below was checked by TLC on the instance of the component's
run before it was proved.

`Restricted` is the four conditions of the section on Saga: no slow handler, no
lost reply, no unlocking after an error, and one recoverer or one request. All
four are needed. `SagaInv` is needed because `Atomic` alone speaks of states
without a log and is not kept by deleting one: it adds that the log covers all
effects (`Covered`), that no process is behind them (`NothingBeyond`), that a
handler at work is alone and has a fresh log (`HandlerInv`), and that a log
keeps the lock (`LockInv`).

`LockerInv` strengthens `Exclusion` by what a request has looked at before it
works (`Order`), by the keys that still stand (`KeysStand`), and by the
exclusion of requests that hold keys and do not work yet (`OneHolder`).
`NoLeak` is inductive relative to it.

`OriginalSafe` rests on `Shape`, that the tables are functions of branches, and
on lemmas that a set of statements on one branch does not change another. For
`OriginalRight` it does not do to know the tables at rest: `OriginalOK` says what
they are in the middle. `before` are the tables when the steps began; relative to
them, `HalfwayNodes` and `HalfwayRows` say of each set of nodes and each set of rows
that a step writes how far it has come: untouched ahead of the step, done behind
it, any part done at it, and the reverse while it is undone or left dead.
`OriginalRight` follows after the last step, since the rows then are those of the moved
tree (a tree is a parent and a set of ancestors for each node, so nothing here is an
induction over it), and after the first undo, since they are those of `before`, which
is `OriginalComesBack`. `SitedOK` has it that the index chosen lies between those of the
siblings as they were when the steps began, unless it was given; `HalfwayNodes` that all nodes but the
moved one still have theirs after the last step: that is `OriginalPlacesNode`. Reorders of contributions read the original's tables, but
leave them alone (`OriginalKept`). `ListInv` (`ListOK`) places the listed nodes at
each step in the same way.

`Listed` and `NothingLost` of `NodeEdits` follow from `EditsInv`, which says what
is true in the middle of an operation: a creation has written its rows before
its node (`WriteSound`); a deletion has found every node below its own
(`ReadSound`); at step *k* all that is archived before *k* is archived, all that
is deleted after *k* is still there, and a missing row is among those the undo
puts back (`StepSound`). `KeptApart` lets one request's step leave the others'
parts alone: each step is shown to change only what belongs to its own nodes
(`Untouched`), and those of a deletion are nobody else's. It would fail without
`~Racing`, as the properties do.

`UndoRestores` compares a state with one many steps and failures earlier. `UndoInv`
adds that a node to be created is in no archive and known to no deletion (`Distinct`,
`Fresh`), that what is both in its table and in its archive is in the hands of a
deletion (`Twice`), and of each step of a deletion, forward or back, what it has not
archived yet, what it has deleted, and that it knows the titles and the rows
(`Undoable`). `AgreeInv` says that nodes which no request has in hand have their
rows and title (`Accounted`), that those above a node are there unless a deletion is
taking them away (`Rooted`), what a creation or renaming has written (`Exact`), and
that a deletion knows all there is below its node, with its rows, but for what broke
off (`Complete`). That the nodes above a node are above one another (`TreeOrder`)
is shown with a least counterexample.

For `BranchChanges` the invariant must hold of the row *and* of each copy that a
request is to write back, which replaces the row whatever it has become: nothing is
listed as deleted or restored that nobody knows (`Unlisted`), and `Exclusive` and
`MovedOnce` hold of all of them. `Tells`, that the lists say the last decision, holds
of the row and of a copy that is about to be written back; an object decided on
while there is such a copy is `overtaken`, and exempt. `Queued` says which updates
a request has left, and `Fresh` that what they create is new and nobody else's.

For `Flows` with its programs of calls, `WorkInv` says of each request what the calls are
that it has left: `Fits`, on what each acts and that the row its UPDATE relies on
is there; `Frame`, that nothing is added to what it has still to read; `InTurn`,
that the calls on the lock enclose the others. As requests at work touch different
rows (`Disjoint`), no row disappears between a read and the UPDATE that relies on it,
which is `DeletedStays`. `StepInv` is about the one thing that they do share, the
places in a flow: the key of a flow that is not `shared` belongs to the request at
work on its steps (`KeyOwned`), a creation looks for its place and writes it in this
order (`Orderly`), and a place that was found free and is to be written is still free
(`PlacesFree`).

`Wired` speaks of what no request has in hand, and says nothing of how a request comes
to leave its objects in order. `WireInv` says both. `Wires` is about all rows, at any
time: whatever is listed and not there, or there and not listed, or taken and
not known, is so by one of the requests at work or broken off (`Pending`), and of a
kind that this request may cause (`Cuts`, `Clears`, `Removes`, `Untakes`).
`Progress` relates the calls that a request has left to the rows: a creation of an IO that
has inserted it has still to push it (`Creating`); an update of inputs that is about
to write them has told each of those IOs (`Taking`); an update of nodes has for each
output that the step loses either deleted it or a call left that will (`Cutting`), a
deletion of an IO likewise for the list that has it (`Pulling`); a row of another
step that is to be written back has the outputs which that step has now, and no
inputs that it has not (`Removing`). So when no call is left there is nothing that only
this request accounts for (`Settled`), and it may leave `Pending`, as may what it
mends. That a step of one request keeps the progress of the others (`ProgressStays`)
rests on `Disjoint`: a call changes what concerns the object that it is on, and no
other (`SameBut`).

`NotMergedAgain` and `PartsAgree` share one inductive invariant, for requests
of any number on any number of contribution requests. `MergedOnce` alone says
nothing of a merge that is about to be made. `MergingOf` adds who may merge:
until a contribution request is `reopened`, one client at most merges it, what it
has read is not older than the last merge, and after the merge the row is marked,
gone, or about to be marked. It needs that clients stand where their kind
of request may (`InPlace`), that requests which exclude each other have marked
their object as unsettled or reopened (`Apart`), and that ids are given out once
(`Fresh`). `PartsOf` says the same of the parts: a request that is settled has
them all, none, or some while the one client that makes or deletes it is at a
known place (`Alone`). `Tally` counts those rows that the counter has been told
of; the step that changes it is a lemma on the cardinality of a set with one
element more or less.

`MergeSafe` is about tables of any size, edits by any handlers, and errors and crashes
at any step. All it needs of the handlers is `Handled`: the original to begin with,
and what `Edits` and `OtherEdits` return for rows and tables, are rows and
tables. `MergeInv` compares the original with what it was when the merge began,
and is not inductive: an undo deletes by the lists that were read then, and writes
back from memory. `MergeIInv` therefore says what the lists can name and what memory
can hold. `Promise` is what `MergeInv` asks of a set of objects that may be
touched, `Taken`, which is larger while a merge is undone; `Listed`, that a step has no
outputs but those it had in the original or in the branch; `Clear`, that no node
of the original is below the branch's own but those `Astray`; `Remembered`, that the
deltas in memory list no pairs but those of the original or the branch. Every
step and undo is shown to change nothing but what goes with its own items (`SameBut`,
`Fits`): a step deletes within `Taken` and inserts what is listed as an insertion.
The moves are a fold, written as a recursive function; that each of its
values is `Good` is shown with the least index at which one would not be (`Least`).

`MergeAllOrNothing` says more of titles, texts and nodes than that each is one or the
other, and so needs to know how far the merge has come. `Exact` is what they are
in a run: what a step up to the last one has carried over is the branch's, all else
what it was. (`Past`: a step is among the first `k`. Passed-over steps have nothing
to do, so that they count as done.) `Settled` is what they are in an undo: whatever is not
what it was is in the list of a step that is still to be undone. Both hold in a
run, since any step may fail and be undone from where it is (`SettledNext` has any
part of its items, and deltas for all of them or for all but one: the one step that is
`lost`, whose nodes stay the branch's). The nodes of steps are the hard case: `DeleteFlowStepNodes` reads
what `CreateFlowStepNodes` has just written, so that its undo puts back neither what was
nor what the branch has, and only the undo of the step before makes it right;
`Settled` has it that this one is still to come then, for each flow step of which
that holds. An undo from the log has no deltas, and nothing is claimed of it.

For `Membership`, `WorkOK` says where each handler is and what it has read, `Noted` that
whatever clashes is noted in `owing`, `stray` or `mixed` by the time it can do harm,
and the others what each two of the four parts agree on outside these: `Removals`
(removed users and editors), `Covers` (editors and members), `Billed` (members
and seats), `Flagged` (flags and status). Each of the latter has a case for every
handler at the point where it has written one part and not the other.

Only model-checked:

- *Liveness* (`RecoveryCompletes`, `LockFreed`): fairness is beyond the prover.
- *`MergedRight` and `Undone` of `Merge`*: what is there and where, after the whole of
  a merge without error or of an undo. They need tables that are trees to begin with,
  and what the fold over the moves computes for lists of any length, which is
  induction over data. The part of them about data is `MergeAllOrNothing`.
- *`RollbackRestores`, `Placed`, `MovedListed` of `Reorder`* in a contribution, where
  they speak of the branched view of two sets of tables. `RollbackRestores` holds there
  only for a first reorder, which the run sees to by its budgets. For the original they are
  `OriginalComesBack`, `OriginalPlacesNode` and part of `OriginalStaysRight`.
- *`AsOne`* of `Flows`, which compares the calls with the handlers of `Contents`, folds
  included.

## Not modelled

PROJECT.json says of each component what is left out. In short:

- *I/O around single rows*: users, sessions, tokens, comments, tasks,
  notifications, attachments, mail, S3, search, configuration. Errors there are
  answered or logged, and nothing else depends on their state.
- *In-memory broadcast*: rooms of receivers; a lost event is seen at the next load.
- *Authorization* is a predicate of a row and a user, but for when its row is read
  (`Contributions`, `Membership`).
- *Texts*: their merging is the yrs library's business. A text is a set of edits.
- *Import* (`node/import.rs`) inserts nodes in bulk, without a log; what of it a
  failure leaves has no promise to be held against.
- *The recovery task with several rows*, of which one cannot be recovered; the
  statuses `Recovered` and `RecoveryFailed` of a branch, which are never written.
- *Edits of the branch during its merge*: nothing keeps them away
  (`contribution_request_api.rs:142-144` lock the root with the original's id), so
  that they may be carried over in part. `Merge` has the branch at rest.
- *Of flows*: titles, which a merge never carries over since it compares those
  the branch has with themselves (`merge/flows.rs:32`; the step is there and has
  nothing to do); the order of outputs.
- *Of membership*: the event of an expired checkout session, which deletes the
  root alone whatever its status; the cancelling of a subscription when its root
  is deleted; the first subscription; the expiry of invitations, which the model
  leaves open; `editor_at_nodes` of users.
- *Likes* and their counters.

## Plan

1. *Proofs*: `AsOne`, for which `Progress` is the basis;
   `RollbackRestores`, `Placed` and `MovedListed` for contributions; `MergedRight` and `Undone`
   of `Merge`.
2. *Recovery task* with several rows and one that cannot be recovered.
3. *Edits of a branch while it is merged*, as a composition of `BranchChanges`
   and `Merge`; deletion of a node in a branch call by call.
4. *Smaller components*: tokens, likes and their counters, broadcast rooms,
   storing of descriptions, checkout sessions that expire.
