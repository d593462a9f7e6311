# StackV.community in TLA+

StackV orchestrates network and cloud services over RDF models: a client asks
for a service, the server compiles the request into a workflow of computation
actions, runs the workflow to obtain a *model delta*, and applies the delta to
the drivers of the resource managers it concerns in two phases, *propagate* and
*commit*; afterwards a *verification* asks whether the models of the drivers show
what was ordered. This directory models that server (the Java EJB module
`StackV-ejb` and the part of `StackV-web` that drives it) and the page of the browser
on which a service is operated, checks the models with TLC and proves their main
invariants with TLAPS.

In this file `SVC` is `service/HandleServiceCall.java`, `SYS`
`system/HandleSystemCall.java`, `WB`/`AB` `service/orchestrate/WorkerBase.java` and
`ActionBase.java`, `SC`/`CB` `service/compile/SimpleCompiler.java` and
`CompilerBase.java`, `SSD`/`SRM` `driver/StackSystemDriver.java` and
`SenseRMDriver.java`, `VGPM` `bean/persist/VersionGroupPersistenceManager.java`, `MU`
`common/ModelUtil.java` (all under
`src/StackV-ejb/src/main/java/net/maxgigapop/mrs/`); `RES` is
`rest/api/ServiceResource.java`, `VH`/`VD`/`SH` `service/VerificationHandler.java`,
`VerificationDrone.java` and `ServiceHandler.java` (under `src/StackV-web/src/main/java/net/maxgigapop/mrs/`);
`DE`, `DT`, `NX` are `detailsEngine.js`, `details.js`, `nexus.js` of
`src/StackV-web/src/main/webapp/js/`.

## Inventory

| Component | State | Operations | What is hard | What makes it correct | Module |
|---|---|---|---|---|---|
| **Workflow engine** (`WB`, `AB`) | state of each action, `batchOfActions`, `resultMap` of Futures, two time-out counters, `mergedRoot` | `runWorkflow`: execute a batch, poll, merge, look for the next batch | MCEs end in any order, throw or hang; two counters of one budget; shared delta objects | dependencies respected, nothing forgotten or lost, always ends, complete when it says so | `Workflow`, `ActionSearch`, `DagExecution`, `WorkflowDelta` |
| **Compiler** (`SC`, `CB`) | queue of policies, map from a policy to the actions of its children | `compile` | a policy is queued again until its children are there | terminates with a connected acyclic workflow | `SimpleCompiler`, `WorkflowPlan` |
| **Computation elements** (MCE) | none (a clone of the input delta) | asynchronous `process` | run beside the worker, which merges into what they read | read all of their input | a call in `Workflow` |
| **Workers** (`SimpleWorker`, `NegotiableWorker`) | the system model, the annotated model | `run` = retrieve the model, compile, `runWorkflow` | | | |
| **Service lifecycle** (`SVC`, `RES`) | status of the instance; queue of service deltas with status; a transient Future per system instance | compile, propagate, commit, revert, retry, status, verify, terminate | stateless bean over *shared cached objects* without locks; asynchronous commit; status recomputed from the queue by each operation; faults swallowed | status true of the queue; nothing committed that was not propagated; verdicts are those of a commit | `ServiceLifecycle` |
| **System call handler** (`SYS`) | driver deltas of a system delta, reference version group | `propagateDelta`: refresh the group, apply, split per driver, send; `commitDelta`: dispatch, poll for 20 minutes; plug / unplug of drivers | stale references; a delta is split by what can be reached, before and after it; partial failure over drivers; time-outs of two levels | driver deltas fit what they name, carry the delta out and undo nothing it does not ask for; success means committed | `DeltaPropagation`, `DriverCommit`, `SystemModel` |
| **Drivers** (`SSD`, `SRM`, cloud drivers) | properties with the remote identifier | propagate, commit (polls the remote), pull | remote time-outs, hangs | SUCCESS means committed; an older model never replaces a newer one | `DriverCommit`, `SystemModel` |
| **Version groups and items** | items (a driver's model at a time) per group | head items, `refreshToHead`, clean-up | updated in place while referred to elsewhere | a group has one item per driver | `SystemModel`, `DeltaPropagation` |
| **Model coordinator, puller, poster** (singletons with timers) | `systemVersionGroup`, `bootStrapped`, Futures of pulls | `autoUpdate`, `run`, `setBootStrapped` | overlap of pulls, plug and unplug between timers, restarts | ready means whole; becomes current | `SystemModel` |
| **Persistence managers** | static caches over JPA | find, save, merge, delete | caches survive a rollback | cache agrees with the database | in `SystemModel`, `ServiceLifecycle` |
| **Verification** (`VH`, `VD`) | one database row per instance, one thread per start | start, stop, reset; up to 50 runs | drones, handlers and commands meet in one row; operations fail half-way | row true of the drones, verdict true of the instance | `Verification` |
| **Service handler, engine** (web tier) | progress and last state in a database row | create, modify, cancel, delete: the REST calls above in order, polling the status every 5 s | polls until the instance leaves COMMITTING | | starts of `Verification`; fairness of `ServiceLifecycle` |
| **Page of an instance** (`DE`, `DT`, `NX`) | panel in view, refresh timer, disabled buttons, open rows, expanded visualizations | commands, reloads, log rows and levels, visualizations | callbacks and answers in any order; three parts of the page pause one timer, and answers close what they opened | one timer; whatever pauses it resumes it; buttons come back | `DetailsPage` |
| **Model / RDF utilities** (`MU`) | none | `dryrunDelta`, `splitOntModelByTopology`; parsing, queries | topologies are found by depth-first search in each model | the parts add up | in `DeltaPropagation` |
| **Other pages**, **deployment** | none of the core's | | | | |

The pieces meet in five ways. `RES` calls `SVC` through a remote interface, one
container transaction per call, any number of them at once. `SVC` runs a worker in
the caller's thread; the worker compiles, calls the MCEs asynchronously and polls their
Futures. `SVC` calls `SYS` in its own transaction, except `commitDelta`, which is
asynchronous and whose Future is kept in the cached `SystemInstance`; `SYS` treats the
drivers likewise. The timers of the puller and the coordinator replace the models that
all the others read. Drones and handlers of the web tier share database rows, and the
page sees all of it through requests whose answers come when they come.

## Modules

| Module | Models | Extends |
|---|---|---|
| `WorkflowPlan` | what the compiler hands to the engine (`PlanOK`) | |
| `Workflow` | the control of `WB.runWorkflow` and what it calls in `AB` | `WorkflowPlan` |
| `DagExecution` | what a user of the engine may expect: the abstract specification `Workflow` implements | |
| `ActionSearch` | the two recursive searches of `AB` as recursive functions, compared with the sets `Workflow` uses in their place | `Workflow` |
| `WorkflowDelta` | what merging does to the delta objects, on top of every step of `Workflow` | `Workflow` |
| `WorkflowProofs` | theorems about `Workflow`, `ActionSearch` and `WorkflowDelta`; that `Workflow` implements `DagExecution` | `WorkflowDelta`, `ActionSearch`, `TLAPS` |
| `SimpleCompiler`, `CompilerProofs` | `compile` of `SC` and what it calls in `CB`; theorems | instantiates `WorkflowPlan`; `TLAPS` |
| `ServiceLifecycle`, `ServiceProofs` | the operations of `SVC` on one instance, overlapping; theorems | `TLAPS` |
| `DeltaPropagation`, `PropagationProofs` | `SYS.propagateDelta` while models and drivers change; theorems | `TLAPS` |
| `DriverCommit`, `DriverCommitProofs` | `SYS.commitDelta` over the `commitDelta` of the two drivers that poll a remote; theorems | `TLAPS` |
| `SystemModel`, `SystemModelProofs` | puller, coordinator, poster, plug and unplug; theorems | `TLAPS` |
| `Verification`, `VerificationProofs` | handlers, drones and their row; theorems | `TLAPS` |
| `DetailsPage`, `PageProofs` | the page of one instance; theorems | `TLAPS` |
| `MC...` | instances for TLC | |

Operators whose names start with another one's (`PollForFree` next to `Poll`) or
whose comment says "Mutant of" are deliberately wrong variants. No specification
uses them; substituting one for the original must make a named property fail, which
shows that the property depends on the code it is about. `PROJECT.json` pairs them, and
maps every definition to the lines it stands for.

### Workflow, DagExecution, ActionSearch

One action of `Workflow` is one step of the worker thread between two points where
it can notice something: `Launch` is the outer loop up to polling (`WB` 114-129),
`Poll` the head of the polling loop with its sleep, `SkipPending`/`Collect`/`Interrupted`
one visit of a Future, `NextBatch`/`PollAgain` the search after a pass, `Return` the
end of the outer loop with its three outcomes. `MceEnds` is another thread.
`LaunchFails` is `execute()` failing to look up a bean, which may happen after other
actions of the same batch were started.

* The lists of the code have an order, the sets of the model have none: any member
  may be the first. This over-approximates every order (`HashMap` and `HashSet` included).
* `getIdleLeaf` and `getIndependentIdleLeaves` are replaced by the sets `IdleLeaves`
  and `IndependentActions`. That this is right is not obvious (the second search returns
  a non-null empty list for any inner action and so never adds one); `SearchAgrees`
  compares them with both recursions, written as recursive functions, wherever the worker
  looks for work and whatever the order of the lists. TLC checks it on 4 actions, the proof
  covers every finite workflow.
* `PlanOK` is what `SC` can produce, including the actions it leaves behind
  when it queues a policy again: they stay in the uppers of their dependencies.
* `elapsed` counts the polls really made; the code has no such variable and no action
  reads it.
* `DagExecution` has neither batches nor Futures, polls or time-outs: an action is
  waiting, running or ended, and the outcome is complete, failed or expired. `KeepsPromise` is
  the refinement, with `Progress` and `Outcome` as its mapping. A result returned with the
  budget at exactly zero counts as expired: the code returns it like any other (see
  "Noticed").

### WorkflowDelta

Deltas are objects: `inputDelta` and `outputDelta` are references into `heap`. A delta's
contents are its two sides, each absent or a set of actions (standing for the statements
those actions contributed). `mergeResult` makes the child's *object* the input of an upper
that has none, merges side by side if both have the side, and otherwise drops the child's
side. An MCE clones its input at some moment after it was started (`MceReads`) and ends later
(`DMceEnds`). `Removers` are actions whose MCE *may* return a reduction only, as
`MCE_OperationalModelModification` does.

### SimpleCompiler

One action takes one policy from the queue: `Compile` if its children are all compiled,
`Requeue` if not, in which case the action just created for it is left behind as in the code
(`SC` 111-125). `Enqueue` starts a graph with its leaves in any order; `EndOfRound` goes from
the reduction's graph to the addition's, both into one worker. A malformed policy makes
`CreateFails`. `ResultIsPlan` discharges the assumption `Workflow` makes of its plans: checked
on the bounded intents, proved for every intent. That the graphs of one intent have no policy
in common (`Disjoint`) is a premise of `MirrorsPolicies`, not of the module.

### ServiceLifecycle

State: the instance's `status`, its queue `delta` (per delta: status, stored driver deltas,
the cached Future, and - read by no operation - how its commits have ended) and, per
request in progress, what it read before it had to wait. An operation is one step between
two points where it calls out (a worker, a driver, another bean): what lies between are a
few assignments on cached objects. Splitting there is what makes double commits, retries
under a running commit and stale Futures possible in the model as in the code. The one
place split more finely is `checkStatus`, which writes FAILED to the shared delta *before* it
asks the Future (`SVC` 718); `LeaveReplacing` keeps the old Future for a status request
that fetched it before a second commit replaced it.

An operation that throws ends in `Throw`: `RES` catches the exception and sets the
instance FAILED, also when the call was merely refused.

`multiPropagate`, `multiCommit` and `revertAll` are left at their default. NEGOTIATING is
unreachable: `EJBExceptionNegotiable` is thrown without a message, so the branch of
`propagateDeltas` for it fails in parsing null.

### DeltaPropagation

The inside of the call that is one step in `ServiceLifecycle`. A model is a graph: a set of
statements with subject, predicate and object, as far as the splitting tells them apart (`type`,
`hasTopology`, `isAlias`, any other). A version item is a model; a group maps drivers to versions.
No statement has a fixed place: `Reach` is what `rdfDFS` visits (`MU` 394-433; the least set that
no link leaves, which is the same and needs no recursion), `Part` the topology found so, `Roots` the
topologies that are in no other (`MU` 347-371), and `DriverDeltas` the differences between the parts
of the reference and those of the target, each split for itself (`SYS` 365-419). So a delta that adds or removes
one link moves all that hangs from it, a link between topologies puts statements into two parts, a
statement without a way from a root is in none (`Odd`, `Decomposes`, `MU` 299-345), and a topology that
a delta makes is refused. What remotes give is assumed to speak of their own nodes, with aliases
of those of others (`AtHome`): that is what pulled models are, and deltas need not be so. Inference
over the models is left out, and literals are nodes that say nothing.

`Make` fixes a delta and its group, `Request` finds the group's row,
`Propagate` is steps 1 to 3 of the code, `CallDriver`/`DriverThrows` step 4, `Store` step 5
with the end of the transaction. `Update` refreshes the row, `Pull`, `Plug` and `Unplug` go on at
any time in between. `Reference` is the heart of the matter: `refreshToHead` finds the row again
and changes the one object that stands for it in the transaction, so that the "reference"
and the "head" are the same group, whatever the mode, and with them the group of a delta
that was stored (a service's). Only a client's delta, sent with the request, still has the
group as it was, and only in the mode "through". The conflict check (`SYS` 340-361) is
guarded by `!headVG.equals(referenceVG)` and never runs.

### DriverCommit

Time is counted in half minutes, the interval of the drivers' polls; `Tick` lets one pass for
all sleepers. A call to a remote may take any time or never end. `SRM` differs from `SSD` in
its limit and in not deleting the remote's instance at the end (`IsDeleted`). The system
dispatches drivers one by one (`DispatchFails` leaves those already dispatched running), then
looks at all Futures once a minute, 20 times. `called` adds up how long calls were waited for
and is read by no action.

### SystemModel

Timers fire at any time; a pull is called, enters its synchronized block and is given the
remote's model, stores an item, and commits after the block, up to `Slot` pulls at once for a driver; the map of drivers is static and changed at
once, rows are seen when a transaction commits (`PlugDone`, `PlugFails`). `AutoUpdate` and
`GetLatest` keep the coordinator's group and the model the poster serves; `Refer` is a
worker making a delta that refers to the group's row, so that it survives `cleanupAll`.
`Restart` loses everything static.

### Verification

One step per SQL statement (they commit by themselves), two per request to the server. A
handler that cancels or retries (`SH` 327-411) changes the instance when it reverts (`Revert`; a forced retry
begins without, `Retry`) and again when it commits (`Commit`), and only then, if the commit ends well,
starts a drone (`StartAfterCancel`, `StartAfterForce`); at any point it may return with 3, 4 or 5, or throw,
and leave the row as it was (`GiveUp`). `Start` is a verification that was asked for.
`Clear` is the handler's select, delete and insert, `Reset` the drone's. `epoch` counts the
changes of the instance: a verdict is earned if the instance was found as ordered in the present epoch.
`verified`, `alone`, `died` and `abandoned` (the last operation gave up, and no drone was started since) are history. PAUSE is left out: nothing sends it.

### DetailsPage

The browser runs one handler at a time; between two of them, clicks, keys, ticks, time-outs and
answers come in any order. One action is one handler. A reload is its token request, its delay of
250 ms and `Redraw`, which asks for the status at once and for the logs and the visualizations in requests
of their own: `LogsAnswer` fills the table anew, which closes its rows, and `VisualsAnswer` empties and fills the
panel of the visualizations. A new request for the logs aborts the one under way (DataTables), so there is one at most;
`FilterLogs`, the user choosing another level, makes one at any time, also while the page is
paused. `NewView` goes to another panel, and clicks what is expanded when the visualizations are left. Up to one
visualization in each tab is expanded: `expanded` counts them, and closing any resumes the timer.
`paused` and `interval` are the select box of the timer, `ticking` counts intervals alive, `refreshTimer` tells whether the
variable of that name holds one. `stuck` and `redrawn` are history: a request without an error
handler has failed; an answer has closed an expanded visualization of a paused page. `openLogDetails` is
the code's counter, `rows` what is really open.

## Runs

| Run | Question | Bounds and why they are enough | Result |
|---|---|---|---|
| `wf_control` | Does the engine respect dependencies, lose nothing, keep its budget, end, and implement `DagExecution`? | All acyclic workflows of 4 actions up to renaming, 1 possibly left over; 4 actions give chains, trees, diamonds, shared dependencies and several roots. 2 polls a round, 8 in all: several rounds, rounds broken off by new work, and time-outs all occur. | holds (345,573 states) |
| `wf_delta` | Do merges through shared objects lose or leak results? | Six shapes: chain beside a root, tree, diamond, two roots sharing a dependency with and without a left-over, an action sharing a dependency with its own dependency. Every action may return a reduction only. | holds (132,591 states) |
| `compiler` | Does the compiler end, with the policy graph as its workflow? | Every acyclic graph of 4 policies up to renaming, alone or after a graph of 2; a policy that also depends on something else; a malformed root; every order of the queue. 12 actions suffice for all of them. | holds (21,396 states) |
| `svc_sequential` | Is the status true of the queue for one client? | 3 deltas: one committed, one committing or failed, one new. One request at a time. | holds (267,309 states) |
| `svc_races` | With overlapping requests: is anything committed that was not propagated, or judged by no commit of its own? | 2 changing requests and 1 status request; 2 deltas, so that the last one can change under a request. | holds (920,320 states) |
| `svc_noticed` | Is the end of a commit noticed? | 1 changing request and 1 poller, concurrent; 2 deltas: the second may be appended while the first is being asked for. | holds (68,031 states) |
| `sys_propagate` | Do driver deltas fit the versions they name, carry the delta out, and say no more than follows from it? | 2 drivers and 6 nodes; 3 models of one remote (a chain with an alias, a node nothing links to, a topology in the topology), 2 of the other; 8 deltas: links, leaves and aliases that come and go, a link across topologies, a topology made and one ended. 2 versions of each model: a head can change once between any two steps. | holds (524,751 states) |
| `drv_commit` | What does a success of the system mean, when does it time out, does it end? | One driver of each kind; polls 2 and 4 half minutes, 4 minutes for the system: the code's 10, 20, 20 keep the same order (each driver's limit is below the system's), and the proofs hold for all limits. | holds (224,069 states) |
| `drv_timeout` | "commit polling timed out - commit unsuccessful" | as `drv_commit` | violated |
| `sys_model` | Is the served model whole, never replaced by an older one, and does it become current? | 2 drivers with a pull each, or 1 with two that overlap; 2 driver instances in all, 1 change of each remote, 1 fault. | holds (320,538 states) |
| `verify` | Is the row true of the drones and of the instance? | 2 drones or handlers, 2 runs each, 3 changes of the instance, 1 fault. Two are the case the code does not expect; three changes are a whole cancellation (revert and commit) and half of another, in any order with the drones. | holds (415,219 states) |
| `page` | One timer, paused pages resumed, buttons back? | 2 reloads under way (1 and that of a command's end), 2 log rows, 2 tabs, 1 failing request, 1 change of the status: each handler and each answer can meet each other one half done. The first substate is fixed, since no handler tells them apart. | holds (352,857 states) |

`CHECK_DEADLOCK FALSE` is set where the system may really stop: a workflow, a compilation and a
commit end; the page is left; drones end, and drivers, versions and faults are used up (bounds).

The limits of the code (3000 and 9000 polls, 50 runs, 10 and 20 half minutes) are constants.
Bounds that are not the code's are named as such where the constants are declared: `MaxDelta`,
`MaxActions`, `MaxVersion`, `MaxInst`, `Slot`, `MaxEpoch`, `MaxFaults`, `MaxReloads`, `MaxRows`,
`MaxChanges`, the `Models` and `Deltas` of propagation, and the drones and drivers being plugged or started once each.

### Properties

* Engine: `DependencyOrder`, `NothingForgotten`, `ReturnsComplete`, `BudgetBounds`, `KeepsPromise`,
  `WorkerEnds`. `ReturnsComplete` speaks of runs that return *before* the budget is spent: see
  "Noticed" for the others. `BudgetBounds` states what the budget really is: a poll is
  counted when it is made and once more when a new batch breaks the round off (`WB` 178), so
  a worker may give up after half of its nominal 900 seconds, not sooner; and it never
  sleeps for longer than the budget and one round.
* `InputComplete`, `ResultComplete`: whatever the order, an MCE is started with an input that has
  the additions of all its action depends on, and the merged result has everything. Both except
  a delta without an addition, into which nothing can be merged. `TreeInputsStable` is true when no
  action has two uppers; in a diamond it fails, because two uppers may share one child's
  delta *object* (`AB` 239).
* `ResultIsPlan`, `MirrorsPolicies`, `CompileEnds`: in any order of the queue, each policy has
  exactly one reachable action, which depends on one action for each of its children (if no graph has a
  cycle and the two graphs share no policy).
* `CommitIsBacked`: a fault that `propagateDeltas` swallowed is caught when the delta is
  committed, through all retries and overlapping requests. `VerdictIsTrue`: COMMITTED and FAILED are
  what some commit of this delta came to. "Some": while one request asks, others may retry and
  commit the delta anew. `StatusIsTrue`: for a client that waits for its answers, the status tells
  what is in the queue; it is false with two requests at once, where `checkStatus` overwrites.
  `CommitIsNoticed`: an instance whose last delta is being committed does not say COMMITTING for ever
  (with a newer delta behind it, it may: see "Noticed").
* `DeltasFit`: what a driver is told to remove is in the version it names, what it is told to add is not in that
  version's topology, and the drivers' heads, changed as they are told, have what the delta adds, nothing it
  removes, and under each root what the target has there - although the parts are found by reachability in two different
  models, statements move between them, and nothing checks for conflicts. It holds because the reference *is* the
  head. Two cases are exempt: a client's delta in the mode "through", where it is not, and a delta that ends
  a topology, about which nobody is told.
* `SaysWhatFollows` holds in those cases too: what a driver is told beyond the delta itself hangs from a link that
  the delta adds or removes. So what others have done since is undone only below a link that goes - where
  it is: see "Noticed".
* `SuccessIsEarned`: what a success of the commit is worth: each remote took the request and has
  committed, or its driver's polls were used up. `TimesOutOnlyWhenSlow`: the two levels of time-outs
  fit each other, but for the time that calls take. `CommitEnds`.
* `ReadyIsWhole`, `HeadNeverGoesBack`, `BecomesCurrent`: the model served is that of the group, which
  has every driver; overlapping pulls do not bring back an older model; and after changes and failures
  have stopped the models of now are served. Excepted is a driver left in the static map by a plug
  that failed (`Ghosts`): it keeps the system from becoming ready.
* `RunningHasDrone`, `FailureIsTried`, `DronesEnd` hold with any overlap; `VerdictIsEarned` and
  `RowSurvives` if drones never overlapped, and TLC finds the counterexample when that is dropped.
  `VerdictIsEarned` speaks of moments at which no handler is in an operation, and excepts a row after an operation that gave up half-way.
* `OneTimer`: whatever pauses and resumes, there is one interval and it can be stopped. `PausedIsBusy`: a paused page
  has a command that will end, a question, a row or a visualization that *is* open. TLC finds the counterexample
  when either exception is dropped: a counter that has lost count of the rows, visualizations closed by an answer.
  `ButtonsReturn` excepts a page that is stuck.

### Fairness

* The worker is one thread that the scheduler runs: `WF(Worker)`. MCEs get none; they may
  hang, and `WorkerEnds` holds all the same. The compiler is called and runs: `WF(Next)`.
* `SystemCommitEnds` is weakly fair in `ServiceLifecycle`. `DriverCommit` shows why: `CommitEnds` needs
  only that time passes (`Tick`) and that the system's thread and sleeping drivers are scheduled;
  remotes owe nothing.
* Status requests are weakly fair: `ServiceEngine` and `ServiceHandler` poll every five seconds
  until the status is no longer COMMITTING. Requests that change the instance are not fair.
* `SystemModel`: the coordinator's and the puller's timers fire, a plug that was begun ends, a pull
  that was called goes on. It may fail as often as `MaxFaults` allows.
* `Verification`: each drone's thread runs, and the server answers or fails (`WF(Run(d))`).
* `DetailsPage`: time-outs fire, requests are answered or fail, and the user answers a question that is
  asked. Nobody has to click, or to close what is open.

## Proofs

All proofs use the named assumptions of the modules only, which TLC evaluates on the instances:
drones, statements and the drivers of the system model and of propagation are any sets; actions, policies,
the driver deltas of a commit and the requests under way are any finite sets; the bounds are any numbers. Every invariant and every action property that a passing run checks is
the subject of a theorem; `PROJECT.json` lists them, and the lemmas they rest on are named in the modules.

**Workflow engine** (`WorkflowProofs`).

* The five safety invariants of `Workflow`. None but the first is inductive. `IInv` adds: what the
  batch holds is ready to run (`BatchReady`: all dependencies of an IDLE member are MERGED), states at
  the ends agree with the Futures (`EndStates`), and while the worker is at work an action that could
  still run is in the batch or will be found (`WorkIsSeen`). `Completeness` needs the acyclicity of the
  plan: the actions that are not finished form a set, which has a member that depends on none of the
  others, and that member would be an idle leaf. `BudgetHolds` has its own invariant `BudgetInv`, which
  relates the three counters at every control point.
* `EngineKeepsPromise`: the initial states map to initial states, and every step from a state with
  `IInv` is a step of `DagExecution` or a stutter. `Launch` begins a set of actions at once, `Collect`
  ends one, `Return` is `Complete` only by `ReturnsComplete`.
* `SearchesAgree`: in every order of the lists both searches of `AB` find what `Workflow` says they do.
  A recursion over a finite acyclic graph has a solution (`Recursion`, by a smallest set of actions without
  one), so the recursive functions obey their equations (`LeafEquation`, `LeavesEquation`). A search then
  finds nothing only if there is nothing: above each action is a root (`Uppermost`), and from it the search
  comes down to the action. What is below an idle leaf has been merged, which is `IInv`.
* `InputsAreComplete`, `ResultIsComplete`, `TreeInputsAreStable`, from `DInv`: it says whose object an
  action's input is - its own if it depends on nothing, else the output of a dependency that was
  collected (`Inputs`, `Outputs`) -, that what an MCE returned has what it was given (`Results`), and that what
  was merged has reached the object it was merged into (`Merged`, `RootsMerged`). Merging takes nothing
  away (`HeapGrows`), and this is why sharing does no harm to what is there. Stability of the inputs needs more: in a tree
  nobody else holds the object.

**Compiler** (`CompilerProofs`). `CInv` describes the queue between two policies: dependencies are created
before what depends on them (`Ordered`, hence acyclic), a recorded child action is known to all parents of
its policy and complete (`ChildActions`), a policy that something was recorded for is queued until it is
compiled (`Queued`), and an action left behind depends on nothing that is not used otherwise
(`LeftBehind`). `ResultIsAlwaysPlan` follows: every action in use has a root above it. `MirrorsPoliciesAlways`
takes `MInv`, in which the graphs already compiled are mirrored, and root actions of this one are
the only ones of their policy (`Roots`).

**Service lifecycle** (`ServiceProofs`). `ServiceTypeOK`, `CommitIsBacked` and `VerdictIsTrue` for any number of
requests and deltas: `SInv` adds that a delta with a commit still has its driver deltas (`Backed`: a
retry marks them DELETED, nothing removes them), and what a status request may hold.
`StatusesAreTrue` is about one request at a time (`OneRequest`): nobody then replaces the Future that
`checkStatus` holds, nor appends or propagates a delta before it goes on (`Undisturbed`), so that the
status it computes is that of the queue (`Told`).

**Propagation** (`PropagationProofs`). First lemmas about graphs: what the search visits can be reached, and no more
(`Visits`, `Least`), two models that agree on what is visited have the same topology (`SameReach`), and what is in
the part of one model and not of the other hangs from a link that changed (`Hanging`): `SaysWhatFollows` when a delta is
split. A union of heads falls apart into them, since what is pulled speaks of its own nodes (`HeadsAtHome`); from this a
statement of a driver is told to it or stays as it is (`ToldOrNot`), and the parts come out
as the target has them (`SplitCarriesOut`, `SplitComesOut`, `SplitFits`). `IInv` adds that what was pulled is one of the remote's
models (`Pulled`) and that a propagation names versions that are there (`Call`). Items are only appended
(`Extended`): what was true of a version when the delta was split stays true.

**Commit** (`DriverCommitProofs`). `CommitTypeOK`, `SuccessIsEarned` and `TimesOutOnlyWhenSlow` for any
drivers and limits. `Counters` says where the system's loop stands, `DriverKnows` what a driver's
place says of its remote, `Clock` that the time a driver slept and waited is the system's, `LastLook`
that a driver that had not ended at the last look was slow by then.

**System model** (`SystemModelProofs`). `SystemTypeOK`, `ReadyIsWhole` and `HeadNeverGoesBack` for any drivers and
any number of overlapping pulls. `Core` says that an instance is of one driver and a pull of the instance
it was started for (`Instances`, `Owned`), that the lock admits one pull per instance (`Locked`), and hence
that ids and versions rise together, over items that are committed and those that will be (`Ordered`, `Read`): the
item with the greatest id is the newest, in whatever order the transactions end.

**Verification** (`VerificationProofs`). `VerificationTypeOK`, `RunningHasDrone` and `FailureIsTried` with
`Counts`, which relates a drone's run counter to the requests it made. `RowSurvives` and `VerdictIsEarned` with
`Quiet`: while drones do not overlap there is at most one (`Single`), who has deleted the row finds it
gone (`Gone`), the key is found as long as there is one (`Found`), the verdict follows the state (`Open`),
and, unless an operation is at work or has given up (`Calm`), a good answer or a good verdict is about the instance as
it is or a drone is about to remove it (`Fresh`, `Earned`).

**Page** (`PageProofs`). `PageTypeOK`, `OneTimer` and `PausedIsBusy`; `Handlers` adds that the question is
asked with the buttons disabled and that nothing touches the timer before the navigation bar is there. That
nothing is expanded out of view, which `NewView` sees to, is part of the types.

Only model-checked are the seven liveness properties, `WorkerEnds`, `CommitIsNoticed`, `CommitEnds`,
`BecomesCurrent`, `DronesEnd`, `CompileEnds` and `ButtonsReturn`: each rests on fairness, so on when
actions are enabled, which is out of reach of the proof system.

## Findings

`drv_timeout` - when a driver's polls are used up with the remote still COMMITTING, the driver leaves its
loop as if it had ended, deletes the remote's instance (`SSD`) and returns SUCCESS (`SSD` 182-212, `SRM`
likewise): the system reports a successful commit of what may never be committed.

### Noticed

Met on the way; each follows from the lines named, and the property it limits excepts it by name.

* Engine: a budget spent to exactly zero (a hung action: 3 rounds of 3000) is not a time-out (`WB` 184
  asks for `< 0`), the run goes on into a null `mergedRoot`. A root, or a child, that has only a
  reduction is dropped when merged into a delta without one (`AB` 260), against the comment at `WB` 154.
  "900 seconds" (`WB` 113) is halved by the double subtraction (`WB` 178).
* Compiler: a cycle of policies above a leaf goes round the queue for ever. A policy that depends only on
  things that are not policies is silently dropped. A leaf's part of the reduction model is set as its
  `modelAddition`. A policy that has to wait is queued again by itself and by its children: it is
  busy-waiting, and leaves an action behind each time.
* Service lifecycle: a fault of the system's propagate is swallowed and leaves the delta PROPAGATED
  with nothing stored (`SVC` 370-373); it is noticed at commit, as "no change to commit". With a delta
  committing, a newer one can be neither propagated nor is the status readable (`SVC` 332, 705), against
  the comment in `SVC` 339. Of two requests for the status the second sees the FAILED that the first
  writes before it asks the Future (`SVC` 718), and fails the instance for good. `RES` 313-320 says that
  forced calls only work after FAILED, but forced commit is refused in FAILED and forced revert works in
  any status; `SVC` 768 says a retry always accompanies FAILED, but any status will do (778). After a
  retry that stored nothing new all driver deltas are marked DELETED and the commit succeeds
  without doing anything (`SYS` 499-546).
* Propagation: removing a link tells its driver to remove all that hung from it, also what others added there
  since the delta was made. A link from one driver's topology to another's node makes the first driver be told of the
  other's statements. A delta that ends a topology, or puts it into another, is passed over in silence
  (`SYS` 380 goes through the topologies of the target only). The check for conflicts (`SYS` 340-361) never runs, since `refreshToHead` refreshes the
  reference itself (`VGPM` 74), although the comments (`SYS` 337-339) say that the models are compared. In
  the mode "through" a client's delta is made for the old model and names the new version: a statement
  it adds that was there then, and has been removed since, is not added.
* Drivers: `SSD.propagateDelta` waits for "SUCCESS" (about line 131) where `DeltaResource.propagate` returns
  "PROPAGATED". `VersionItem.equals` compares Longs with `==`. An MCE that modifies operational models
  waits for a "COMMITTED" that does not come.
* System model: a plug that fails leaves its driver in the static map. When `setBootStrapped` cannot look
  up the poster, only half of the state is reset. A version item is saved by a transaction that commits after the
  synchronized block that was to protect it, so one version may be stored twice.
* Verification: `operate` sets the superstate CANCEL even if the operation is then refused; an operation that
  returns 3, 4 or 5 (`SH` 343-360) has changed the instance and leaves a row that may call it verified; `pauseVerification`
  has no caller; a command may be lost between a drone's read and its clearing of it (`VD` 97-125).
* Page: `openLogDetails` is not reset when the table of logs is filled anew, by a reload (`NX` 1193) or by the choice of
  another level (`NX` 1213); from then on closing the last row does not resume, and the page may stay paused
  with nothing open. A command that ends resumes the timer under an open row, and closing one visualization under
  another that is still expanded, or under an open row; a click before the navigation bar is there, or
  a failed request for the status or the deletion, leaves the buttons disabled or the page paused; the
  buttons come back after 500 ms while the operation goes on; the guard against a status that has
  changed compares the substate only; the verify button is offered while a drone has yet to write its first
  result.

## Not modelled

* `terminateInstance`, `refreshVersionGroup`, the multi-delta properties and restarts of the service
  lifecycle: nothing in the code recovers from a restart, and the deletion of an instance is a matter
  of JPA's cascades.
* Creating and terminating system instances, queries of models (`SYS`): single reads and writes.
* RDF data, path finding and resource placement (the MCEs), parsing: data a model checker does not
  reach. `mergeOntModel`'s removal of `dependOn` annotations is left out, and
  `sanitizeOutputDelta` appears as a step that may throw.
* Cloud drivers: calls of external services.
* The workers: three calls in a row, each in a module of its own.
* The other pages, scripts and deployment. By lines, most of the JavaScript in the repository is
  third-party (d3, d3plus, jQuery, DataTables, bootstrap, keycloak); what is mapped of the program is the
  Java core and the one page that has a concurrency of its own. The share of all JavaScript
  lines that a definition stands for is small for that reason and cannot become large.

## Plan

1. Done: `Workflow`, `ActionSearch`, `WorkflowDelta`, `DagExecution`, `WorkflowProofs`.
2. Done: `ServiceLifecycle`, `ServiceProofs`.
3. Done: `DeltaPropagation`, `PropagationProofs`, `DriverCommit`, `DriverCommitProofs`, `SystemModel`,
   `SystemModelProofs`.
4. Done: `Verification`, `VerificationProofs`; `SimpleCompiler`, `CompilerProofs`; `DetailsPage`, `PageProofs`.
5. Left: an abstract specification of the service (what a client may expect of status and
   queue) with `ServiceLifecycle` shown to implement it; what liveness rests on and safety can state,
   such as a variant that every round of the engine or of the compiler's queue lowers.
