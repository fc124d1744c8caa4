# Cove in TLA+

Cove keeps terminals running on a server and lets several clients watch and drive them. This
directory models the parts of it where several actors, queues, deadlines and restarts meet. TLC
checks the models on small instances, and TLAPS proves some of their properties for every
instance. `PROJECT.json` lists every component, run, finding, hazard and theorem, and the source
lines behind each definition.

## The system

A server process (`apps/server`) owns the durable state and the client connections. Worker
processes (`packages/terminal-worker`) own the pseudo terminals. Clients (`packages/client`, with
a web view, a mobile app and a command line around it) mirror what the server sends.

```
 client ──WebSocket──> server ───────────────────pipe──> worker ──> pty
 controller            subscriptions, delivery, credit   endpoint, run session,
 mirror, session       control arbiter, pipe session     recovery subscriptions
                       operations ──> store (thread, SQLite)
                       worktrees, bindings, workspaces ──> git, filesystem
                       tailnet node, device authorization
```

### Inventory

| Part | State | Operations | What is hard |
| --- | --- | --- | --- |
| Byte account | two counters, leases, shared buffers | reserve, retain, release | double release, a full account, control work locked out |
| Delivery | frame queue of a connection, credit of each subscription, result slots | admit, cancel, flush, drain, ACK, progress, recover, retire, close | a lost wake-up, counters that drift, frames of an old attempt |
| Control arbitration | the arbiter's boundary, one job queue per run, a counter per subscription | focus, blur, input, resize, programmatic input, retire, tick | decisions on a stale boundary, late replies, views that leave |
| Worker pipe | windows, waiting and parked commands, routes, run records | issue, hand over, deadline, reply, contact loss | definite refusals, order of route control, slots that are never freed |
| Operations | receipts, reservations, run numbers, run rows | launch, stop, write, read, retention, recovery at start | resends, crashes between two writes, purges racing launches |
| Recovery | replay window, baseline capture, routes | open, recover, expire | facts between capture and install, holes in the window |
| Business events | window, cursors, snapshots, the client's mirror | publish, subscribe, reset, apply | a change between a snapshot and its cursor |
| Client session | open operations, reader, reconciliation | call, reconnect, reconcile | answers after a reconnect |
| Worktrees, bindings | step ledger, seats, claims, evidence | prepare, create, remove, retry, continue, abandon | a crash or timeout around a Git command |
| Workspaces | publication entitlement, permits, manifest | materialize, publish, release | a crash between publishing and recording |
| Tailnet node | helper generation, status, ports, login | login, logout, restart, advertise | status of an earlier generation |
| Devices | invitations, listener, tokens | invite, redeem, rotate, revoke | a revocation racing an admission |
| Previews, health | jobs and deadlines, overload state | request, finish, tick | a late answer, starvation, flapping |

The remaining parts (protocol schemas, terminal engine and view, RPC dispatch, start-up,
migrations, installation, the Go helper) are listed in `PROJECT.json` with the reason why they
have no module or when they get one.

## Modules

| Module | Models | Kind |
| --- | --- | --- |
| `RuntimeRetainedBytes` | `terminal/runtime-retained-bytes.ts` | component |
| `TerminalDelivery` | `terminal/terminal-connection-delivery.ts`, `terminal-delivery-credit.ts`, their callers in `terminal-subscriptions.ts`, `packages/client/src/terminal-controller.ts` | server and client composed |
| `RunControl` | control side of `terminal-worker/src/run-session.ts`, `worker-execution.ts` | component, operators on a record |
| `ControlArbiter` | `terminal/control-arbiter.ts` over `RunControl` | composition |
| `PipeEndpoint` | `terminal-worker/src/pipe-endpoint.ts`, the answers of `worker-execution.ts` | component, operators on a record |
| `PipeSession` | `terminal/worker-pipe-session.ts`, run records of `local-runtime.ts`, `worker-pool.ts`, `run-registry.ts` | component, operators on a record |
| `WorkerPipe` | both ends over two ordered streams | composition |
| `OperationReceipts` | `operations/*.ts`, `store/sql/receipts.ts`, `store/sql/runs.ts`, the order of `store/database.ts` | requests, store and worker composed |
| `*Proofs` | theorems | proofs |
| `MC*` | scenarios and model values | instances |

JavaScript runs a handler to its next `await` without interruption. An action is such a stretch:
what happens between two awaits is one step, and every await is a point where other steps may
come in between.

Environments are bounded by *scenarios*. A scenario names what one behaviour may contain (which
commands, how many missed deadlines, crashes, full streams and so on). The initial state chooses
one, and one run covers several small environments instead of their product.

### RuntimeRetainedBytes

`total` and `ordinary` are the two counters of the class. `leases` are the objects `reserve()`
returned, `backings` the records of shared array buffers and `uses` the leases of
`retainBacking()`. The actions are `Reserve`, `Release`, `RetainBacking` and `ReleaseBacking`. A
caller may release a lease twice; the `owned` flag makes that a no-op.

### TerminalDelivery

`server` holds the connection's queue, the frames with the socket and, per subscription, route and
credit. `client` holds each subscription's controller and `uplink` the commands on their way. The
socket takes one frame at a time. The client may read a frame before the server's send callback
runs. The worker may offer any event at any time. A frame has a position in its stream and a size,
and no contents.

Left out: health events, preview transfers, request identities, and the removal of the route at
the worker.

Allowed and worth knowing: the client charges an event's metadata three times where the server
charges it once (terminal-controller.ts:2190). A slow view can therefore end its subscription with
a capacity error although the server stayed within the credit. No document says what should happen.

### RunControl and ControlArbiter

`worker` is the run at the worker, `arb` the arbiter's record of it, `routes` the subscriptions at
the server and `pipe` the commands on their way. The worker publishes a control or size change
first and changes its own authority after the parser's barrier. A status read can fall between
the two. A missed deadline ends the wait, not the command.

Left out: more than one run, the sequence counters of focus and input, appearance commands,
exhaustion of epochs, byte leases, loss of the worker, exceptions. Installing a recovered route is
one step for both sides, and so are a reply and the code that continues with it.

Two behaviours after a late reply are allowed by the properties and described there. A status
read can take the boundary back to an earlier epoch, because `boundary()` accepts an equal
position (comment at control-arbiter.ts:529, code at 582). A release can resize the terminal back,
because it repeats the size of the boundary (control-arbiter.ts:642).

### PipeEndpoint, PipeSession and WorkerPipe

`session` is the runtime's end, `worker` the worker's end, `issued` the commands in the order they
were made. Every frame costs one unit, the largest reply. A flush offers frames to a transport
that takes all, takes one and is full, or takes one and hands it over later. A deadline passes in
a step of its own. The callers keep the windows the runtime gives them.

`Outcomes` is what an execution may come to (`worker-execution.ts`). A spawn is accepted or
refused; or its result is unknown and the worker keeps the identity of the run without a session,
since a native process may exist; or the execution throws, which the endpoint answers as unknown
too. A command for a run without a session is refused, and so is an opener of a fenced
subscription. Status reads and ordinary commands may be answered unknown; route control calls
nothing that can fail. `runs` are the identities the worker keeps, `sessions` those with a session,
`threw` the runs whose spawn threw. An unknown answer retires nothing: the runtime keeps its record
of the run. `RecordsMatchRuns` therefore says that every run whose identity the worker keeps has a
record, and that a record whose spawn is over belongs to such a run or to a spawn that threw. A
definite refusal, a late one included, leaves no record.

Left out: chunking and encoding, heartbeats, health, previews, duplicate identities, malformed
frames, byte leases, more than one worker.

### OperationReceipts

The database is `receipts` and `rows`, and a crash keeps it. `reserved`, `counter`, `seeded` and
the requests are memory, and a crash loses them. `calls` is the queue of the store thread: calls
are executed and answered in order, each in one transaction. `Serve` executes a call, `Deliver`
continues the request with its answer. `effects`, `owner`, `named` and `rowDropped` are history
variables of the properties.

Left out: `tab.send`, `tab-input.abandon`, the verifiers of worktree operations, tailnet
operations, byte leases of reservations, resolution of working directories, exit records and
orderly shutdown (a crash that loses nothing). Which receipt is due for purging is a free choice,
as it depends on the wall clock. Startup verifies one receipt per step. The run that stops name is
outside the numbering. A worker's refusal drops the run row in one step. `operation.continue` and
`operation.abandon` are left out because they never touch these receipts: `WorktreeService.target`
(domain/worktrees.ts:1503) refuses every method that is not a worktree's, and nothing in the server
calls `OperationReceipts.recover`. `ReceiptsMoveForward` is about progress, startup verification
and retention, and treats `requires_attention` as final for those.

A failing store splits the calls: those already posted to its thread are answered unknown, those
still queued are refused and were not executed (`Store.fail`). `StoreFails` chooses the split.
`AbandonedRunDropped` says that a launch given up before its receipt took hold leaves no run row,
except where the call that would remove it failed, or the store failed while it wrote the row. The
next start marks such a row as ended.

Allowed and worth knowing: `launch` and `stopRun` do not look at the result of the update to
`running`, so a receipt whose update was refused stays `accepted` until a restart. `ExecutorAlive`
names this exception. An update that throws is different: it is caught, nothing is sent, a launch gives its
run row up, and the answer is `RESULT_UNKNOWN`.

## Runs

State counts are distinct states. No run needs more than three minutes with two workers.

| Run | States | Question and answer |
| --- | --- | --- |
| `bytes` | 28,340 | Do the counters equal what is held, and is control work that fits the unused reserve always admitted? Yes. |
| `delivery` | 1,483,033 | Do counters, credit and queue agree in every interleaving, is the stream read in order and without a gap, is no accepted frame dropped and no wake-up lost? Yes, with a conforming client. |
| `delivery_live` | 228,626 | Is output the server accepted applied in the end? Yes, under fairness. |
| `delivery_replay` | violation | Does a replay larger than the credit complete? No. |
| `control` | 2,727,793 | Are grants real, does input follow control, does the boundary only lag, does a failed batch write nothing more, does no counter leak? Yes. |
| `control_live` | 470,710 | Is control of an ended view released, and is every command answered? Yes, if no reply was late. |
| `control_lost` | violation | The same with a late reply. No. |
| `control_identities` | violation | Can the controller type as long as few views are open? No. |
| `pipe` | 1,547,031 | Is a definite refusal true, does route control keep its order, does the worker's admission never turn an ACK away, are routes and records reclaimed, does nothing wait for ever? Yes. |
| `pipe_unsent` | violation | Is a run whose spawn was never sent forgotten? No. |
| `receipts` | 2,300,263 | Is an operation executed at most once, are outcomes and refusals true, is nothing left busy or without an executor, does an abandoned launch drop its run row, do receipts only move forward? Yes. |
| `receipts_reuse` | violation | Is a run number never given out twice? No. |

### What the violations show

Each one is a disagreement between the code and a line of the repository's documents or comments.
`PROJECT.json` quotes the line.

* `delivery_replay`. The client acknowledges nothing while it replays. The server stops at
  256 KiB of unacknowledged frames, and the replay window holds 1 MiB.
* `control_lost`. A focus whose reply was late leaves the boundary without its subscription. When
  the connection then ends, nothing releases the control it holds at the worker.
* `control_identities`. The worker counts every subscription that ever typed and never gives a
  place back.
* `pipe_unsent`. `forgetUnstartedRun()` refuses while a command of the run is pending and is not
  tried again.
* `receipts_reuse`. The highest run number falls when a launch gives its run row up. A retention
  pass that read the number before can purge the receipt that held the one below.

### Bounds

* `bytes`: two leases, two buffers, three users, a limit of six of which three are reserved. Enough
  for a double release, a buffer shared by control and ordinary users, and a full account.
* `delivery`: one subscription with two attempts and a stream larger than its credit, or two
  subscriptions whose queue is too small for both. Two attempts are needed for frames of an old
  attempt, two subscriptions for overtaking in the shared queue. `delivery_live` has one
  subscription with the largest frames.
* `control`: two subscriptions, two sizes, three commands. Four scenarios add leaving views, sizes,
  programs with a native failure and an exit, and a recovery, each with at most one missed
  deadline. Two views are needed for a change of control, three commands for a command between two
  others. `control_live` adds a refusal and a disposal.
* `pipe`: up to six commands, a route window of two, two ordinary commands, four units of which
  one is for control. With two places in the window, commands of both routes can be parked at the
  worker together, so that their order there is checked as well. Eight scenarios fill each of these limits, and together add late hand-overs,
  deadlines, callers that leave and the loss of the worker.
* `receipts`: three requests, three operation IDs, two contents, a limit of two reservations. Eight
  scenarios add a crash, a refused call, a failed store and up to two retention passes.

Subscriptions, leases, buffers and users are symmetric in the runs that declare it; none of those
runs has a liveness property. Deadlock is checked in `bytes`. The others may stop, when every
command of a bounded scenario was sent and answered; `NoStall`, `NothingStuck` and the liveness
properties say what must hold then.

### Fairness

* `TerminalDelivery`: weak fairness of callbacks, of the client's reads and parses, of the handlers
  and of replies. The send callback of a socket always runs, with an error if the socket closed.
  The event loop runs what is ready. A worker that does not answer loses contact, and that is an
  answer too. Nothing forces the worker to produce output or the client to recover.
* `ControlArbiter`: weak fairness of the drain loop, of the store's answer, of replies, of the
  runtime's tick, of the worker's reader and its pump and of the unsubscribe that follows a
  retirement. Nothing forces a client to act, a reply to be late or the process to exit.

## Proofs

`RuntimeRetainedBytesProofs` proves `ControlReserveTheorem`, `Spec => []ControlReserveKept`, for
every set of leases, buffers and sizes, every limit and every reserve not above it. The property is
not inductive: a release subtracts what the lease says it holds. The inductive invariant
`AccountBounds` adds that this is a natural number, that an owned use names a buffer, and that each
counter stays within the bound `reserve()` tests.

`OperationReceiptsProofs` proves two theorems for any number of requests, keys and contents and any
scenario of faults. The assumptions are that the retention pass and the marker `Nobody` are not
requests, that the limit is positive and that scenarios are typed.

* `TypeCorrect`, `Spec => []TypeOK`. The highest run number is a `CHOOSE` over a set, so it is a
  number only if the set has a largest member. The inductive invariant `Typed` adds that the
  numbers in use are bounded. `HighestExists` derives the largest member from the well-founded
  order of the naturals.
* `AtMostOnceTheorem`, `Spec => []AtMostOnce`. Nothing in the property says why a second command
  is not sent. The inductive invariant `Once` says it: a key the database does not know was never
  executed and has no owner; a request that will send a command is the owner of its key, and the
  key was not executed yet; a request before that point has sent nothing. It holds because a
  receipt is inserted only under an unknown key, and because the database never forgets a key,
  across crashes and purges. The proof has one lemma per action.

Everything else is checked by TLC only. Liveness and enabledness are outside this prover's reach,
and so are facts proved by induction over data and modules with recursive operators; none of these
modules has one.

## Plan

Modules in the order they are to be written.

1. `BusinessSync`: publication order, window and snapshot barrier of the server composed with the
   client's mirror, refining an abstract specification in which the mirror is always a prefix of
   the journal. `ServerSession`: calls, reconnects and reconciliation of operations, with the
   mobile app's journal.
2. `TerminalControl`: the client's belief about its grant, composed with `ControlArbiter`.
3. `RecoverySubscriptions`: baseline capture, replay window and route expiry at the worker and in
   `terminal-subscriptions.ts`. An abstract specification of a stream without gaps, which it and
   `TerminalDelivery` implement.
4. `WorktreePreparation`: the step ledger with crashes and deadlines, continue and abandon.
   `Bindings` on top of it. `WorkspaceEntry`: entitlement, publication and permits.
5. `TsnetNode`, `DeviceAuth`, `PreviewRefresh`, `WorkerHealth`, `DialDaemon`.
6. `tab.send`: `OperationReceipts` with `ControlArbiter`, a durable acceptance before the write.

Each gets a run with a crash, a lost answer or a reconnect where the code has one, and two or three
actors. Theorems to follow: `ReceiptsMoveForward`, `OutcomeTruthful` and `RefusalTruthful` from
`Once`; `GrantsAreReal` and `BoundaryNeverInvents` of the arbiter; `CountersExact` of the delivery;
the refinement of `BusinessSync`.

### Hazards of the parts still to come

The main one of each part is in `PROJECT.json`. Further ones, by the module that is to cover them:

* `BusinessSync`
  * `event-stream.ts:125`: the window evicted the batch right after a client's cursor: an off-by-
    one in the gap test resumes the client with a change missing.
  * `event-stream.ts:81`: a transaction too large to publish is already committed; readers must be
    reset rather than continue over the omitted changes.
  * `snapshot.ts:86`: a status answer that was on its way arrives after a newer control or
    geometry fact and rolls the published run back.
  * `business-mirror.ts:213`: the mirror applies an upsert with an older revision, or a frame that
    does not follow its cursor, after a reconnect.
  * `business-mirror.ts:183`: a connection dies in the middle of a paged snapshot: half of it must
    not become the confirmed view.
* `ServerSession`
  * `server-session.ts:322`: two reconciliations of one operation answer in the opposite order, or
    after the operation was forgotten.
  * `server-session.ts:497`: a reset during recovery starts a second recovery that races the first
    reader's remaining frames.
  * `operation-store.ts:51`: the app goes to the background between the durable journal entry and
    the dispatch of an operation.
* `WorktreePreparation`
  * `worktrees.ts:1095`: the path of a worktree is occupied, or its entry replaced, between the
    check and the Git command that waited for a slot.
  * `worktrees.ts:1579`: continue and abandon of one operation are accepted at the same time and
    two actors work on one worktree.
  * `worktrees.ts:300`: a seat is released twice or never, so preparations run above their cap or
    every later one is refused.
* `Bindings`
  * `bindings.ts:378`: a run of the task starts in the checkout between the last look at live runs
    and the transaction that switches the binding.
* `WorkspaceEntry`
  * `workspaces.ts:1121`: the workspace changes while its manifest is written and the older
    revision is recorded as materialized.
  * `workspaces.ts:449`: every filesystem permit is held by work whose deadline has passed and new
    requests wait for ever.
* `TsnetNode`
  * `tsnet.ts:568`: a logout stops the helper while a login that started meanwhile is about to be
    sent to it.
  * `tsnet.ts:915`: a helper that exits, or never starts, is not restarted because its end was
    reported by an event nobody handled.
  * `tsnet.ts:664`: the failure of an earlier login is published over the outcome of a later one.
* `DeviceAuth`
  * `service.ts:511`: a reload that finds no open invitation closes the pairing listener under a
    creation that has already chosen its port.
  * `devices.ts:143`: the store commits a token promotion whose answer is lost: the copy in memory
    and the store disagree about which token is current.
* `PreviewRefresh`
  * `preview-refresh.ts:390`: a run is passed over on every turn because others become due again
    before it is reached.
* `WorkerHealth`
  * `worker-health.ts:84`: a worker hovering at a threshold flips between overloaded and normal,
    or stays overloaded after every condition cleared.
* `RecoverySubscriptions`
  * `replay-window.ts:130`: an eviction leaves a hole in the window and a replay is answered
    across it.
  * `recovery-subscription.ts:756`: a capture whose route was replaced or timed out still owns its
    bytes, which are released twice or never.
* `TerminalControl`
  * `terminal-control.ts:276`: a grant carried across a recovery is reinstated although control
    moved and came back meanwhile.
* `tab.send`
  * `tab-input.ts:121`: control is taken, or the server dies, between the durable acceptance of a
    tab.send and the write of its bytes: input is written without a record or recorded without
    being written.
* `DialDaemon`
  * `tsnet-daemon.ts:36`: two commands start the per-user daemon while the old one holds the lock
    without a socket.

## Not modelled

Parsing and rendering of terminal output, encoding of frames and requests, schema validation,
migrations and settings, the Git and Tailscale programs themselves, installation and the service
manager, screens. They are data, files or other programs; where their outcome matters, a model
chooses it freely.
