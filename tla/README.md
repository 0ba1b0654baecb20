# A TLA+ development of tomb (freqhole)

tomb is a self-hosted media system: a Rust library (`grimoire`) with a job
processor, a database and a player, served over HTTP, Tauri and iroh (peer to
peer QUIC); browser and desktop clients (`spume`, `charnel`, `rathole`); and
three reusable libraries: `reliquary` (blobs and their replication), `haruspex`
(identity, access, knocking) and `midden` (an iroh node compiled to wasm, with
a blob store in the browser's private file system, OPFS).

The modules here are translated from the code under `src/`, one action for what
the code does between two points where something else can run. TLC checks them
on small instances; TLAPS proves their invariants, action properties and
refinements for every value of the constants.

* [The system](#the-system) – the inventory of the parts
* [Modules](#modules) – which module models what, with its runs, bounds and fairness
* [What is proved](#what-is-proved)
* [What is only model-checked, and what is not modelled](#what-is-only-model-checked-and-what-is-not-modelled)
* [What the models disagree with](#what-the-models-disagree-with)
* [Plan](#plan)

## The system

`PROJECT.json` lists every component with its sources and its status. The ones
that keep state of their own, and in which order and failure matter:

| component | state it keeps | operations | what is hard | what makes it correct |
|---|---|---|---|---|
| **IrohNetworkAdapter** (`lib/reliquary/ts/src/automerge`) | active stream and read-loop flag per peer, intended and failed peers, backoff, node, endpoint state | addPeer, forgetPeer, retryFailedPeers, send, stop, restart, disconnect; accept loop, read loops, reconnect timers | both sides dial at once; late answers after stop or forget; one flag for several loops; a candidate announced 100 ms late | one stream takes the writes and the repo syncs over it; every open stream is read; nobody intended is stranded; stop stops |
| **Transfer queue** (`spume/.../transfers/transferQueue.ts`) | registry of queues and items; a shared index, pause waiters, cancel flag | enqueue, pause, resume, cancel, clear; pause and resume of one item | workers read flags before an await and act after it; answers of a pause race the send | items in order and once, within the limit, none after a cancel, one end |
| **Jobs** (`grimoire/src/jobs`, tables `jobz`, `job_sessionz`) | a row per job (status, retries, session), a row per session, a runner lock | enqueue (also from a running job), cancel, retry, settle, recover, claim, complete, fail, purge | a row and its session are written by separate statements of several workers; cancellation meets late completions; runners die and take over | a cancellation is final and complete; an ended session is idle; one worker per job; the retry budget holds; no row stays Running for ever |
| **Job claim loop** (`grimoire/src/jobs/runner.rs`) | permits, counter per class, set of busy keys, batch | peek, reserve class, reserve key, claim, run, release each | three resources taken and given back one by one, around awaits that fail; a job that waits for other jobs while it holds them | counters and keys are what is held; long jobs leave a slot; nobody starves |
| **OPFS blob store** (`lib/midden/src/opfs_store`, calls in `lib/midden/src/lib.rs`) | data, outboard and meta files of each blob; entry table; tags in memory and in `tags.json`; protected hashes, pins | observe, import a stream, import bytes, tag, collect garbage, scan at boot; download, cancel, resume, pin, release | an actor that yields at every await with tasks beside it; the worker may die anywhere; *which* files exist is the record of completeness | what is called complete is whole, what a bitfield claims is there; a read finds its blob; tagged blobs stay; downloads end |
| Blob serving and snatching (`lib/reliquary/ts/src/transfer`) | import cache with release timers; per-peer strategies | serve, release, dispose; snatch to memory or disk | two ids of one blake3 release each other's blob; concurrent misses import twice; a write chain of a failed peer goes on after the next began | a blob being served stays; bytes of one peer only |
| Blob transfer registry (`transfers/blobTransferRegistry.ts`) | the live transfers, by id | register, progress, pause, cancel, poll the node | overlapping polls overwrite an entry; progress turns paused back to active | an entry shows what its transfer last did |
| Snatch engine, ensure protocol, gate (`lib/reliquary/rust`) | in-flight set, slots, backoff per blob | scan, probe, fetch, answer, allow | a blob wanted twice; a probe that is stale when the fetch starts | one fetch per blob; a refused request serves nothing |
| Blob store in SQLite, chunked import, references (`lib/reliquary/rust`) | files and rows | put, adopt, delete, recover | file and row are two steps; a crash between | a row has its file |
| **Add-peer flow** (`lib/haruspex/ts/src/flows/add-peer`, with the push handler and the check at boot of `spume`) | a pure machine, a generation counter, pending records, saved remotes | send(event), run effect, cancel in flight; push, reload | outcomes of superseded effects, fed to the context as it is then; a window closed without its knowledge; other writers of its stores (push, boot check, pairing, deletion) | an attempt is recorded before its peer is contacted; what is shown as added is saved; the flow never hangs in testing |
| Knock (`lib/haruspex/*/knock`, `grimoire/src/federation/knock.rs`) | a request on both nodes | knock, accept, deny, re-check, sweep at boot | the two copies; re-knocks; decisions while closed | both sides agree in the end |
| Pairing and player control (`grimoire/src/cenotaph`, `spume/src/cenotaph`) | session, controller, mirrored queue | hello, pair, take over, push, mirror | two controllers; commands in flight over a takeover | one controller |
| Radio (`grimoire/src/radio`, `spume/.../radio`) | encoder, ring of chunks, listeners | start, stop, join, chunk, lag | slow listeners; a stop while one joins | a listener gets a decodable stream; the encoder stops when unheard |
| **Playback** (`spume/.../services/{audio,queue,media}`) | queue and current item, load generations, the element, traversals, retries, the mark that the queue ran out | play, next, previous, toggle; add, remove, reorder, clear; ended, error, retry | loads that answer late or never; awaits between a check and its use; edits of the queue under a traversal | what is shown plays; late loads give way; a traversal ends |
| External storage, storage migration (`grimoire/src`) | rows of what is synced or moved | copy, record, resume | unplugged or restarted between file and row | a row never claims what is not there |

The parts interact as follows. A client calls grimoire's dispatch (`offal`),
which writes rows and enqueues jobs; the job processor runs them and publishes
events. Blobs that a job or an upload makes are stored by reliquary, and other
nodes fetch them: an automerge document synced over the **IrohNetworkAdapter**
names them, the ensure protocol has the peer stage them, and the **transfer
queue** and the download calls of midden fetch them, in a browser into the
**OPFS store**. A paused transfer is a cancelled download call whose partial
stays in that store. The modelled components share no variables, so they are
modelled separately; what one sees of another (a dial that answers, a send that
settles, a stream that brings chunks) is a nondeterministic action of it.
Everything else in the repository (user interfaces, the CLI, SQL-backed domain
modules, HTTP and Tauri adapters, generated and vendored code) is listed in
`PROJECT.json` as not modelled, each with its reason.

## Modules

### IrohNetworkAdapter and PeerLink (`MCIrohNetworkAdapter`, `IrohNetworkAdapterProofs`)

Source: `lib/reliquary/ts/src/automerge/iroh-network-adapter.ts`. JavaScript
runs to the next await, so an action is the synchronous code between two
awaits. `active` is `this.streams`, `flag` is `this.readLoops`, `intended`,
`failed`, `attempt` and `timer` are the retry state, `call` holds the async
calls suspended in `getNode` or a dial, `announce` the delayed
`peer-candidate`s, and `repo` what automerge-repo (external) believes.
Streams are model values; `phase` says whether a stream is up, lost by the
transport, or closed by us.

`PeerLink` is the abstract specification: what automerge-repo and the senders
rely on. Per peer there is the stream that takes the writes and the stream the
repo syncs over; a stream that was never seen attaches, and takes the place of
an older one, of which the repo hears as a peer that leaves and comes back; the
repo is offered the stream that takes the writes *then*, once; a peer is
detached for both in one step, and alone; while the adapter is off nothing is
linked, and a stream that comes is used for nothing. The mapping is `sends <-
active`, `syncs <- repo`, `opened <-` the streams that are not free, `life <-`
what `stopped` and `disconnected` say; dials, accepts, read loops, backoff and
the delay of an announcement are stutters.

| run | shows | bounds | states |
|---|---|---|---|
| `iroh` | `TypeOK`, `RepoTracksActive`, `OpenStreamsAreRead`, `BackoffStateAgrees`, `StrandedOnlyByRejection`; `HealthyStreamIsKept`; `LinkKept` (refinement); `DeadStreamsReaped`, `BackoffSettles` | 1 peer, 2 streams, 2 calls in flight, 2 reconnect attempts, 3 public calls | 165 656 |

One peer is enough for what is checked: the state of different peers is
disjoint, and what they share (stop, restart, the node) is exercised by one.
Two streams are the least for one to supersede another; a third, and a second
node after a restart, multiply the states without a new kind of step, and the
theorems hold for any number of peers, streams and nodes.
Two attempts are the least that tell "scheduled again" from "given up".
Fairness: timers fire, promises settle one way or the other, a read loop sees
the end of a lost stream, a delayed announcement runs. That a dial succeeds, a
user acts or a message arrives is never assumed. `CHECK_DEADLOCK FALSE`: once
the bound on public calls is reached and every stream used up, nothing is left.

### TransferQueue and TransferQueuePromise (`TransferQueueProofs`)

Source: `client/spume/src/app/services/transfers/transferQueue.ts`. One queue:
each worker is a promise chain (`top`, `waiting` in `pauseWaiters`, `awake`
past the await of `waitIfPaused`, `sending`, `gone`). The await is a step of
its own also when the queue is not paused, which is what the comments overlook.
`TransferQueuePromise` is the abstract specification, written from what a
caller relies on: items start in order, each once, at most `Concurrency` at a
time, none after a cancel, and the end is reported once with nothing in flight.
The mapping is `started <- nextIndex`, `sending <-` the items that workers hold.

| run | shows | bounds | states |
|---|---|---|---|
| `queue` | `NoLostWakeup`, `PromiseKept` (refinement), `QueueEnds` (a queue that is cancelled or not left paused ends) | 3 items, 2 workers, 4 user calls | 150 232 |

Two workers make every race of claim, pause and cancel; more items than workers
make workers turn around. Fairness: a promise chain that can go on does, and a
send settles (each runs under the transport's own timeouts); no user call is
fair. `QueueEnds` is conditional on the user not leaving the queue paused.

### JobQueue and JobLedger (`MCJobQueue`, `JobQueueProofs`)

Source: `grimoire/src/jobs/{service,lifecycle,runner,dashboard}.rs`, the tables
of `migrations/007_jobs_and_events.sql`, and `cancel_bulk_enrichment` of
`grimoire/src/offal/music/jobs.rs`. An action is one SQL statement, or one
transaction, with the code up to the next one. `status`, `sessionOf` and
`retries` are columns of `jobz`, `session` of `job_sessionz`; `ancestors`
records which jobs led to a job, which the code does *not* store and only
`DescendantsAreRejected` reads. A worker has the steps of `process_job` and of
`mark_job_failed` (which reads the row and writes it in two statements, so the
count it read is part of the worker). A worker of a FetchMedia (`Fetchers`) has
one step more: when it has enqueued the files of its session it counts the rows
of that session every 1.5 seconds, without timeout and without asking whether
it is cancelled, until no other is Pending or Running (`StopWaiting`,
fetch_processor.rs:352–389), while it keeps its slot and its row. `Kill` is the
death of a process, `Shutdown` and `DrainEnds` the orderly end; a process that
takes the lock next runs `Recover` first.

`JobLedger` is the abstract specification over the same four columns, without
runners, workers and statements: a row enters a session that is not cancelled
and opens it again; it is taken, completed unless its session was cancelled,
failed with the count one up and tried again only within the budget; all
running rows are interrupted at once when a runner is gone, and only the
replayable ones go back to Pending; live rows and sessions are cancelled; a
session ends when none of its rows is live, and fails only for a row that did.
What it rules out are the writes of a worker that has been overtaken: one that
brings a cancelled row back, that counts from a stale read, or that ends a
session with a live row. The refinement mapping is the identity.

| run | shows | bounds | states |
|---|---|---|---|
| `job_rows` | `TypeOK`, `CancelledSessionsStayQuiet`, `EndedSessionsAreIdle`, `OneWorkerPerJob`, `RunningIsAttended`; `LedgerKept` (refinement) | 2 jobs (one to be replayed, one a FetchMedia), 1 session, 2 runners of 2 slots, 1 stop, 1 dashboard retry, 2 retries | 832 118 |
| `job_ends` | `WorkEnds`: pending jobs end, and so do the running jobs of a cancelled session, up to a statement that the database refuses and to the two deadlocks of FetchMedia | 2 jobs, both FetchMedia, 1 session, 1 runner of 2 slots, 2 retries, 1 refused statement | 429 027 |
| `job_lineage` | `DescendantsAreRejected`, which TLC refutes | 3 jobs (three generations), 1 session, 1 runner of 2 slots | |

Two jobs and two slots make two last workers of one session; a stop with two
runners makes a takeover while rows are Running. In `job_ends` both jobs may
wait for the rows of one session: either one for the other as a plain row
(a job outside the session, or not yet at its wait), or both for each other.

`WorkEnds` excepts what the code cannot avoid, and no more. A FetchMedia waits
while it holds its slot, so that nothing goes on when every slot of the runner
is held by one that waits (`SlotsWait`), or when two of one session wait for
each other (`RivalsIn`: the loop subtracts one row, its own). A job that stays
pending or running for ever does so, for ever, in one of these two states, or
after a statement that the database refused; the running jobs of a cancelled
session, whose pending rows are gone, only for the second or a refused one.
`SlotsWait` needs a row outside the wait that nobody can claim: with one slot,
a death of the runner and a replayable row beside the FetchMedia the property
holds as well (217 464 states) and that state is reached, and it holds with the
two slots of `job_ends` and a death (about 750 000 states, longer than a run of
the suite may take); `job_ends` itself reaches `RivalsIn`. Without its
exceptions the property is violated.

Fairness: a worker's future is polled to its end, and what a processor does
ends, but for that wait, which ends only when the rows it counts let it; a
runner that wants the lock tries again every two seconds, the loop peeks every
two seconds, and the second statement of `cancel_job` runs. Which pending row
is claimed is left open here; that is JobPool.

### JobPool and JobSlots (`MCJobPool`, `JobPoolProofs`)

Source: `run_job_processor_loop`, `claim_next_unblocked_job` and the release
order of a worker in `grimoire/src/jobs/runner.rs`, with the peek of
`service.rs`. The loop holds a permit, a batch of candidates, and for the
candidate in hand nothing, its class, or its class and key; a worker gives back
class, key and permit one by one. A FetchMedia, which is Heavy, may wait for the
rows of its session first, with all three in hand (`StartWaiting`,
`StopWaiting`). Jobs are numbers in the order of the peek
(priority, then age).

`JobSlots` is the abstract specification, with the status of the jobs as its
only variable: a job starts only if fewer than `PoolSize` run, fewer of its
class than the class's cap, and none that has its key; it ends or is pending
again. It says what the permits, the class counters and the registry of keys
are *for*; that these are given back in three steps, after the job has ended,
and reserved in three, before it starts, is what the refinement has to bridge.

| run | shows | bounds | states |
|---|---|---|---|
| `pool` | `TypeOK`, `ReservationsAreHeld` (class counters and busy keys are exactly what the workers and the candidate in hand hold, each within its cap, and long jobs leave a slot); `SlotsKept` (refinement); `PendingJobsRun` | 4 jobs (two FetchMedia and the file of one of them, Heavy and of one session; the pipeline of an album), two of them pending at the start, pool of 3, 1 retry, 1 refused peek, claim or count | 364 020 |

A pool of three has a Heavy cap of two, for three Heavy jobs. That is the least
in which a FetchMedia can wait and the job it waits for still run, and in which
two of one session wait for each other. `PendingJobsRun` excepts the two
deadlocks of the code: a job is passed over for ever only while every place it
could have is held by a FetchMedia that waits (`NoPlaceFor`), and a FetchMedia
waits for ever only for a `Rival` of its session or for such a job. Both happen
in the run; in a pool of two, with its Heavy cap of one, a single FetchMedia is
enough (44 096 states, the property holds). What the property shows is that
nothing else is waited for in vain. It says nothing of a peek full of jobs at
their cap, as a peek returns eight: that is `QuickJobsAreReachable` below.

Fairness: the loop and each worker go on, and what a processor does ends but for
the wait of a FetchMedia, which goes on when its count says so. A finite set
of jobs is what keeps a low-priority job from being overtaken for ever: that
priorities starve under an endless supply is by design of the peek's order.

### OpfsStore (`MCOpfsStore`, `OpfsStoreProofs`)

Source: `lib/midden/src/opfs_store/{actor,opfs,gc,storage,mod}.rs` and the
download, import, release and cancel calls of `lib/midden/src/lib.rs`. `files`
and `bytes` are the directory (a file's contents are the chunks written to it),
`entry` is the actor's table, `actor` the command in hand and the await it is
at, `dl`/`want` the download calls, `imp` the import calls, `protected` and
`active` the two sets of hashes that the protect callback reads. `Crash` is the
death of the worker at any await (or in the stretches `Unbroken` without one,
where only death intervenes), after which `Boot` scans the directory as
the startup scan does. Writes survive in the order they were made; a leaf that
was being recorded may leave an empty meta file, which truncate-then-write
allows. The downloader of iroh-blobs, which asks for the bitfield and sends
ranges to import, is external and modelled from the calls it makes.

| run | shows | bounds | states |
|---|---|---|---|
| `opfs_ends` | `TypeOK`, `ReadersFind`, `FaultsSpoilOne`; `SealedStays`; `DownloadsEnd` | 2 blobs (one of two chunks, one of a single group that lists the other), 2 downloads, 1 import, collector, 1 fault: a full disk or a death of the worker | 212 280 |
| `opfs_same` | `CompleteIsWhole`; `TaggedIsKept` | 1 blob, 2 downloads of it and 1 import of it, its tag, collector; no fault | 64 636 |
| `opfs_false_complete` | `CompleteIsWhole`, which TLC refutes with a crash | 1 blob, 1 download, 1 fault | |

Two chunks are the least with a proper partial; a single-group blob has an
empty outboard, which the code deletes. The two headline promises of the
module's header (never a false complete, a partial is valid) hold in every
interleaving without crashes and full disks (`opfs_same`), and fail across a
crash (below). `FaultsSpoilOne` says how far they fail: whichever await the
worker dies at, and whichever file operation of an import meets a full disk, no
more blobs are called by the table, or by the scan of the next start, what they
are not on disk than there were faults; and of every other blob but the one in
the actor's hand the next start will find exactly the chunks the table has now
(`Lasting`), so that nothing is known only in memory and no file left behind
says more. `ReadersFind` is for blobs that one call each downloads: two calls
of one blob take each other's protection away. With faults it still finds its
blob, and the blob whole unless a fault spoiled that very one. `DownloadsEnd`
is for downloads of different blobs; with two downloads of one blob one of them
may watch an entry that the collector removed. Fairness: weak for the actor's
own work; strong for a download call, because the executor runs woken tasks in
order and the actor's channel is first-in first-out, so that a command which is
again and again possible is taken. A stream brings its next item or its end.

### AddPeer (`AddPeerProofs`)

Source: `lib/haruspex/ts/src/flows/add-peer/{machine,runner,types}.ts` with the
host of the flow in `spume`: `addPeerFlowAdapter.ts`, `pendingKnockChecker.ts`,
and the stores of `db.ts` and `remoteManager.ts` that its effects call. `ctx` is
`AddPeerContext`; `Submitted`, `OnDuplicate`, `OnConnection`, `OnKnockSent`,
`OnStatus`, `OnAuth` and `OnCreated` are the cases of `transition`, each giving
the next context and the effects it emits. Every `dispatch` drains its own list
of effects and awaits each, so `todo` holds several lists at once over the one
context; an upsert is a lookup and a write, a create a check and a save, each
with other lists in between. `current` is the list that holds the current
probe generation. Others write the same stores: the push handler, when a device
or a knock is approved while the window is closed (`PushWhileClosed`), the check
of pending knocks after a reload (`Restart`, `KnockCheckAnswers`), the modal,
which pairs with a peer that turns out to be a player, with a pin or without
(`PairPlayer`), and `deleteRemote` of the settings (`DeleteRemote`).

The window and the flow are two things. `ModalClose` is the one close that
tells the flow (`handleClose`). The host closes the window for reasons of its
own too, 1.5 seconds after a completion and when the app asks (`HostCloses`),
and then the context, the lists and the check under way go on with the window
closed; the flow's own timer does not touch the window.

The duplicate check reads a row whose address stands in the context until the
probe has answered, while the row may be deleted. `CompleteIsSaved` says that
what is shown as complete has a row, or had one since the flow was opened and
lost it to a deletion alone: the history variable `deleted` says whose was.
Without that exception the code breaks it (below).

| run | shows | bounds | states |
|---|---|---|---|
| `add_peer` | `TypeOK`, `ProbedAfterRecorded`, `CompleteIsSaved`, `TestingEnds`, `CompleteIsDismissed` | a peer address and a base url, 2 lists, 5 records, 2 events that emit effects or closes by the host (opening the window and knocking are not counted), 1 failed store call, deletion or reload | 558 786 |

Two lists are the least for an answer to find another attempt on screen. Two
events that emit effects make a second attempt; the bound on records is never
reached. Fairness: each call that an effect makes settles, as the requests of
the client time out, and timers fire; the user, the peer and the push owe
nothing. `CHECK_DEADLOCK FALSE`: when the events are used up and the window is
closed, the system rests.

### Player (`MCPlayer`, `PlayerProofs`)

Source: `client/spume/src/music/services/audio/player.ts` and its
`backends/htmlAudio.ts`, `music/services/queue/*.ts`, and
`app/services/media/{loadGuard,queueDeparture}.ts`. `queue` and `current` are
the app state, whose signal changes at once; what awaits a write runs when
IndexedDB has committed it, in order (`writes`, then `tasks`, the rest of each
operation). A load (`loadAndPlay`) is at its url, at the write of the current
song, or in the element's `play()`; `overtaken` records that a load asked for
later took the element, which only `NeverGoesBack` reads. `next` are the calls
of `playNext`, each with the queue it read when it was called. A continuation of
a settled promise runs before the next event, so `Continuations` come first.

| run | shows | bounds | states |
|---|---|---|---|
| `player` | `TypeOK`, `ShownIsPlayed`, `NeverGoesBack`, `LoadsClearTheMark`, `TraversalEnds` | 2 songs, 1 album, 1 traversal, 2 attempts, 2 events of the user or the element; a device driven as a player | 244 315 |
| `player_departed` | `DepartedNeverStarts`, which TLC refutes | the same, not driven as a player | |

Two songs make every load late for another; two events with the loads, timers
and commits between them make every pair of operations overlap. The safety
properties were also checked with three events (12 716 357 states), beyond the
bound that a run of a few minutes allows. Fairness: continuations run,
IndexedDB commits and the timers of a traversal fire; that a url comes, that the
element gets its data and that the user acts is never assumed, so that
`TraversalEnds` says what the timeout of an attempt is for.
`CHECK_DEADLOCK FALSE`: a stopped player with no events left rests.

## What is proved

All proofs are checked by TLAPS from nothing, for all values of the constants
that satisfy the named assumptions (types of the parameters, at least one
worker or attempt, model values outside the sets they are told from; the
bounds are arbitrary naturals, so the theorems hold with any bound).

* `IrohNetworkAdapterProofs`: `IInv` is `StreamInv /\ RetryInv /\ RestTypes`.
  `RepoTracksActive` and `OpenStreamsAreRead` are not inductive alone: one
  needs that an announced stream was opened and that an active stream belongs
  to its peer (`ActiveBelongs`, `AnnouncedWasOpened`), the backoff part needs
  that an armed timer has a count (`TimerIsCounted`). One lemma per operation
  and part, one step per action. Theorems: `TypeCorrect`, `StoppedIsEmpty`,
  `RepoAgrees`, `EveryStreamIsRead`, `BackoffIsExclusive` (of
  `BackoffStateAgrees`), `NobodyIsStranded` (of `StrandedOnlyByRejection`,
  inductive on top of `IInv`: each operation that takes the stream, the dial or
  the timer of a peer leaves another of them, or word to the caller), the action
  property `HealthyStreamsStay`, and the refinement `LinksAreKept` of `PeerLink`:
  one lemma per operation that links, on top of `IInv`. It rests on the repo
  holding no stream but the active one (else an announcement 100 ms late would
  sync a stream that was replaced) and on nothing being active when stopped
  (else a late accept would replace what it may not).
* `TransferQueueProofs`: `IInv` adds to type, wakeup and exclusive senders that
  what is held is being sent and was claimed (`HoldsWhatItSends`), that a
  worker leaves only at the end (`LeavesAtTheEnd`), and `DoneIsTheEnd`.
  Theorems: `NobodySleepsOn` and `PoolKeepsPromise`, the refinement of
  `TransferQueuePromise` by the pool: initial states map to initial states,
  each step to a step or a stutter, with the bound on concurrency from the
  cardinality of the image of the workers.
* `JobQueueProofs`: `IInv` adds that the runner lock is exclusive
  (`LockIsExclusive`), that a worker at a step belongs to a runner that runs or
  drains (`WorkersHaveRunner`), and that a worker that deletes its row has
  completed it (`DeletersCompleted`); each conjunct has its lemma with one step
  per action. Theorems: `TypeCorrect`, `CancelledIsQuiet`, `EndedIsIdle`,
  `JobsAreExclusive`, `BudgetIsKept` (whose own strengthening relates the count
  a failing worker has read to the row), `RunningIsWatched` (inductive on top of
  `IInv`: a step makes no other row Running and takes no worker from a row that
  stays Running, except where the lock leaves no runner at work), the action
  property `CancellationHolds`, and the refinement `LedgerIsKept` of `JobLedger`.
  Its invariant (`LedgerInv`) adds to `IInv` what a worker still knows between
  two statements: the count that `mark_job_failed` has read is the row's unless
  the row was cancelled meanwhile (`WritersCount`, with `RetriesCounted`), and a
  worker about to delete its row has a job that is not kept for the record
  (`DeletersReplayable`). With it each statement of the code is one move of the
  ledger or none. `BudgetIsKept` and `CancellationHolds` say part of what
  `LedgerIsKept` says, in a formula of their own; no run lists them.
* `JobPoolProofs`: `IInv` adds to the type and to the two halves of
  `ReservationsAreHeld` that a class in hand is that of a candidate
  (`HandIsFull`), that a worker that holds anything has a job
  (`BusyWorkersHaveJobs`), and that the key in hand is nobody's
  (`KeyInHandIsFree`), without which giving it to a worker would break
  exclusion. Counters are cardinalities of the sets of holders, so each step
  adds or removes one member. Theorems: `TypeCorrect`, `ReservationsHold`, and
  the refinement `SlotsAreKept` of `JobSlots`. It adds that rows that run and
  workers that run them are in bijection (`RowsAreWorked`), from which the
  running jobs, and those of a class, are at most as many as the workers that
  hold a permit, or that class (`RunsAreAtMost`, by the injection); at a claim
  one permit and one place of the class are in hand, so there is room
  (`ClaimIsStart`).
* `OpfsStoreProofs`: `IInv` types the variables and says what the actor has
  established at each step of a command: that it opens only files of a blob the
  table does not have, that nothing is swept while a task imports a stream,
  that the tags it sweeps by are those it marked from, that a task has the
  entry it imports into. It holds whatever dies or fails. Over it stands
  `Sound`, in three parts: of every blob but as many as there were faults
  (`DInv`), every bitfield and every meta file claims only chunks that are on
  disk, unless the copy at hand is writing that very file or the sweep at hand
  is deleting that very blob, and a task that finishes has a full bitfield
  (`Recorded`), what the scan at boot would take for complete is whole
  (`Scannable`), and the scan would find what the table has (`Restartable`:
  `Lasting`, with what the actor has in hand and when, `InHand`). A fault takes
  at most the blob in the actor's hand out of that set (`FaultSpoilsOne`). And,
  faults included, a blob that is whole and has no meta file is in the table,
  unless the copy at hand has just made it whole (`Shut`). A lemma per action,
  or per kind of action, for each of them. Theorems: `TypeCorrect`;
  `FaultsAreContained` (of `FaultsSpoilOne`); `NoFalseComplete` and
  `PartialsAreValid`, both for the states before the first fault, as the code
  breaks them after one; the action properties `WholeBlobsStay` (of
  `SealedStays`, faults included) and `TaggedBlobsStay` (of `TaggedIsKept`);
  and `ReadersAreServed`, that `ReadersFind` holds, faults included, for any
  blobs and calls of which no two download the same blob (`OneCallPerBlob`): a
  call holds its hash (`Held`), a cycle of the collector spares what a call
  past its first look may read (`Spared`), and what is read is in the table and
  full (`Found`).
* `AddPeerProofs`: `IInv` is `Sound(ctx, Rows) /\ ListsAreGood /\ RestTypes`, where
  `Rows` are the addresses with a row and those of `deleted`.
  A context is sound if a step that needs an address has one and what it says
  to exist does; every case of the machine gives a sound context and a list in
  which each probe comes after the upsert of its address (`Recorded`), and a
  list stays so when its head is done or another is put in front. A deletion moves
  an address from the one part of `Rows` to the other (`RowsStay`), and `deleted`
  is emptied only with the context, so that what the check found stays sound
  until the answer. Theorems: `TypeCorrect`, `ProbesAreRecorded`, `CompleteHasARow`.
* `PlayerProofs`: the core is a predicate of the loads, the writes and the song
  that is up next (`Core`): numbers are unique, at most one load is in the
  element, loads and writes that await each other match, the loads that wait
  for a write were asked for in the order of the writes (`InOrder`), only the
  last load can pass the checks (`LastMayCommit`), and an overtaken load is past
  them (`OvertakenIsPast`). One lemma says what each of the nine ways in which
  loads and writes change does to it; the actions then need only their types.
  `ShownIsPlayed` needs one more fact (`ShownWaits`): the song shown and the
  song that plays differ only while the write of a load is due. Theorems:
  `TypeCorrect`, `LoadsKeepOrder`, `ShownSongPlays` and the action property
  `MarkIsCleared`.

## What is only model-checked, and what is not modelled

Liveness (`DeadStreamsReaped`, `BackoffSettles`, `QueueEnds`, `WorkEnds`,
`PendingJobsRun`, `DownloadsEnd`, `TestingEnds`, `CompleteIsDismissed`,
`TraversalEnds`) needs fairness and ENABLED, which the prover does not handle,
and stays with TLC. Every safety property of a passing run is proved, the four
refinements included; `CompleteIsWhole`, which the code keeps only until the
first fault, and `ReadersFind`, which it keeps only when one call downloads a
blob, are proved under that condition. The abstract specifications state no
fairness, so that a refinement says what a component never does; that it does
something in the end is said by the liveness properties. No induction over data
is needed: counters are cardinalities, and no module with a theorem reaches a
RECURSIVE operator.

Abstracted in what is modelled:

* messages of a stream, the payload of a job, the bytes of a chunk: only
  whether they are there matters;
* time: a delay is an action that may happen later; scheduled_at of a retry is
  not modelled (a failed row is pending at once), nor are backoff durations;
* of the OPFS store: batch scopes, RenameTag, waiters for idleness, DeleteBlobs
  (no caller), exports, the temporary files of an import and the scan that
  cleans them up; loss of written but unflushed bytes at a power failure (a
  flush is no step here); the cancellation of a stream and the scan at boot are
  one step each. A full disk is met by imports only, not by a stream that writes
  a leaf or its bitfield (actor.rs:1385), and the length of the outboard that
  tells whether it is deleted is taken with the deletion, not before that of the
  meta file (actor.rs:550);
* of the add-peer flow: texts, names and images; the stream of pending records
  to the view; `dispose`, which its one host never calls; the updates of a
  saved remote (`updateRemote`, `setActiveRemote`,
  `updateRemoteConnectionTime`), which put back the row they read and so can
  undo a deletion in between; that a peer is known to be a player is not kept
  across answers, so that pairing is possible whenever its step is on screen;
* of playback: the libmpv and video backends and the swap between them, offline
  items, seeking, the history and the server sessions, the modals of a full
  queue. A song is in the queue at most once.
  `trySwapCurrentSongToCached` (htmlAudio.ts:888), which gives the element
  another url of the song that is current after an await, is left out: it changes
  the url of one song, never the song. The await of the database handle
  in the app state, and the one of the radio before music, are taken as not
  giving way, as the handle is there and the radio is off when the run begins;
* of the jobs: the processors themselves, which are "runs, then succeeds, fails
  or notices a cancellation, and may enqueue children meanwhile", and in the one
  case of FetchMedia waits for the rows of its session before it succeeds. A
  processor enqueues into the session of its job, into none, or into one all of
  whose jobs are its own.

Everything that `PROJECT.json` lists as `not_modelled` is outside, with its
reason there.

## What the models disagree with

Three runs check a sentence that a comment or a document says of the code, and
TLC finds a behaviour of the code that breaks it. The sentence and the lines
are quoted under "findings" in `PROJECT.json`.

| run | the sentence fails because |
|---|---|
| `job_lineage` | the insert looks one generation up: a session-less child of a job of a cancelled session enqueues on |
| `opfs_false_complete` | the meta file of a new blob is created last: a crash leaves a data file alone, which means complete |
| `player_departed` | a load checks its generation, then waits for a write before it gives the element the url: a song removed in between starts after it was cancelled |

The others were found in the same way while the modules were written. They have
no standing run: the property is the last part of its module, and adding it to
the named configuration shows the counterexample.

| property | sentence | the code |
|---|---|---|
| `ReplacedStreamNeverClosed` (`IrohNetworkAdapter.cfg`) | "the replaced stream is NEVER closed", iroh-network-adapter.ts:568 | removing a peer's active stream drops the one flag that all its read loops test (lines 635, 691), so a healthy superseded stream is closed after its next message |
| `NewerStreamOwnsPeer` (`IrohNetworkAdapter.cfg`) | "that one owns the peer now - calling removePeer here would incorrectly kill it", :660 | a late failed write removes the peer by id (line 169), and with it a newer healthy stream |
| `ForgottenPeerHasNoTimer` (`IrohNetworkAdapter.cfg`) | forgetPeer "removes the peer from intendedPeers, cancels any pending reconnection", :288 | an attempt in flight then arms a timer when it fails (line 793) |
| `RestartReconnects` (`IrohNetworkAdapter.cfg`) | restart "reconnects all remembered peers", :423 | a dial of `restart()` that fails is logged and never retried (line 432) |
| `StoppedIsOff` (`IrohNetworkAdapter.cfg`) | stop will "stop all P2P transport gracefully", :393 | a start that ends after `stop()` turns the endpoint online (line 490) |
| `NothingStartsWhilePaused` (`TransferQueue.cfg`) | "no NEW item starts while paused", transferQueue.ts:106 | a worker past `waitIfPaused` starts an item while the queue is paused (line 234) |
| `PausedItemStaysPaused` (`TransferQueue.cfg`) | the runner "treats a paused item as stopped, not truly complete", :27 | the send that an item pause cancels overwrites the item's paused status (line 212) |
| `QuickJobsAreReachable` (`JobPool.cfg` with `ManyJobs`, `ManyClass`, `ManyKey`) | a slot "always stays reachable for quick `Other` jobs", runner.rs:57 | a peek of bounded length may hold only jobs at their cap (line 1036) |
| `WorkEnds` without `SlotsWait` and `RivalsIn` (`JobEnds.cfg`) | "parent itself is the only Running job once all children settle", fetch_processor.rs:361 | two FetchMedia of one session are two such parents: each counts the other as a child that has not settled, for ever |
| `PendingJobsRun` without `NoPlaceFor` and `Rival` (`JobPool.cfg`, or a pool of two) | a cap "floored at 1 so a single-worker pool (...) doesn't starve heavy jobs entirely instead", runner.rs:97 | a FetchMedia that waits for its Heavy files holds the place they need (fetch_processor.rs:352); as many as the cap, and none of their files is ever claimed |
| `PartialIsValid` (`OpfsSame.cfg` with `MaxFaults` 1) | "a crash leaves a valid partial", actor.rs:12 | an import truncates the data of a partial before it drops its meta file (line 649), and a sweep deletes the data before the meta file (line 577); a full disk in an import does the same as the crash |
| `PausedIsProtected` (`OpfsFalseComplete.cfg` with `Collects = TRUE`, `MaxFaults = 0`) | "keep the partial protected past the guard's drop so gc can't sweep it before the user resumes", lib.rs:2068 | the guard of a cancelled download is dropped after the closure has put the hash back, and removes it (line 960) |
| `DownloadIsProtected` (`OpfsSame.cfg`) | "protected from GC sweeps", lib.rs:839 | a set, not a count, protects two downloads of one hash (line 960) |
| `PinnedIsStored` (`OpfsEnds.cfg`) | "the blob stays in the store as long as its TempTag is held", lib.rs:2767 | a blob is pinned after the answer (line 2798); the collector may run first |
| `ListedIsKept` (`OpfsEnds.cfg` with `Tagged = {b}`) | "hashseq roots expanded", gc.rs:7 | a root that is also protected is not expanded (line 885 of actor.rs) |
| `TagsPersist` (`OpfsEnds.cfg` with `Tagged = {a, b}`) | "tags persist in `tags.json`", mod.rs:26 | `tags.json` is emptied and then written (line 599 of actor.rs) |
| `LiveProbeIsForTarget` (`AddPeer.cfg`) | "a superseded run's outcome event is discarded", runner.ts:15 | only BACK and MODAL_CLOSE supersede a run: the push of an approved knock, and an answer that comes late to the duplicate check, change the target under a run that stays current |
| `ClearedIsSaved` (`AddPeer.cfg`) | "REMOTE_CREATED enters complete, deletes the pending record", machine.test.ts:462 | it clears the record of the address that is on screen when the answer comes, which another attempt may have replaced |
| `CompleteIsSaved` without `deleted` (`AddPeer.cfg`) | "already have this (non-player) remote saved", machine.ts:278 | the row found by the duplicate check is used after the probe (line 287): deleted in between, it is shown as added |
| `OneRemotePerAddress` (`AddPeer.cfg`; for a peer with `Charnel = FALSE`) | "each server can only be added once", machine.ts:206 | `createRemote` looks for the address, then waits for the hello, then puts the row (remoteManager.ts:399); only sqlite has a unique index, and only for peers |
| `EndedIsIdle` (`Player.cfg` with `MaxEvents = 4`, `ActivePlayer = FALSE`) | "the one place every play path (...) funnels through", player.ts:601 | a resume with the play button does not go through `playSong` (line 832) and leaves the mark set: the next `addToQueue` starts over the song that plays |
| `ChoiceIsKept` (`Player.cfg`) | "a DIFFERENT song is downloading (shows spinner, current song stays)", playerState.ts:16 | the catch of a failing load clears whichever song is up next (player.ts:670), so that the one chosen since gives way when its url comes |
| `PauseIsKept` (`Player.cfg`) | "so any auto-load/up-next path doesn't override the user's explicit pause intent", player.ts:148 | every attempt of `playNext`, the retry after a delay too, is made as `userInitiated` (line 1069), which clears the pause |
| `RetryGivesWay` (`Player.cfg`) | the delayed retry is stopped because "the user changed their mind", player.ts:290 | the timer asks whether its song is still in the queue, not whether another has been chosen (line 354) |
| `TraversalPlays` (`Player.cfg`) | an attempt "is bounded so a hung load can't wedge the queue", player.ts:1014 | a load that gives way returns as one that played does (htmlAudio.ts:312), and `playNext` takes it for success |

## Plan

Written, in this order: IrohNetworkAdapter with proofs; TransferQueue,
its promise and their refinement proof; JobQueue with proofs; JobPool with
proofs; OpfsStore with proofs; AddPeer with proofs; Player with proofs; then
PeerLink, JobLedger and JobSlots, each with the proof that its component
implements it, and what a fault can spoil in the OPFS store. To come, most
important first:

1. `BlobServer` and `Snatch` (`lib/reliquary/ts/src/transfer`): the import cache
   keyed by id against a store keyed by hash, dispose against a serve in
   flight, concurrent misses; the strategies per peer with one writable.
   Abstract specification: a blob that is being read is staged.
2. `SnatchEngine` (`lib/reliquary/rust/src/snatch.rs`): in-flight set, slots and
   backoff, with liveness of a reachable blob; composed with `BlobServer` as the
   peer through an ensure request.
3. `Knock`: the two copies of a request on two nodes, composed with `AddPeer` as
   the side that asks; abstract specification of a knock that both decide alike.
4. `Pairing` (`grimoire/src/cenotaph`), the swap of playback backends in
   `Player`, `TransferRegistry`, `BlobStore` with chunked import, `Broadcaster`,
   `ExternalStorage`.
5. `AclEvaluator`: the access decision as an operator, against a reference
   definition over bounded grants.

Instances stay at two or three of each actor and one or two crashes or
refusals; theorems worth having are the safety of `SnatchEngine` (one
fetch per blob), the refinement of the knock, and abstract specifications of an
add-peer attempt and of a playback that `AddPeer` and `Player` implement.
