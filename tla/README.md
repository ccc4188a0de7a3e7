# Pelorus: verification

TLA+ models of the parts of Pelorus whose correctness depends on the order of
events, the TLC runs that check small instances of them, and TLAPS proofs for
every instance. `PROJECT.json` lists the runs, the source lines behind every
definition, the hazards, the findings and the theorems.

## The system

Pelorus is a browser of several processes. A **broker** is the only one with
authority; it starts **content processes** in a sandbox and talks to each over
a channel. A content process hosts frames and runs script. A **GPU process**
draws, and the broker draws in software when it cannot. The **shell** is the
browser behind the window: tabs, histories, the chrome, and the pages, which it
fetches under the web's security policies. A profile is kept in a **store**,
survives renames of the product, and the product updates itself.

| part | crate | what it does | modelled by |
|---|---|---|---|
| frame tree | `px-broker` `lib.rs` | generational arena of frames that spans processes | `FrameTree` |
| process key and pool | `px-broker` `site.rs`, `lib.rs` | which site and group a process serves, up to a cap | `ProcessKey`, `ProcessPool` |
| capability broker | `px-broker` `lib.rs` | channels, what each hosts and may see, commits that move frames between processes | `Broker`, `FrameAuthority` |
| script session | `px-broker` `script.rs`, `px-content` | the broker's side of a process that runs script, its threads, restarts; and the process | `ScriptSession` |
| event loop | `px-script` | tasks, microtasks, timers, limits, termination | `EventLoop` |
| watchdog | `px-content` `watchdog.rs`, `px-script` `watch.rs` | a thread that aborts the process when script stops making progress | `Watchdog` |
| document tree | `px-dom` | arena of nodes, moves, live ranges | `Dom` |
| chrome | `px-ui` | tab strip, toolbar, address bar, routing of input | `Chrome` |
| shell | `px-shell` `shell.rs` | tabs, histories, loads, scrolling, links | `Shell` |
| GPU session and process | `px-gpu`, `px-ipc` `gpu_fonts.rs` | fonts and display lists to a process, strips back, replacement, software | `Gpu`, `Renderer` |
| fetch path | `px-net` `secure.rs`, `browse.rs`, `redirect.rs`, `cookies.rs` | one request through its redirects; what a page loads | `Fetch` |
| policies | `px-websec`, `px-net` | HSTS, mixed content, CSP, CORS, referrer, CORP, framing | `WebPolicy` |
| store | `px-store` | partitioned key-value store on an append-only log | `Store`, `DurableMap` |
| profile migration | `px-store` `migrate.rs` | carries a profile to the product's new name | `Migration` |
| update client | `px-update` | signed manifest, key rotations, mirrors, downloads | `Update` |

How they meet. The broker answers the requests of its channels: `Broker`
composes `FrameTree` and `ProcessPool`. A script session opens a channel in the
broker and closes it when its process dies (`ScriptSession` ends in what is
`CloseChannel` in `Broker`). The session's process runs the event loop, and the
loop's heartbeat is all the watchdog reads. `Shell` extends `Chrome` and hands
it every event first. `Fetch` extends `WebPolicy` and asks it for every verdict.
The other parts share no state yet in this code: the shell shows its pages
without the broker.

## Modules

`Option` declares `None`, Rust's `Option::None`, once for all.

**`ProcessKey`, `ProcessPool`, `FrameTree`, `Broker`.** The state is that of the
structs: `slots`, `next_group` (FrameTree), the pool's two maps, and per channel
the frames it hosts and sees, with the audit log. Each public operation that
changes state is one action, and its refusals, which are written to the audit
log, are actions of their own. An index the `Vec` of slots has not grown to is a
free slot of generation -1. `plans` is the caller's state: the answers
`NeedsProcess` it was given and has not yet followed with `attach_process`; any
operation may come in between. A walk up the parent links is the recursive
function `AncestorAt`. `FrameAuthority` is the abstract specification: which
channel may act on which frame, with no slots, generations, links or pool.
`Broker` implements it.

**`EventLoop`.** `timers`, `heap`, `tasks`, the number of queued `microtasks`,
and `pc`, the place of the host inside `eval` or `step`. Script is the set of
things it can do between two steps of the host: arm, clear, queue, return, hit a
limit. One action is one host function or one turn of a loop of the host.

**`Watchdog`.** Two threads, one action per atomic load or store, explicit time.
`MaxPause` is how long the scheduler may hold up the watchdog thread in a look.

**`ScriptSession`.** The broker's thread, one reader and one writer thread per
process, the two pipes, the two bounded queues, and the process. `honest` is
chosen at the start: a process that follows `px-content`, or one that sends
anything at any time.

**`Dom`.** The arena is one record of slots, free list and ranges; an operation
of `arena.rs` is an operator from arena to arena, and the actions apply them to
every handle ever given out, stale ones too. Character data is its length. Two
calls the arena accepts break the tree: a node put before itself, and a
template's contents given a parent. The constants `SelfInsert` and
`MoveContents` say whether callers make them; the passing run assumes that they
do not, and two runs show what happens when they do.

**`Chrome`, `Shell`.** An event gives an outcome: the new chrome, a request for
the browser, and whether the chrome kept the event. The shell is a record with
the fields of the struct; an event is one step, because a load blocks the only
thread. What the user may do (`input`) is chosen at the start of a behaviour.

**`Gpu`, `Renderer`.** `GpuSession`, its reader and writer threads, queues and
pipes, and the process with its font assembler and strips. The process may die
at any step and at a draw may misbehave in each of the ways `faults.rs` lists.
`Renderer` is the abstract specification: every list asked for is shown, with
its own pixels, and software is for good. `Gpu` implements it. A frame is the
list its strips were drawn from, and of no list when they were drawn from
several. A frame of the process lacks its images, in both modules: the wire
carries none (see the last section).

**`WebPolicy`, `Fetch`.** `WebPolicy` holds the verdicts as pure operators.
`Fetch` is `SecureFetcher::fetch`: everything between two answers of the network
is one step, the network may answer with any of `Replies` or fail, and time may
pass. `Loader` is a caller, and so is any other with one of `Contexts`.
`travel` and `grants` are histories that the properties compare the state with.

**`Store`, `DurableMap`.** A log is a sequence of records; a record cut short
is `Torn`, which is what the checksum can tell. Sizes stand for bytes. Every
system call may fail or be the last before a crash. `outcome` is what the last
put, delete or clear returned. `DurableMap` is the abstract specification: a map
in which an operation that returned has happened, one that returned an error has
not, and only one that a stop or a poisoned store cut short may or may not have.
`Store` implements it.

**`Migration`.** `Migrator::run` step by step; each step may fail or be the
last. Beside it an older version writes under its own name, and the browser
uses its profile after the run.

**`Update`.** One check or download at a time: the stage `doing`, the call's own
trust, failure counts and rotation count (`check`), and what is stored (`state`,
`trust`). The publisher, the mirrors and the clock are the environment. A mirror
may serve any document ever signed, with its own or another's signature, stale
or unparsable, or nothing. Of the clock the model keeps what the code asks of
it: whether a check is due and whether the retry floor holds.

The `MC*` modules give the constants their values. `MCBrowser` (broker, shell,
document tree), `MCProcesses` (event loop, watchdog), `MCClients` (script
session, update client) and `MCData` (store, migration, fetch path, GPU session)
put components side by side that share no state: `part` says which one a behaviour
exercises. Their specifications repeat the fairness of the components. Of the
broker `MCBrowser` has two parts: one with nested frames in one group and two
channels, one with two slots, two groups and three channels.

Names in `CAPITALS` are the source's constants with smaller values. Constants
named `Max...` are bounds of the model that the code does not have, or has at
the width of an integer: `MaxIndex`, `MaxGeneration` (u32; reaching it retires
the slot, as in the code), `MaxChannel`, `MaxGroup` (u64), `MaxPlans`, `MaxNow`,
`MaxId`, `MaxSeq`, `MaxClock`, `MaxBeats`, `MaxGen`, `MaxCalls`, `PipeDepth`,
`MaxEntries`, `MaxNodes`, `MaxText`, `MaxHandles`, `MaxFrames`, `MaxFetches`,
`MaxVersion`, `MaxWrites`, `MaxSequence`.

## Runs

| run | instance | what it shows |
|---|---|---|
| `browser` | broker, nested: 3 slots, depth 2, 2 children, 2 channels, a site and an IP literal; swaps: 2 slots, 2 groups, 3 channels, pool of 2, late spawns. Shell: 2 or 3 tabs in a strip of 2, 3 history entries, 6 sets of inputs. Document: 4 nodes, depth 2, 2 generations, live ranges | parent links stay a forest (`Forest`); a dead handle stays dead (`DeadHandlesStayDead`, `StaleHandlesStayStale`); capability sets follow the tree (`CapsMatchTree`, `VisibilityIsCurrent`); a death reaches its own frames and what they embed, nothing else (`FramesOutliveOtherChannels`); pool's maps are inverse and lead to open channels (`PoolIsSound`); a commit joins the process that serves its key (`CommitsShareProcesses`); `Broker` implements `FrameAuthority` (`AuthoritySpec`); the chrome shows the shell's truth (`ChromeShowsTheShell`); histories lose only what a navigation cuts off (`HistoryIsKept`); the six links of a node agree (`TreeIsATree`); ranges stay sound and keep their content (`RangesAreSound`, `RangesKeepTheirContent`) |
| `processes` | loop: 3 timers, 3 identifiers, queues of 2 and 1. Watchdog: limits of 3 and 16 ticks. | no timer stranded (`EveryTimerReachable`), firing order (`InFiringOrder`); checkpoints end (`CheckpointsEnd`); no timer is dropped and due timers run (`DueTimersRun`); stalled script is aborted in time and only that (`StallIsCaught`, `StallIsReal`) |
| `clients` | session: 2 processes, 2 calls, 1 restart, pipe of 1. Update: 2 mirrors, one faulty for ever, 2 chains of 3 key sets, 2 releases | an answer belongs to its question (`AnswersMatch`); an honest process is not blamed (`HonestIsNotBlamed`); nothing outlives its session (`NothingOutlivesItsSession`); calls return (`CallsReturn`); worker threads exit (`WorkersAreReleased`); keys are a published set and every dropped key is revoked (`TrustIsPublished`); no older release is accepted (`NeverBackwards`); the client catches up (`CatchesUp`) |
| `data` | store: 3 partitions of 2 sites, 2 keys, tight quotas. Migration: 3 names, 2 files, 2 writes. Fetch: 2 fetches, 2 hops, 2 sites, 7 contexts, a clock of 1. GPU: 2 fonts, one bad, 3 lists, 2 restarts, 4 frames, 7 faults | `Store` implements `DurableMap` (`StoreIsDurable`); quota counters are exact (`AccountingIsExact`); what was cleared is in no file (`ForgottenIsGone`); migration loses nothing, the new profile appears whole and does appear (`NothingLost`, `NewProfileIsWhole`, `FirstRenameIsCarriedOver`); what goes out belongs there (`NothingGoesAstray`), what is read was admitted (`ReadableIsAdmitted`), an unsafe request was granted (`UnsafeIsGranted`), every fetch ends (`FetchesEnd`); GPU session and process agree on fonts (`FontsStayInStep`); `Gpu` implements `Renderer` (`RendersAsPromised`) |

Eight runs show that a line of the repository's documentation or comments is not
what the code does:

| run | the code | the line |
|---|---|---|
| `placement` | a commit in the top-level frame changes the keys of the frames below, which stay in their old processes | ADR 045, line 65 |
| `stale_plan` | a frame that committed another document while a process was being spawned for it is moved to that process all the same | ADR 045, line 65 |
| `tab_drag` | the browser's answer to a drag's first move ends the drag | `px-ui/src/tabs.rs:274` |
| `dom_ring` | `insert_before(x, x)` makes a node its own sibling | `px-dom/src/iter.rs:28` |
| `dom_contents` | a template's contents given a parent are freed with the template, under that parent | `px-dom/src/arena.rs:1129` |
| `store_log_cap` | puts within all quotas make a log that the next open refuses | `px-store/src/lib.rs:37` |
| `second_rename` | a profile made by one migration is refused by the next | `px-store/src/migrate.rs:3` |
| `style_sheets` | a style sheet from another origin is always refused: its status is looked for after the filter has set it to 0 | `px-net/src/secure.rs:392` |

`store_log_cap` uses the real constants divided by 48, so that the proportions
of record, quota and log are those of the code. `dom_ring` and `dom_contents`
differ from the document part of `browser` in that callers may ask for a node
before itself (`SelfInsert`) or give a template's contents a parent
(`MoveContents`). In `stale_plan` a top-level frame commits at one site, at
another (a process is needed), and at the first again before the process is
there; `attach_process` then moves it away from the process that serves its key.
What does hold of placement is `CommitsShareProcesses`: no commit leaves its own
frame outside a process that serves the key.

**Why the bounds are enough for the cases of interest.** In `browser`, slots
are reused and retired at the last generation, nesting and siblings reach their
limits and are refused; strips are full, histories are cut and gone back over,
loads fail and are redirected; nodes are moved under others' descendants,
ranges start and end at the very place of an insertion or removal; the pool
fills, a key is claimed by another process between the plan and its attachment,
and a frame's process dies meanwhile. In `processes` every queue and table is
full in some state, and more timers come due than the task queue holds; the
heap holds stale armings and is rebuilt (`MaxSeq` is never reached, so no
behaviour ends at it); the watchdog has time for a full stall under the shorter
limit and for a shortened limit during a sleep. In
`clients` each queue is full, a late answer meets the next question, a
replacement fails in its opening, and the update client is two epochs behind
with a limit of one rotation per mirror. In
`data` a second crash hits the repair of the first, and a log is compacted and
cleared with failures in between; a fetch leaves its origin and comes back, a
grant runs out and one is evicted; a font is refused while the next is being
sent, and the GPU process is replaced until the session gives up. Every
property has a mutant of the code's definitions, named in `PROJECT.json`, that
breaks it under the same configuration.

**Views.** The audit log is written and never read, so the broker's view leaves
it out. No run uses symmetry.

**Deadlock** is not checked where a bound ends the behaviour (channels,
identifiers, frames or calls used up) or where the system may stop: a stopped
loop, an aborted process, a session that has ended. `store_log_cap` checks it.

## Fairness

* `EventLoop`: weak fairness of the host's steps (one thread that never
  blocks inside a turn), of script returning (the watchdog ends the process
  otherwise) and of the clock. That a due timer runs is claimed only "once
  requests cease": the server takes requests before turns. That none is dropped
  (`NothingDropped`, the other half of `DueTimersRun`) needs no fairness.
* `ScriptSession`: weak fairness of the broker's thread (its receives have
  deadlines and its sends do not wait) and of each worker thread while it can
  move. Nothing is assumed of the process.
* `Gpu`: weak fairness of the session's steps, for the same reason. Nothing is
  assumed of the process or of the threads that serve its pipes.
* `Fetch`: weak fairness of the steps of a fetch: every wait for the network has
  a deadline, which is an answer too. Nothing obliges a caller to begin one.
* `Migration`: every start runs the migration to its end. Carrying over is
  claimed once failures have ceased.
* `Update`: the caller keeps making scheduled checks and downloads and time
  passes. Catching up is claimed once the publisher and one mirror have settled;
  the other mirror may misbehave for ever. Two things it rests on: the rotations
  a client missed have not expired (ADR 041 says that one offline for longer is
  stranded), and a rotation that was verified is kept when its check is rejected
  (`client.rs`, `Outcome`).

## Proofs

TLAPS proves these for every value of the constants that satisfies the named
`ASSUME`s of the modules: bounds are natural numbers, `None` is not a value of
the types it is added to, no publisher brings a dropped key back, and a record of
the store's log takes at least a byte.

| module | theorems | about |
|---|---|---|
| `BrokerProofs` | `TreeTypeCorrect`, `ForestCorrect`, `OwnedIffLiveCorrect`, `DeadHandlesStayDeadCorrect`, `PlaceIsStableCorrect` | the frame tree |
| | `TypeCorrect`, `CapsMatchTreeCorrect`, `VisibilityIsCurrentCorrect`, `PoolIsSoundCorrect`, `BrokerForestCorrect`, `ServedKeyIsStableCorrect` | the broker |
| | `AuthorityCorrect` | `Broker` implements `FrameAuthority` |
| | `FramesOutliveCorrect`, `CommitsShareProcessesCorrect` | crash isolation and the placement of a commit, over trees of every shape |
| `EventLoopProofs` | `EveryTimerReachableCorrect`, `InFiringOrderCorrect`, `TerminatedIsEmptyCorrect`, `BackPressureCorrect`, `IdleMeansNoTimerCorrect`, `TerminationIsFinalCorrect`, `HandlesNotReusedCorrect`, `NothingDroppedCorrect` | the event loop |
| `ContentProofs` | `StallIsRealCorrect`, `StallIsCaughtCorrect` | the watchdog |
| | `SessionTypes`, `ProcessesGoWithTheirSession` | the session, whatever the process does |
| `SessionProofs` | `AnswersAreMatched`, `HonestProcessIsNotBlamed` | the session with honest processes |
| `NetworkProofs` | `SentWhereItBelongs`, `ReadOnlyWhatIsAdmitted` | the fetch path |
| | `TrustIsPublishedCorrect`, `NeverBackwardsCorrect` | the update client |
| `MigrationProofs` | `NoFileIsLost`, `MigrationTypes`, `ProfileAppearsWhole` | the migration |
| `StoreProofs` | `StoreTypeCorrect`, `AccountingIsExactCorrect`, `ForgottenIsGoneCorrect` | the store |
| | `StoreIsDurableCorrect` | `Store` implements `DurableMap` |

**The tree.** The inductive invariant `TreeInv` is the type invariant, `Forest`,
and that a slot has an owner exactly while it is live. `Forest` alone does not
survive a crash: the crash frees a set of frames and all below them, so the proof
needs that the freed set is closed under children. That a dead handle stays dead
needs that generations only grow and that a slot at the last one is retired.

**The broker.** Each operation is summarised by which handles change owner and
which stop resolving (`HandlesKept`, `Mints`, `Transfers`, `Loses`; `StepKinds`
says that every step is of one kind). `BrokerInv` adds to `TreeInv` that
capability sets agree with owners, that visible handles resolve, that the pool
is sound and that every open channel was issued; without the last, a new channel
could meet what an open one already holds. The invariants, the stability of a
served key and the refinement of `FrameAuthority` follow from it.

**Ancestors.** Two action properties speak of a frame's ancestors, a recursive
function of the state. That the recursion defines what it says
(`RecursionWorks`, `WalkExists`), that the links determine the walk
(`WalkIsUnique`) and that ancestors of a frame that resolves do
(`AncestorsResolve`) are proved by a least counterexample, from the
well-foundedness of the numbers. `BelowOwned` shows that a frame in the set a
crash takes, the least set closed under children, has an ancestor of the dead
channel within the code's bound on its walk; crash isolation follows. That a
commit joins the process that serves its key needs that recording a document
leaves the root of its frame where it is (`CommittedKey`), and that an entry of
the pool leads to an open channel, or the transfer would not happen.

**The event loop.** `LoopInv` says where a timer's state puts it (pending: in
the heap; queued: once in the task queue; running: the task the host is in),
that counters are ahead of the tables (`Fresh`), that what is queued is due and
in order, and what an idle answer implies. `EveryTimerReachable` needs all of
it: clearing and re-arming leave stale keys in the heap, and only `Fresh` tells
a stale one from a live one. Finiteness of the table is used for the heap's
minimum.

**The watchdog.** `StallIsReal` needs `TrackerIsTrue`: if the count the tracker
remembers is still current, the last boundary is at most one pause after the time
it started to count. `StallIsCaught` is proved with a bound made of the limit, two
ticks and four pauses.

**The session.** `Base` holds whatever the process does: at most two sessions
stand, the current one and the one being opened, and one that is over has empty
queues and pipes. `HonestInv` follows an exchange of honest partners through
four queues: a request or its response is in exactly one of them, the counters of
both sides differ by what is on its way, and a script that is run is one message,
down or up. With no correlation ids in the protocol, this is what makes an answer
belong to its question.

**The update client.** A rotation is accepted only from the next epoch and with
enough signatures of the current one, and the model's signatures are those of
published documents, so the accepted set is the chain's next one. The trust of a
check in progress has to be in the invariant with the stored one, because a
rejected check stores it too. `accepted` equals the stored maximum between any
two steps.

**The fetch path.** The invariant relates a request to its travel: between two
requests, whether the origin is hidden and whether a header is still carried is
a function of where the request has been and where it goes next; a request that
is out has been upgraded as far as it will be. That an unadmitted answer is
never read needs that only a no-cors request goes on after one, and that it
never gets back to where its answers are its initiator's own.

**The migration.** `MigInv` says for every point a run may stop at what the new
profile, the staging directory and the marker hold, and that a profile with a
marker still holds what it took over and nobody has written since; the removal
of the old files is safe because of that.

**The store.** `StoreLemmas` proves what the store's operators compute and
`StoreProofs` what its steps preserve. A sum over a finite set, the size of a log
and recovery are each a recursive function of their input. `RunExists` shows that such a recursion
defines what it says and `NoDescent`, `NoSmallerSubset` and `NoShorter` are the
inductions, as least counterexamples; from them come what a sum does when one
summand changes or some are left out (`SumChange`, `SumWithout`) and what
recovery does with one more record (`RecoverAppend`). `Sound` says that an
engine's counters are exact and within the quotas, which `put`, `delete`,
`remove` and recovery preserve. `Holds(s, e)` says that recovery reads all of log
`s` and finds `e`. An accepted record keeps it (`HoldsAppend`), and a snapshot has
it (`SnapshotHolds`): no quota refuses an entry while the sorted entries are read
back, because what has been read so far is always a part of the whole.

`StoreInv` says what the files hold at each step of a call: the log holds the
engine; or it is the snapshot that replaced it; or, after a failed append, its
first `log_len` bytes hold the engine, and after them comes at most the record
under way, whole or torn. It also says that the record under way would be
accepted, that a closed store has a log that is whole but for a torn last record
(`Readable`), and that neither file, nor memory, nor the call under way has
anything of a forgotten partition. For the refinement, `StopsLeaves` shows that
after a stop at any of these points the last whole write of every key is the map
before the call under way or after it, and `ReadableRecovers` that opening finds
just that.

Only model-checked:

* liveness (`CheckpointsEnd`, the second half of `DueTimersRun`, `CallsReturn`,
  `WorkersAreReleased`, `FirstRenameIsCarriedOver`, `CatchesUp`, `FetchesEnd`,
  and the promise in `RendersAsPromised` that a frame is shown), which needs
  fairness and is outside the prover's logic;
* `Dom`, `Shell` and `Chrome`: their operators are built on the community
  modules' sequence operators, several of them defined by recursion over data,
  about which the installed libraries have no theorems;
* `UnsafeIsGranted`, for the eviction of grants; `FontsStayInStep`.

## What the models leave out

* Contents: bytes, text, signatures, digests, origins' spelling. A document is
  signed or not, a record whole or torn, an origin a member of a set.
* In `Broker`: the supervisor of the process (`ContentProcess`) and `serve_once`,
  except for what a caught panic does to the channel.
* In `ScriptSession`: the vocabulary for tests behind the feature `testing`.
* In `EventLoop`: the console and the arithmetic of the coarse clock.
* In `Dom`: attributes and their snapshots; the parser's pacing.
* In `Chrome` and `Shell`: what only painting reads (hover, cursor, caret,
  selection, scroll of the strip), Stop, the overflow menu, chords of buttons.
* In `Gpu`: coordinates, clips and pixels: a frame is the list it was drawn from.
* In `Fetch`: ports, credentials in URLs, queries, fragments and IP addresses; the
  order of a grant's headers; which CSP directive governs (one list of sources
  stands for it); bodies are plain, a picture, huge or empty. `Jar::forget`,
  `expire` and `forget_preflights_for` have no caller in the path.
* In `Store`: a directory sync that fails. A rename that returned is taken for
  durable; `sync_dir` is best effort, so after a power loss an old log could
  come back.
* In `Migration`: directories inside a profile, permissions, the marker's text.

Not modelled at all (`PROJECT.json` gives the reason for each): style, layout,
text, images, painting and display, which are pure computation or calls to the
system; the wire formats; HTTP/1.1, TLS, the resolver and the connection pool;
the sandbox; content blocking; accessibility; generators and gates.

Seen while modelling, and stated by no property because the code and its tests
do not settle what is meant:

* a crash notice goes to the present owner of the embedding frame, who after a
  transfer may not have been shown the frame that the notice names;
* `has_extra_answer` takes a message to look at it, and so drops a `Terminated`
  notice that arrives just then (`px-broker/src/script.rs:454`);
* describing a completion value runs script after the last checkpoint
  (`px-script/src/lib.rs:306`), so a microtask may be queued when `step` says
  Idle;
* in the document tree, a template whose contents are removed keeps their stale
  handle, `clone_subtree` shares a template's contents with the original, and a
  refused `append_text` leaves a text node without a parent;
* in the shell, a change of height while another tab is active leaves the
  returning tab scrolled past its end; losing the window's focus resets the
  capture and not the strip's press; closing a tab left of the active one keeps
  the index, so the active tab changes; a refused address replaces the page
  without a history entry, which the comment there denies; a press on a link is
  not forgotten by Back or a switch of tabs; the chrome always keeps the
  pointer's leaving, so the page never hears of it;
* the GPU process draws without images. `session.rs:6-8` speaks of the same
  bytes either way and `session.rs:567-569` of the same result, but
  `item_to_wire` (`wire.rs:184-190`) sends an empty fill. `docs/backlog.md:1570`
  ("GPU wire carries no images") knows of it, so `Renderer` states what the code
  promises today: the list without its images;
* a redirect's Referrer-Policy replaces the `NoReferrer` a navigation asked for
  (`browse.rs:275`, `secure.rs:845`); cookies set on the way through another
  site do not reach the document's own requests (`browse.rs:12`);
  `Chain.visited` never holds the first URL, so a loop back to it is seen one
  hop late (`redirect.rs:63`);
* an empty newer legacy directory hides an older populated one;
* `cleanup` hashes a file and then removes it; a write in between is lost
  (`NothingLost` leaves out exactly these);
* the limit on rotations starts anew with each mirror (`client.rs:359`), ADR 041
  line 69 gives one per check;
* `client.rs:12` says a rejection records nothing but failure counts; it also
  records the attempt and keeps the trust reached, on which `CatchesUp` depends;
* a mirror that is stale and not expired can hold a client back until its
  manifest expires; expired rotations strand a client, as ADR 041 says.
