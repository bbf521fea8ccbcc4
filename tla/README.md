# wusel, specified

wusel mounts a WebDAV account (Nextcloud, ownCloud) as a file system: what is
read is fetched, what is written is kept locally and sent in the background.
This directory holds TLA+ models of it, the TLC instances that check them and
proofs for TLAPS. Paths below are relative to `src/crates/`.

## The system

| Part | State | Operations | Hard because |
|---|---|---|---|
| **Machine** (`wusel-fsm`) | a flow per busy object, its queue, reads beside it, the buffer registry | `on_request`, `abandon`, `on_completion`, `on_beside` | callers give up, join, queue behind what fails; hand-overs chain |
| **Substrate** (`wusel-core/src/runtime.rs`) | the decider's channel, pools, net queue, payloads, refreshing set | decide, run a job, report, stop | one channel, two pools, two tiers, answers by id |
| **Write-back** (`runtime.rs`, `provider.rs`) | scratch files, `pending_uploads`, the row's etag | publish, upload, resolve, resume, start-up sweep | "saved" is answered eight steps before the server has it; crashes; others |
| **Content** (`content.rs`) | blobs, sidecars, pin markers, windows, `.part`/`.ra` files | read, pin, fill, store, hydrate, evict | five publishers, three steps each, no common lock |
| **Listing** (`provider.rs`, `activity.rs`, `state.rs`) | rows, activity history, `walked_root` | reload, walk, refresh, reconcile | a listing is old when it is applied |
| **Tree** (`state.rs`, `runtime.rs`) | rows by id, paths, recycled ids | create, rename, delete subtrees | what is keyed by id outlives the row |
| **WebDAV client** (`webdav.rs`) | a collection of chunks per upload | conditional PUT, chunked upload, retries | requests land and their answers do not |
| **Pins** (`pins.rs`) | `pins.json`, its lock directory, a cache per process | set, clear, rename, migrate, ask | several processes, a lock the dead leave |
| **Push, poll, health** (`push.rs`, `health.rs`) | phase, trigger, reachability | connect, back off, walk, announce | failures overtake successes |
| **FUSE, IPC** (`wusel-fuse`, `wusel-ipc`) | parked replies, handles, directory streams, connections, the log of changes | callbacks, calls, watches, the end of the mount | callers vanish; budgets and logs are bounded |
| **Commands** (`wusel/src/main.rs`, `credentials.rs`) | the marker, the account's directories, the keyring | mount, serve, pin, cache clear, login, account remove | no lock between processes, a look before each act |

Everything that decides runs on one thread, the decider, and costs nothing;
everything that blocks runs on a worker and comes back as a completion. What is
hard is therefore seldom mutual exclusion but *what a decision means by the time
its job comes back*, and what several processes and the server have done since.

## Modules

| Module | Models | Composes |
|---|---|---|
| `Script` | `script.rs`, `collision.rs`, `registry.rs`: the decisions, as operators | |
| `Machine` | `machine.rs`, the decider's requests, abandons, completions, schedules | extends `Script` |
| `WriteBack` | the world that a file's jobs act on, uploader, listings, restarts | extends `Machine` |
| `Content` | the content cache and the hydrator | |
| `Pins`, `AtomicPins` | the pins file and its lock; what it promises | `Pins` refines `AtomicPins` |
| `Transfer` | uploads against the (mock) server | |
| `Listing` | four kinds of listings beside the machine's flows, one directory | |
| `Tree` | rows, ids, paths, subtrees, their operations and the server's tree | |
| `Substrate` | threads, pools, queues, refreshes, the stop | |
| `Heartbeat` | push, poll, syncer, reachability | |
| `Frontends` | FUSE and socket over an engine that answers in any order | |
| `Neighbours` | the processes of one account | |
| `MachineProofs`, `PinsProofs`, `TransferProofs`, `ListingProofs`, `NeighboursProofs`, `FrontendsProofs`, `ContentProofs`, `WriteBackProofs` | theorems | each extends the module it is about; `WriteBackProofs` also `MachineProofs`, `NeighboursProofs` also `Substrate`, `TransferProofs` also `Tree` (two components that share no constant and no variable) |
| `MC...` | small instances for TLC | |

The modules meet at narrow places, and each states what it takes from the next:
`Frontends` assumes of the engine what `Machine` and `Substrate` show (every
request answered, an abandoned read on its own); `Substrate` keeps of the
machine what threads see of it; `WriteBack` gives `Machine`'s jobs their effect
on one file; `Tree` does so for directories, `Listing` says when a listing may
be applied at all, `Heartbeat` when one is started; `Transfer` opens the
"upload" that `WriteBack` takes as one step.

### Script, Machine

`start` and `advance` are pure functions in the code and operators here:
`Advance(o, f, c, b)` maps object, flow, completion and registry facts to a
`Move`, with one operator per script (`PublishNext`, `SetAttrNext`, ...);
`AfterFailure` holds what a failure means before and after the commit point.
All fifteen intents, forty-nine steps and thirty jobs are there. A row
(`NodeFacts`) is the set of yes/no facts a decision asks of it; etags and byte
ranges are opaque.

`flow[o]` is the entry of `Machine::busy` (step `"Idle"` if there is none),
`queue[o]` its queue, `beside` the reads next to a busy object, `buffer` the
registry, `posted` the scheduled publishes on their way back through the
channel; `reply`, `abandoned`, `unsent` are history. A step is one entry point
run to its end: `Submit`/`Deliver` (`on_request`), `Abandon`, `Complete(o)`
(`on_completion`), `CompleteBeside`. The workers are the environment: a job
comes back with any completion `Completions` allows, so what holds here holds
for every server and every disk. `Abandon` covers all kinds of request, as the
API does, although today only FUSE reads are abandoned.

### WriteBack

Takes `Machine`'s `Finishes` -- everything a completion does to the machine --
and gives each job of one file its effect on the world: `row`, `disk`
(`scratch/<inode>`), `owed` (its `pending_uploads` record), `looked` (a record
`uploader_loop` has read and not yet sent), `inbox` and `handing` (bytes and
callers between push and send), `cloud` (version, what each version held,
conflicted copies); `saved`, `theirs` and `unseen` are history. Content is the *set of
edits* made to the file: every save extends what its author saw, so an edit
missing from a later version was overwritten by somebody who had not seen it;
a three-way merge is the set form of `diffy`'s. Jobs are actions
(`HydrateBuffer`, `Upload`, `ResolveConflict` with `Settles`, `Merges`,
`Copies`, ...); `FailsInPassing` is a failure before the effect, and `Upload`,
`LandsUnanswered` and `Copies` also fail *after* it. Around them run the
uploader (`UploaderReads`, `Resume`, `UploaderResolves`), listings (`Walk`),
other people (`ForeignSave`, `ForeignDelete`), `ScratchLost` and `Crash`, which
empties memory and applies the start-up sweep. `unseen` records what an edit
without a base version met: the code sends such an edit unconditionally
(`script.rs:956`), so what was on the server when its row was found to be there
may be overwritten by somebody who has not seen it. The properties hold for every
other edit.

### Content

A version is a number, the bytes of a file the sequence of versions its chunks
come from, so that bytes of two versions in one blob show. Publishing is the
code's three steps (remove the sidecar, rename the bytes in, write the new
sidecar), interleaved with reads, windows that are spilled, pins, fills of
write buffers, stores after uploads, the hydrator with its floor and its
channel, eviction in two passes, outages and restarts. Nothing keeps an eviction
and a pin apart; `overtaken` records the files that an eviction had picked while
they were being pinned, until they are whole again.

### Pins, AtomicPins

A change is `Takes` the lock (or `Judges` it dead by its age and `Removes` it),
`Reads`, `Writes` (the rename of a temporary file), `Adopts` into the cache,
`Unlocks`; a question is `Checks` the stamp, `Refills` if need be, `Answers`.
Processes die at any step and leave the lock behind; `Ages` makes it old.
`AtomicPins` is the promise: each change happens at once, upon what the one
before left, or not at all. `Pins!Abstract` is the refinement mapping: the file
is the pins, and a thread has asked until its rename.

### Transfer, Listing, Tree

`Transfer`: one action is one request as the server handles it and the client
acts upon the answer; requests are refused, done and not answered, sent again
by `send_retrying`, or answered without an etag. An upload's number is the
version its content becomes.

`Listing`: the server's clock advances with each change and is the etag of what
changed. `lst[l]` is where a lister is: it has noted the activity sequence,
asked, been answered, judged (`QuietSince`, the root's epoch), applied the rows.
`asof`, `own` and `last` are history.

`Tree`: rows by id with parent, name *and* spelled-out path, as in the schema;
`rename` moves the subtree's paths, replaces an occupant and inherits its
identity, `delete` takes the subtree, a listing inserts, changes type and
deletes, and the lowest free id above all is given out again, as SQLite does.
Rows go whoever has a buffer for them; a buffer that has lost its row is a stray.

### Substrate, Heartbeat, Frontends, Neighbours

`Substrate`: `events` is the one channel into the decider, `answers` the one to
the pump; `db`, `net`, `background` the pools' queues, `worker` each thread
(asleep, woken, busy). `Decides` handles one event whole. `Stops` drops the
senders in the code's order.

`Heartbeat`: `phase` and `at` are the listener with its discovery, probe and
back-off, `trigger` the syncer's channel of one, `health` what `Reachability`
holds under its lock and `todo` the calls to the desktop a reporter still has
to make after it has let go of the lock.

`Frontends`: `parked` and `waiting` are the two tables of tickets, `work` what
the engine is at, `fd`, `closing`, `streams` the mount's handles, `conn`,
`live`, `sub`, `log` the socket's, `mount` the session with its signal thread;
`lost[p]` records the changes the log has lost for the client `p`, trimmed past its
anchor or hidden by a new log that has caught up with it.

`Neighbours`: `proc[p]` is a command with its place in its code; `kernel` the
kernel's mounts, `marker` the file that tells the others where to look,
`scratch`, `owed`, `open` what there is to lose, `file` and `entry` the
credentials. Any command starts at any time and anything may come between its look
and its act. Three histories say to whom it did: `exposed` the edits that were open
while somebody was between reading what is owed and the sweep, or that were beside
a command that has looked and now deletes, or whose engine had lost its database;
`crossed` the mounts beside which another began or ended, or the account was
removed; `cut` that the last login ended between keyring and file.

## Runs

| Run | Shows |
|---|---|
| `files` | three callers read two ranges, write, resize, flush, refresh, rename and delete one file in both its lives (on the server; created, never published), any of them giving up: nothing is stranded, changes keep their order, no edit loses its buffer, giving up hurts only who gives up |
| `directories` | listings, lookups, creations and hand-overs that chain (`dir` moved out of `root` while a file is moved out of `dir`): `HeldOnce`, `ParkedHasOneHandover`, and every request is answered |
| `write_back` | two frontends create, write and flush a file that others save, with any two of a fault or lost answer, a refusal for good and a crash: no saved edit is lost and nobody's version is overwritten unseen, but for what met an edit without a base (`unseen`); what is owed is settled |
| `content` | two files, two workers, the hydrator, any three of reads, pins, fills, refreshes, stores, outages and restarts: a copy that claims a version is that version, fills are no older than their base, promises are kept, but for a file picked for eviction while it was being pinned (`overtaken`) |
| `pins` | two threads of the daemon and a command line, one process may die: atomic changes, current answers |
| `transfer` | two clients, plain and chunked uploads, two faults: the document is one upload, whole; clean answers are true, and who has missed no answer is in conflict with others only |
| `listing` | walk, refresh, `ls` and relist, two at a time, beside creations, uploads, renames and deletions: no listing takes back what was committed here, and an undisturbed one settles the directory |
| `tree` | rows are made, edited, uploaded, renamed and deleted with all below them, a directory is listed, somebody changes the server, the daemon restarts or its cache is cleared: every row is reached from the root, by the path its parents spell; own saves do not collide; what is owed is forgotten only with its file |
| `substrate` | two requests of any kind, a reader that gives up, refreshes, two net workers, a stop at any moment: one refresh each, nobody sleeps while work is left that no awake worker is coming for, all threads end |
| `heartbeat` | two changes, two outages, one broken connection, a push endpoint that works, fails, is missing or is refused: every change is found, and a recovery is shown |
| `frontends` | reads and closes, directories listed while they change, clients that ask, watch and go, a log trimmed and begun anew, every end of the mount: streams of one piece, no change skipped but what the log has lost (`lost`), nobody alive interrupted, everybody answered |
| `neighbours` | three processes of one account in any order and at any time, two of them killed at any moment: edits keep their bytes, live mounts are found, logins are whole, but for those `exposed`, `crossed` and `cut` |

What a property would catch is shown by its mutant in `PROJECT.json`: an
operator marked "A bug to catch" beside the definition it replaces; some of these
are for properties that no run lists.

**Perils.** Where the code does not stand up to something, the module names it
in `AllPerils`, a constant `Perils` says which an instance includes, and the
guard is at the one action that needs it. The runs have `Perils = {}`: each
property is shown for a world without them, and the section *Known failures*
says what each peril breaks. Only the run of `Content` includes two,
`"late request"` and `"stale auto"`, which need a third version of a file to
break anything. Everywhere else every action can still happen without perils.

Where a peril would have excluded the very thing a property is for, it is none:
the step is taken, a history records *whom* it harmed (`unseen`, `overtaken`,
`lost`, `exposed`, `crossed`, `cut`), and the property holds for all others. Each
has a sister without the record (`NothingIsUnseen`, `PromisesAreKept`,
`EveryChangeIsHeard`, `NoEditIsLost`), which TLC refutes. `Neighbours` has no perils
at all.

Some properties excuse a case in their own words, and do not catch it.
`ConflictsAreOthers` excuses a client that has missed the effect of a request;
`AnswersAreTrue` an upload found by its size; `ListingsSettle` files without a file
id; `OwedStaysOwed` a listing after somebody else has been at the server, or after a
stop that may have cut a rename short; `OnlyOthersCollide` an instance in which the
daemon has restarted or somebody else has saved, and what a pending move is about
to replace, besides the peril `"late identity"`.

**Bounds, and why they are enough.**

- *Machine*: three callers are the least that let one run, one queue and one
  arrive or give up in between; three objects the least chain in which a parked
  directory waits for a parked directory. One etag, since no decision compares
  two.
- *WriteBack*: versions `1..6` -- the initial one, two of others, three of ours
  -- so that `CanPut` never stops an upload (it would show as a deadlock).
  `Faults` counts failures, deletions and losses; `Troubles` = 2 lets any two of
  a fault, a refusal and a crash meet, in any order and at any two steps; all
  three at once, and more, are left to the theorems.
- *Content*: a file shrinks from two chunks to one, so that a stale length and
  a stale byte both show; one window, one byte of read-ahead and a budget of
  one put every limit in reach. More versions are
  left to the theorems. `Events` = 3 lets two operations overlap and a
  third change their ground.
- *Transfer*: three uploads of two clients -- one to replace, two to race -- of
  two sizes and two chunks; two faults, so that a retry and a probe both fail.
- *Listing*: two names (a rename needs two), two listings at a time, a history
  of one so that forgetting happens.
- *Tree*: two names, depth two, ids up to 4, one flow, one listing, one foreign
  change, one restart: a listing of a directory that is being moved, and an id
  that is given out again, both fit. `Works` = 1 edit.
- *Substrate*: two requests, one abandon, a backlog of one: the cap, the
  joining and the second tier are reached; two net workers, one of them asleep.
- *Frontends*: the instance runs in *scenes* (two descriptors; a descriptor
  and a connection; two directory streams; two connections and an asking
  client; two connections and the end of the process), because parts that share
  no state need not be interleaved; limits of one stream and one connection, a
  log of two.
- *Neighbours*: three processes, so a victim, a rival and a successor, at two
  places; two edits, three logins, two of the three killed.

`CHECK_DEADLOCK FALSE` stands where the system comes to rest by itself: bounded
events, processes that have ended. The two runs of `Machine` and the one of
`WriteBack` do check for deadlock.

**Symmetry** is used for interchangeable files, workers, clients, names and
processes, only in runs without liveness properties.

**Fairness.** Weak fairness only, and only of threads and jobs of the program:

- *Machine*, *WriteBack*: a job that is out comes back (requests have a connect
  timeout of 15 s and a read timeout of 30 s, `wusel-core/src/tls.rs:27`,
  `:43`; disk jobs end), the decider reads its channel, the uploader goes
  round (its interval is capped, `runtime.rs:900-993`).
- *Substrate*: each thread goes on; nothing is assumed of callers or refreshes.
- *Pins*: a thread that has begun goes on, and time passes.
- *Heartbeat*: listener, poller, syncer and the confirming thread run on
  timers; a reporter makes the calls it has decided on. Nothing is assumed of
  the server: the properties say "if it stays up".
- *Frontends*: the pump, the engine, a connection's thread and the teardown go
  on; nothing of readers, clients or the user.

**Beside the properties of the runs** the modules state others, which hold on
the same instances without perils: `TypeOK` of each module
(in `Tree`, `TablesOK`);
`NoLitter`, `ReadaheadIsBounded`, `EmblemsKeepUp`, `OneFillAtATime`,
`PendingIsInHand` (`Content`); `OneHolder`, `RenamesCarryThePins`, `CorpsesGo`
(`Pins`); `NoChunksLinger` (`Transfer`); `NewFilesStay`
(`Listing`); `AnswersAreWhole`, `EveryCallIsAnswered` (`Substrate`);
`NoFalseAlarm`, `ToastsAlternate`, `OutageIsShown`, `VouchedForIsThere`
(`Heartbeat`); `NoStumpIsLeft` (`Frontends`).

## Known failures

What TLC finds when an instance asks for it. Each is a way in which the code does
less than it, or its documentation, says. To see one, add the peril to the
`Perils` of the cfg, or the property to its `INVARIANTS`.

Without any peril:

| Property | What happens | What is said |
|---|---|---|
| `WriteBack!WritesOwnBytes` | `submit_write` puts the bytes into the inbox before the request is decided (`wusel-core/src/runtime.rs:223`); a write that fails before `write_buffer` (`:2209`) never takes them, and each later write takes its predecessor's | `runtime.rs:356`: "the machine's FIFO guarantees they are consumed in the order they arrived" |
| `Content!AutoFetchesTheNews` (with `"stale auto"`, as in its run) | the walk hands the row from before the change to the download (`provider.rs:628`), which finds the copy fresh | `config.rs:592`: "Fetch by itself, but only when it is cheap" |
| `Transfer!UploadsLand` | after a `MOVE` that failed only the size of what is at the target is compared (`webdav.rs:658`) | `webdav.rs:663`: "the file assembled in full" |
| `Listing!VouchedIsCurrent` | a child's new etag is stored before its listing, which then fails; the next walk passes it by and vouches for the root (`provider.rs:641`) | `provider.rs:511`: "the probe may only save work, never skip a walk it cannot vouch for" |
| `Listing!NoGhosts` | an uploaded file that never got its file id and was deleted elsewhere is taken for a new one by every listing (`state.rs:270`) | `state.rs:253`: "Once flushed, it gains a file id and reconciles normally" |
| `WriteBack!NothingIsUnseen` | a listing gives a file created here the etag of one created elsewhere; the upload goes out unconditionally (`script.rs:956`) | `keeping-in-sync.adoc:233` promises `If-None-Match` |
| `Content!PromisesAreKept`, `MarkersAreOwed` | eviction, pin and unpin decide on what they have read before the other's change: a marked file is evicted, or an unpinned one keeps its marker (`content.rs:903`) | |
| `Transfer!SavesAreInformed` | the probe before a chunked upload takes an answer without an etag for "no document" (`webdav.rs:235`, `:552`), and the `MOVE` overwrites what is there | `webdav.rs:546`: "the precondition is enforced with a pre-flight PROPFIND" |
| `Tree!BuffersAreTheirOwn` | a file not yet uploaded is replaced or deleted, by a move over it, a listing or the removal of a directory not listed (`fs.rs:561`); the buffer outlives the row (`state.rs:205`), whose id is given out again | |
| `Frontends!EveryChangeIsHeard` | an anchor older than the log, or one of an earlier life that the new log has caught up with, is read as if nothing lay between (`events.rs:61`) | |
| `Neighbours!NoEditIsLost` | a command opens a `Provider`, whose start sweeps the scratch files a living engine writes to (`provider.rs:1167`, `:1179`); or the cache is cleared beside an engine that began after the look | |
| `Neighbours!OneEngine` | `serve` leaves no marker, and two mounts look before either has acted | `main.rs:1815`: "cannot happen" |

With a peril:

| Peril | Falls | What happens |
|---|---|---|
| `"edit over owed"` (`WriteBack`) | `SavedIsSomewhere`, `TheirsAreKept`, `BaseIsInTheBuffer` | after a restart a write hydrates, and truncates the scratch file that an unsent record owes (`runtime.rs:2236`; `provider.rs:1169` says it "must be resumed, not deleted") |
| `"number reused"` | `SavedIsSomewhere` | a listing takes the row of a file while a write or a flush of it waits; the next creation is given the row's number again (`state.rs:293`; `state.rs:102` has `INTEGER PRIMARY KEY` without `AUTOINCREMENT`), and what was meant for the old file meets the new one |
| `"foreign delete"` | all three | a listing deletes row and record of a file whose upload waits for its retry (`state.rs:270`; `keeping-in-sync.adoc:186`: "never silent data loss") |
| `"hydration fails"` | `TheirsAreKept`, `BaseIsInTheBuffer` | the truncated scratch file stays and is taken for the file (`runtime.rs:2236`; `script.rs:369`: "The base has to be here in full") |
| `"scratch lost"` | `SavedIsSomewhere` | the only copy goes |
| `"late publisher"`, `"shared staging"` (`Content`) | `FreshIsTrue`, and `FillsAreNoOlder`, `EmblemsKeepUp` | a download publishes its bytes under a sidecar written meanwhile by another; two stage into one `.part` |
| `"late request"`, `"stale auto"` | `FreshIsTrue`, with the lengths `<<2, 1, 2>>` | the hydrator works on a request for a version the row has left, a walk's own download on the row from before the change: a blob of one version gets the sidecar of another (`content.rs`, `hydrate_loop`; `provider.rs:628`) |
| `"two at a corpse"`, `"slow holder"` (`Pins`) | `OneHolder`, `NoChangeIsLost`, `AnswersAreCurrent`, `ChangesAreAtomic` | the second of two that judged one lock dead removes the first one's living lock (`pins.rs:415`; `:412`: "the loop settles it") |
| `"same tick"` | `AnswersAreCurrent` | two changes leave the same time and size, the cache is taken for current |
| `"slow reconcile"` (`Listing`) | `CommitsStand` | a flow commits between `quiet_since` and the transaction |
| `"failed walk"` (`Heartbeat`) | `EveryChangeIsFound` | the walk that catches up after a reconnect fails and nobody asks for another (`provider.rs:545`; `push.rs:22`: "caught up at once") |
| `"overtaken"` | `ToastsAlternate`, `OutageIsShown`, `RecoveryIsShown` | decisions are made under the lock, the desktop is called after it, in another order (`health.rs:264`; `:55`: a mount learns "that it is back") |
| `"stale place"` | `PathsAreSpelled`, `EveryRowIsReached` | a directory is moved, removed, or removed and its id given out again, while a listing of it or a move into it is under way: new rows keep the old path, or hang below a row that is gone or is a file (`state.rs:270`: rows have no foreign key to their parent) |
| `"late identity"` | nothing on the instance | the id of an uploaded file is learned only by the relist |
| `"shared handle"` (`Frontends`) | `OnlyTheDeadAreInterrupted` | a flush interrupts by handle: duplicates share it, and created files all have handle 0 (`dispatch.rs:116`, `fs.rs:176`) |
| `"early signal"` | `NoStumpIsLeft` | a signal between the mount and the handler leaves a dead mount |

Two more that no property states: a caller of the socket that is outstanding
when the engine stops is not told; a watcher that has gone keeps its slot until
the next push.

## Proofs

Every theorem is for all values of the constants that satisfy the modules'
assumptions: any number of callers, objects, processes, chunks, faults, however
long the history. TLC checks the same statements on the instances above.

| Module | Theorem | States | Premise |
|---|---|---|---|
| `MachineProofs` | `TypeCorrect` | `TypeOK` | |
| | `NothingIsEverStranded` | `NothingStranded` | |
| | `GivenUpFlowsServeNobody` | `GivenUpServesNobody` | |
| | `OnlyTheAbandonedAre` | `OnlyTheAbandonedAreInterrupted` | |
| | `ChangesRunInOrder` | `OrderOfArrival` | |
| | `UnsentEditsAreKept` | `EditsKept` | |
| | `EveryCallerIsHeldOnce` | `HeldOnce` | |
| | `EveryParkedDirectoryHasItsHandover` | `ParkedHasOneHandover` | |
| `PinsProofs` | `TheLockExcludes` | `OneHolder` | `Careful` |
| | `ChangesBuildOnEachOther` | `NoChangeIsLost` | `Careful` |
| | `PinsAreAtomic` | `ChangesAreAtomic`, the refinement of `AtomicPins` | `Careful` |
| | `QuestionsAreAnsweredTruly` | `AnswersAreCurrent` | `Trusting` |
| `TransferProofs` | `DocumentsAreWhole` | `FilesAreWhole` | |
| | `CleanAnswersAreTrue` | `AnswersAreTrue` | |
| | `ConflictsAreAnothers` | `ConflictsAreOthers` | |
| `ListingProofs` | `QuietIsQuiet` | `QuietMeansQuiet` | |
| | `ListingsUndoNothing` | `CommitsStand` | `Prompt` |
| | `ListingsSettleTheRows` | `ListingsSettle` | |
| `NeighboursProofs` | `EditsOutliveTheirNeighbours` | `EditsSurviveNeighbours` | |
| | `EveryLiveMountIsSeen` | `LiveMountsAreSeen` | |
| | `EveryLoginIsWhole` | `LoginsAreWhole` | |
| `FrontendsProofs` | `NobodyMissesAChange` | `NothingIsSkipped` | |
| | `StreamsAreWhole` | `StreamsAreOfOnePiece` | |
| | `NobodyAliveIsInterrupted` | `OnlyTheDeadAreInterrupted` | `HandlesApart` |
| | `NoMountIsLeft` | `NoStumpIsLeft` | `SignalsHandled` |
| `NeighboursProofs` (`Substrate`) | `EveryRefreshIsCounted` | `OneRefreshEach` | |
| | `NoWakeUpIsLost` | `NobodySleepsBesideWork` | |
| `TransferProofs` (`Tree`) | `WhatIsOwedCanBeUploaded` | `Anchored`: what is owed has its row and its buffer | |
| | `EveryRowHasItsPlace` | `EveryRowIsReached` | `AllInPlace` |
| | `PathsFollowTheirParents` | `PathsAreSpelled` | `AllInPlace` |
| `ContentProofs` | `CopiesAreWhatTheyClaim` | `FreshIsTrue` | `Orderly` |
| | `EditorsAreNotMisled` | `FillsAreNoOlder` | `Orderly` |
| | `WhatIsPinnedStays` | `PinnedIsHere` | |
| `WriteBackProofs` | `SavedIsNeverLost` | `SavedIsSomewhere` | `Unspoilt` |
| | `TheirsAreNeverOverwritten` | `TheirsAreKept` | `Unspoilt` |
| | `BasesTellTheTruth` | `BaseIsInTheBuffer` | `Unspoilt` |

A premise excludes perils, and each peril it excludes breaks an instance (see
*Known failures*), so none can be dropped: `Careful` that a dead lock is judged
by two at once and that a living one is judged dead, `Trusting` besides that two
changes fall into one tick (it also says what tells a pins file from none);
`Prompt` that a flow commits between the judgement on a listing and its
transaction; `HandlesApart` that a descriptor is closed while another one reads
through its handle, `SignalsHandled` a kill before the handlers are there;
`Orderly` that somebody publishes, or has been asked to, what its row has left, and
that two stage one file; `Unspoilt` the five of `WriteBack`, and that callers ask
for what that module gives an effect (to create, write and flush the file);
`AllInPlace` that a listing is applied, or an object moved, to where the directory
no longer is. Where no premise is named, the theorem holds with every peril; the
properties of `Neighbours`, `PinnedIsHere`, `NothingIsSkipped` and the two of
`WriteBack` that speak of `unseen` except in their own words whom a history has
recorded.

**Machine.** The argument has two layers. The lemmas about `Script`
(`FetchIsSound` ... `AdvanceIsSound`) say of each script, for every step and
completion, what its move may be; the lemmas about `Machine` (`ArrivesKeeps`,
`AbandonKeeps`, `ContinuesKeeps`, `HandsOverKeeps`, `EndsKeeps`, ...) say of each
action that it keeps the invariant, and use `Advance` only through the former.

- `IInv` is `RestOK` and, per object, `Healthy(flow[o], queue[o])`: flow and
  queue are well typed, an idle flow has no queue, a flow has no job exactly
  while it is idle or parked, a flow marked `abort` has no waiters or is a
  refresh. It is per object because an action touches one object, its child or
  its parked parent. `IInvSaysSo` shows that it is the conjunction of
  `TypeOK`, `NothingStranded` and `GivenUpServesNobody`: they need each other.
- `OInv` adds, for the order of arrival, that queues are sorted by arrival and
  that who rides a running change came before all who queue.
- `EInv` adds what step and job of a flow say of each other (`Fits`, `Leads`),
  that only the flow of an object writes its buffer (`Timely`), and that an
  object being created is nobody else's child (`CreationsApart`): so the step
  that drops a buffer follows the upload of all that is in it.
- `HInv` adds where callers are: who waits, rides or queues is stamped with a
  request of this object, the places are apart (`Shape`, `Stamped`, `Apart`),
  and `KeptOnce(t)` counts them. Running a queue is a recursive function over
  it; its lemmas follow the code's loop, by well-founded induction over the
  queue's length where the statement is first-order.
- `PInv` adds `OnceFor(q)`: exactly while `q` is parked there is one hand-over
  of it, running or queued, and it is on a child.

**Pins.** `IInv`: one thread inside the lock; who removes a lock removes a
corpse, and is alone in it; who has read knows what the file holds. From it each
step of the file is a step of `AtomicPins` or a stutter (`StepIsStep`). `QInv`
relates each process's cache to what the file held when its stamp was taken.

**Transfer.** `Typed`; what a collection holds (chunks of its own upload only,
and all that its uploader believes sent); and what a client may conclude from an
answer (`Fine`, `Told`): a clean answer's version has landed, and a client that
missed no effect knows its own last version, so another one is another's.

**Listing.** `Typed`; `Tracker`: an object was last given free before the floor
or has an entry at least as late -- forgetting only raises the floor; the flows
hold what they hold (`Held`); and a listing that may still be applied is about
rows nobody has changed since it was asked, or the tracker says so. What an
undisturbed listing settles is an action property of one step under that
invariant.

**Neighbours.** The invariants say what is true of those the histories have *not*
recorded. `SInv`: what somebody's way of working has got hold of is recorded
(`Exposed`); whoever is about to sweep has read of every other edit that is owed,
and when the scratch directory is about to be emptied there is no other (`Spared`).
`MInv`: a mount that is not `crossed` is where the marker says, and, once live, in
the kernel's table. `LInv` is about file, keyring and `cut`.

**Frontends.** Four invariants, one per theorem. `CInv`: the log holds the last
changes, and each change a client has not heard of is recorded as lost for it or is
still in the log and after its anchor (`Accounted`; `Watched` says the like of a
channel). `DInv`: what a directory stream has read is the
beginning of its snapshot, or nothing yet, and a listing that is asked for
changes that of no other handle (`DirectoryMoves`). `RInv`: tickets are taken
once and descriptors opened once, so what has been given up (`Dead`) stays the
read of a closed one until its answer is pumped; a file being created (`Newborn`)
is nobody's yet, which is why the pump's new descriptors revive nothing.
`Minded`: a mount without handlers has no process that can be killed unhandled.

**Substrate.** `EngineInv` says where the one refresh of a marked directory is:
in a queue, with a worker, or on its way back to the decider. It counts these
places as positions, so that a directory that was dropped at the cap, or is asked
for again while its completion is in the channel, is counted once and only once;
`Threads` is what it needs of the pools. `NobodySleepsBesideWork`
is inductive beside it: a job comes with a wake-up, which a sleeper is given or
nobody sleeps, and who takes a job was one of those on their way.

**Tree.** What is below a directory is the *least* set that contains it and is
closed under children, so that reachability needs no induction over depth: who is
not below is outside of some closed set, and each step hands over such a set.
`Anchored` (every record has its row and its buffer) holds although rows go from
under buffers, because the record goes in the same transaction as the row. The
places need `TInv`: the rows are rows and the root is one (`Formed`); a row's parent is there and is a directory (`Parents`), so the start-up sweep of files
takes nothing from under anybody; every row is reached; every path is spelled. Two
lemmas carry the steps: `RowsComeAndGo` for everything that keeps the places of
those who stay, and `StillReached`, which also lets one row move to where it is not
below itself, as `descends_from` makes sure. The proof found that an id given out
again as a file's could pass for the directory it had been, for a move under way or
a listing not yet applied: `"stale place"` includes it now.

**Content.** Two invariants that know nothing of each other, so each theorem
stands under its own premise only. `CInv`, for what is published: everybody at
work is on the version its row lists, and so is every request on its way to the
hydrator; one thread at a time has a file's `.part` open, so no bytes change
under another's hands; the bytes each carries, a window and its spill included,
are no older than its etag; and between the three steps of publishing the
sidecar on disk is absent or the publisher's own. `KInv`, for what is kept:
whoever writes a marker finds the blob there, and what an eviction has picked is
neither marked nor being kept by anybody (`Unkept`). It speaks of
files in good standing, those not `overtaken`, and a file comes back into it when it
is settled and here. It has to say nothing of versions, so two publishers may
collide and a handle may drift from the temporary file to the blob and away
(`Drift`).

**WriteBack.** The longest argument, over `Machine`'s: a completion is what
`Machine` says a completion may be (`CompletionsAreAnswers`), so each job keeps
`EInv` and its parts (`Kernel` is what is taken from there), and what is left is
the world. The invariant `WInv(U)` is stated beside a fixed set `U` of edits that do
not count; that what becomes `unseen` may be added to `U` is a lemma of its own
(`MoreIsUncounted`). `SavedIsSomewhere` is not inductive for three reasons, and
`WInv` says what is missing.

- *Why may an upload overwrite?* Because the version its base names is in the
  bytes it sends. `Bases` says so of the buffer and of the record, in two halves:
  `Holds(v)`, the scratch file has all of version `v` that is still on the server,
  and `PastSent(v)`, what of our own edits is in `v` needs no upload any more. A
  base may be old, so neither can say "all of `v`": somebody may have taken lines
  out since. An upload without a base is excused only by `Covers`: the file has
  what is on the server but for `U`, or there is nothing (`ExposedOrCovered`).
- *Why is what a record owes still on disk?* `Owing` relates the record, the
  buffer it was made from and the uploader's copy of it (`looked`), and
  `Scripted` what a flow knows at each step of its script: that the record
  exists from `PubUpload` on, that after the upload what was saved is sent, that a
  buffer is discarded when nothing is owed. The record is cleared by comparing
  its base, so the invariant carries the order in which bases grow (`Numbers`).
- *Whose row is it?* `DirAlone`: while a creation runs in the directory nobody
  holds the new row's number or name.

Each job of `Works` has its lemma (`UploadKeeps`, `SettlesKeeps`, `MergesKeeps`,
`CopiesKeeps`, `RecordKeeps`, `ClearKeeps`, `HydrateKeeps`, ...), as have
listings, the uploader, other people and `Crash`. The proof found three places
where the model had been loose. Whether a row has a size
was not taken from the upload (`runtime.rs:1770`). A conflict's relist looked at the
server as it was before the copy was put (`provider.rs:860`). And requests for a
number were taken to be requests for the file: the failure `"number reused"`
above.

**Only model-checked.** Liveness (`EveryRequestIsAnswered`, `OwedIsSettled`,
`AllThreadsEnd`, `EveryChangeIsFound`, `RecoveryIsShown`, `EverybodyIsAnswered`):
the prover has no rules for fairness and `ENABLED`. Of the safety properties of the
runs two of `Tree` have no proof: `OnlyOthersCollide` relates each row's etag to
what the server has at the row's path across a rename that has reached the server
and not yet the rows, and needs an algebra of paths on both sides; `OwedStaysOwed`
needs the same, that with nobody else at the server a listing shows every file that
was uploaded.

## What is not modelled

- *TLS, errors, configuration, capabilities, search, web links*: parsing,
  formatting, single requests; no state that two actors share.
- *Doctor, status, desktop integration*: read-only reports and presentation.
- *macOS and Nautilus extensions, packaging*: other languages; the macOS
  enumerator appears in `Frontends` as a client with an anchor.
- Within modelled parts: names, paths as text, XML, byte ranges, SQL, wire
  formats, units and options; truncation of a file with an owed upload
  (`WriteBack`), directories made here (`Tree`), counters for diagnostics.

## Plan

1. *Tree*: `OnlyOthersCollide` and `OwedStaysOwed` as theorems, for which rows and
   server have to be related path by path while one flow is between its two halves;
   `TablesOK`.
2. *Substrate*: `AnswersAreWhole`, and the threads' stop as a safety property
   (nobody sleeps at a queue without senders).
3. Directories made here (`mkdir`) in `Tree`; truncation of a file with an owed
   upload in `WriteBack`.
