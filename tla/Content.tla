------------------------------- MODULE Content ------------------------------
(***************************************************************************)
(* The content cache (content.rs): whole-file blobs on disk beside their   *)
(* etag sidecars and pin markers, filled by five publishers -- a pin, the  *)
(* fill of a write buffer, the store after an upload, a reader's spill and *)
(* the background hydrator -- and emptied by eviction.                     *)
(*                                                                         *)
(* A version of a file is a number, larger when newer; the bytes of a file *)
(* are a sequence of the versions its chunks come from, so that bytes of   *)
(* two versions in one blob show. An etag is the version it names.         *)
(*                                                                         *)
(* Not here: the cost of a connection (a stale copy is served by choice or *)
(* not, either way), file ages and their order (which blobs and windows    *)
(* are the oldest is left open), the deletion of files.                    *)
(***************************************************************************)
EXTENDS Integers, Sequences, FiniteSets

CONSTANTS
    Files,
    Workers,          \* threads that read, pin, fill and store
    hydrator,         \* the thread of hydrate_loop
    NoOne,            \* no worker
    Length,           \* chunks of each version
    ReadaheadAfter,   \* READAHEAD_AFTER, in chunks
    FetchChunk,       \* FETCH_CHUNK, in chunks
    HydrateFloor,     \* HYDRATE_FLOOR, in chunks
    MaxWindows,       \* MAX_WINDOWS
    MaxReadahead,     \* MAX_READAHEAD_BYTES, in chunks
    Budget,           \* [cache] max_bytes, in chunks
    Events,           \* bound: operations, outages and restarts, together
    Perils            \* which perils the instance includes, see below

\* "late publisher"       -- a file's row moves on while a publisher is at work
\*                           on the version it has left
\* "late request"         -- a file's row moves on while a request for the version
\*                           it has left waits for the hydrator
\* "stale auto"           -- a walk that finds a pinned file changed fetches it by
\*                           itself (with the policy "auto"), from the row before
\* "shared staging"       -- an upload is stored while a pin or a fill of the
\*                           same file uses the same temporary file
AllPerils == {"late publisher", "late request", "stale auto", "shared staging"}

Versions == DOMAIN Length
Threads  == Workers \cup {hydrator}

ASSUME ContentAssumption ==
    /\ IsFiniteSet(Files) /\ IsFiniteSet(Workers) /\ hydrator \notin Workers
    /\ NoOne \notin Workers \cup {hydrator}
    /\ Length \in Seq(Nat \ {0}) /\ Length # <<>>
    /\ {ReadaheadAfter, FetchChunk, HydrateFloor, MaxWindows} \subseteq Nat \ {0}
    /\ {MaxReadahead, Budget, Events} \subseteq Nat
    /\ Perils \subseteq AllPerils

VARIABLES
    server,    \* the version the server has of each file
    row,       \* the version the state database lists
    online,    \* whether the server is in reach
    pinned,    \* whether pins.json covers the file
    blob,      \* the cached copy
    sidecar,   \* the etag it claims to be
    marker,    \* its pin marker
    part,      \* the temporary file <id>.part
    spills,    \* the temporary files <id>.<seq>.ra
    windows,   \* CachingSource::windows
    seen,      \* CachingSource::seen
    slot,      \* CachingSource::inflight: the lock of each file, by its creator
    pending,   \* Hydrator::pending
    requests,  \* the channel to the hydrator
    work,      \* what each thread is doing
    shown,     \* the emblem of each file when its change was last announced
    spent,     \* events so far
    overtaken  \* history: an eviction had the file on its list while a pin of it was
               \* under way, and since then it has not been seen here and left alone

disk   == <<blob, sidecar, marker, part, spills>>
memory == <<windows, seen, slot, pending, requests>>
facts  == <<server, row, online, pinned>>
vars   == <<facts, disk, memory, work, shown, spent, overtaken>>

-----------------------------------------------------------------------------
(* Bytes, blobs and windows.                                               *)

NoVersion == 0
Bytes(v)  == [i \in 1..Length[v] |-> v]

NoFile    == [there |-> FALSE, bytes |-> <<>>]
File(b)   == [there |-> TRUE, bytes |-> b]

\* Bytes that are all there and none of them older than version v.
NoOlder(b, v) == Len(b) >= Length[v] /\ \A i \in DOMAIN b : b[i] >= v

\* A bug to catch: a copy counts as fresh whatever its sidecar says.
FreshIfThere(f, v) == blob[f].there

Fresh(f, v) == blob[f].there /\ sidecar[f] = v
Cached(f)   == Fresh(f, row[f])
Stale(f)    == blob[f].there /\ ~Cached(f)

\* What sync_state says of a file's copy (pins apart).
Emblem(f) == CASE Cached(f) -> "Cached" [] Stale(f) -> "Stale" [] OTHER -> "OnlineOnly"

\* A window is a run of reads: where it goes on, how far it has come, what is
\* prefetched, and the spill that collects the whole file if it began at 0.
NoSpill  == [name |-> 0, bytes |-> <<>>]
NoWindow == [etag |-> NoVersion, next |-> 0, run |-> 0, start |-> 0, buf |-> <<>>, spill |-> NoSpill]
Window(etag, off, name) ==
    [NoWindow EXCEPT !.etag = etag, !.next = off,
                     !.spill.name = IF off = 0 THEN name ELSE 0]

Idle == [op |-> "none", file |-> NoOne, etag |-> NoVersion, pc |-> "idle", off |-> 0,
         win |-> NoWindow, bytes |-> <<>>, doomed |-> {}, lock |-> NoOne, guard |-> FALSE,
         at |-> "nowhere", going |-> NoOne]
Doing(op, f, etag, pc) == [Idle EXCEPT !.op = op, !.file = f, !.etag = etag, !.pc = pc]

Keeping     == {"pin", "auto"}               \* what writes a pin marker
At(w, pc)   == work[w].pc = pc
Busy(f)     == {w \in Threads : work[w].file = f}
Goes(w, pc) == work' = [work EXCEPT ![w].pc = pc]
Finishes(w) == work' = [work EXCEPT ![w] = Idle]

\* A frontend that looks at once is the one that misses most.
Announces(f) == \E g \in {f} : shown' = [shown EXCEPT ![g] = Emblem(g)']
Spend == spent < Events /\ spent' = spent + 1

\* An unused name for a spill (window_seq only ever grows; a name that is free
\* again is as good as a new one).
SpillNames == 1..(Cardinality(Threads) + Cardinality(Files) + 1)
NamesInUse == {windows[f].spill.name : f \in Files} \cup {work[w].win.spill.name : w \in Threads}
FreeName   == CHOOSE n \in SpillNames \ NamesInUse : \A m \in SpillNames \ NamesInUse : n <= m

-----------------------------------------------------------------------------
\* The variables hold what the code can hold: files on the disk are sequences of
\* bytes of some version, counters stay below their limits. (content.rs.)
TypeOK ==
    /\ server \in [Files -> Versions] /\ row \in [Files -> Versions]
    /\ online \in BOOLEAN /\ pinned \in [Files -> BOOLEAN]
    /\ \A f \in Files : blob[f].bytes \in Seq(Versions) /\ part[f].bytes \in Seq(Versions)
    /\ sidecar \in [Files -> Versions \cup {NoVersion}]
    /\ marker \in [Files -> BOOLEAN] /\ spills \subseteq SpillNames
    /\ seen \in [Files -> 0..(HydrateFloor - 1)] /\ slot \in [Files -> Workers \cup {NoOne}]
    /\ pending \subseteq Files
    /\ \A i \in DOMAIN requests : requests[i].file \in Files /\ requests[i].etag \in Versions
    /\ \A w \in Threads : work[w].bytes \in Seq(Versions) /\ work[w].doomed \subseteq Files

Init ==
    /\ server = [f \in Files |-> 1] /\ row = server
    /\ online = TRUE /\ pinned = [f \in Files |-> FALSE]
    /\ blob = [f \in Files |-> NoFile] /\ part = blob
    /\ sidecar = [f \in Files |-> NoVersion] /\ marker = [f \in Files |-> FALSE]
    /\ spills = {} /\ windows = [f \in Files |-> NoWindow]
    /\ seen = [f \in Files |-> 0] /\ slot = [f \in Files |-> NoOne]
    /\ pending = {} /\ requests = <<>>
    /\ work = [w \in Threads |-> Idle] /\ shown = [f \in Files |-> Emblem(f)]
    /\ spent = 0 /\ overtaken = {}

-----------------------------------------------------------------------------
(* What begins an operation. Each works on the row it read at its start.   *)

Starts(w, job) ==
    /\ w \in Workers /\ At(w, "idle")
    /\ Spend
    /\ work' = [work EXCEPT ![w] = job]

\* The row of a file moves on (a listing, an upload of ours).
MayMove(f)  == /\ "late publisher" \in Perils \/ Busy(f) = {}
               /\ "late request" \in Perils \/ \A i \in DOMAIN requests : requests[i].file # f
BeingPinned(f) == \E w \in Busy(f) : work[w].op \in Keeping

StartsRead(w, f, off) ==
    /\ off < Length[row[f]]
    /\ Starts(w, [Doing("read", f, row[f], "look") EXCEPT !.off = off])
    /\ UNCHANGED <<facts, disk, memory, shown>>

\* Provider::pin: the promise first, then the bytes.
Pins(w, f) ==
    /\ pinned' = [pinned EXCEPT ![f] = TRUE]
    /\ Starts(w, Doing("pin", f, row[f], "lock"))
    /\ UNCHANGED <<server, row, online, disk, memory, shown>>

\* Provider::refresh: what is promised and not here, or out of date.
Refreshes(w, f) ==
    /\ pinned[f] /\ ~Cached(f)
    /\ Starts(w, Doing("pin", f, row[f], "lock"))
    /\ UNCHANGED <<facts, disk, memory, shown>>

Unpins(f) ==
    /\ pinned[f]
    /\ pinned' = [pinned EXCEPT ![f] = FALSE]
    /\ marker' = [marker EXCEPT ![f] = FALSE]
    /\ UNCHANGED <<server, row, online, blob, sidecar, part, spills, memory, work, shown, spent>>

\* A write buffer is filled (stream_to), or the cache is by a refresh the user
\* asks for (hydrate_cache: the same, then stored once more). One file's flow
\* does this, and the storing of its uploads, one at a time.
FlowIsFree(f) == \A w \in Busy(f) : work[w].op \notin {"fill", "refill", "store"}

StartsFill(w, f, op) ==
    /\ op \in {"fill", "refill"} /\ FlowIsFree(f)
    /\ Starts(w, Doing(op, f, row[f], IF Length[row[f]] > Budget THEN "direct" ELSE "lock"))
    /\ UNCHANGED <<facts, disk, memory, shown>>

\* An upload of ours has been accepted and its version recorded; it is stored.
StartsStore(w, f) ==
    /\ FlowIsFree(f) /\ MayMove(f) /\ server[f] + 1 \in Versions
    /\ server' = [server EXCEPT ![f] = @ + 1]
    /\ row' = [row EXCEPT ![f] = server[f] + 1]
    /\ Starts(w, [Doing("store", f, server[f] + 1, "stage") EXCEPT !.bytes = Bytes(server[f] + 1)])
    /\ UNCHANGED <<online, pinned, disk, memory>>
    /\ Announces(f)

\* Somebody else saves the file; a walk finds out.
ForeignPut(f) ==
    /\ server[f] + 1 \in Versions
    /\ server' = [server EXCEPT ![f] = @ + 1]
    /\ UNCHANGED <<row, online, pinned, disk, memory, work, shown, spent>>

RowBefore(f) == row[f]

\* If it is pinned and the policy is "auto" on a cheap connection, the walk
\* brings the copy up to date, from the row it read before the listing;
\* otherwise (nobody is asked to work) it is shown, or the user is asked.
Settles(w, f) ==
    \/ w = NoOne /\ UNCHANGED <<work, spent>>
    \/ pinned[f] /\ "stale auto" \in Perils /\ Starts(w, Doing("auto", f, RowBefore(f), "lock"))

Walk(w, f) ==
    /\ online /\ row[f] # server[f] /\ MayMove(f)
    /\ row' = [row EXCEPT ![f] = server[f]]
    /\ Settles(w, f)
    /\ UNCHANGED <<server, online, pinned, disk, memory>>
    /\ Announces(f)

-----------------------------------------------------------------------------
(* Reading (CachingSource::read, read_windowed).                           *)

\* Pinned, on disk, out of date -- and the policy says so, or does not.
StaleCopyOk(f) == pinned[f] /\ Stale(f)

ServesOutdated(w) ==
    /\ At(w, "look") /\ StaleCopyOk(work[w].file)
    /\ Finishes(w)
    /\ UNCHANGED <<facts, disk, windows, seen, slot, pending, requests, shown, spent>>

Looks(w) ==
    LET f == work[w].file IN
    /\ At(w, "look")
    /\ IF Fresh(f, work[w].etag)
       THEN Goes(w, "local") /\ seen' = [seen EXCEPT ![f] = 0]
       ELSE Goes(w, "window") /\ UNCHANGED seen
    /\ UNCHANGED <<facts, disk, windows, slot, pending, requests, shown, spent>>

\* The blob may have gone since the look; then the read goes live.
ReadsBlob(w) ==
    /\ At(w, "local")
    /\ IF blob[work[w].file].there THEN Finishes(w) ELSE Goes(w, "window")
    /\ UNCHANGED <<facts, disk, memory, shown, spent>>

\* The window leaves the map for as long as this read has it; a run that is
\* broken takes its spill along.
Continues(win, w) == win # NoWindow /\ win.etag = work[w].etag /\ win.next = work[w].off

TakesWindow(w) ==
    LET f == work[w].file  prior == windows[f] IN
    /\ At(w, "window")
    /\ windows' = [windows EXCEPT ![f] = NoWindow]
    /\ work' = [work EXCEPT ![w].pc = "fetch",
                            ![w].win = IF Continues(prior, w) THEN prior
                                       ELSE Window(work[w].etag, work[w].off, FreeName)]
    /\ spills' = IF Continues(prior, w) THEN spills ELSE spills \ {prior.spill.name}
    /\ UNCHANGED <<facts, blob, sidecar, marker, part, seen, slot, pending, requests,
                   shown, spent>>

Buffered(win, off) == off >= win.start /\ off < win.start + Len(win.buf)
\* A bug to catch: a run that fails leaves its spill behind.
DropsNothing(win) == UNCHANGED spills

Drops(win) == spills' = spills \ {win.spill.name}

\* What the server sends for n chunks from offset off on.
RangeOf(f, off, n) == [i \in 1..(IF off >= Length[server[f]] THEN 0
                               ELSE IF off + n > Length[server[f]] THEN Length[server[f]] - off
                               ELSE n) |-> server[f]]

\* The window after this read's chunk has come out of its buffer or off the
\* network: past READAHEAD_AFTER a whole FETCH_CHUNK is asked for.
Refilled(w) ==
    LET win == work[w].win  f == work[w].file  off == work[w].off
        left == Length[work[w].etag] - off
    IN  IF Buffered(win, off) \/ win.run < ReadaheadAfter THEN win
        ELSE [win EXCEPT !.start = off,
                         !.buf = RangeOf(f, off, IF left < FetchChunk THEN left ELSE FetchChunk)]

Served(w) ==
    LET win == Refilled(w)  off == work[w].off
    IN  IF Buffered(win, off) THEN <<win.buf[off - win.start + 1]>>
        ELSE IF win.run >= ReadaheadAfter THEN <<>>
        ELSE RangeOf(work[w].file, off, 1)

Advanced(w) ==
    LET win == Refilled(w)  out == Served(w)
    IN  [win EXCEPT !.next = @ + Len(out), !.run = @ + Len(out),
                    !.spill.bytes = IF win.spill.name # 0 THEN @ \o out ELSE @]

Complete(win, etag) == win.spill.name # 0 /\ Len(win.spill.bytes) = Length[etag]
Written(win) == IF win.spill.bytes # <<>> THEN {win.spill.name} ELSE {}

\* keep_window, trim_readahead: over the cap some other window goes, and a
\* window of the same file that came back first; over the memory budget
\* prefetched buffers are given up, but no window.
Prefetched(ws) == LET n[S \in SUBSET Files] ==
                          IF S = {} THEN 0
                          ELSE LET f == CHOOSE f \in S : TRUE IN Len(ws[f].buf) + n[S \ {f}]
                  IN  n[Files]

\* A bug to catch: the cap is checked against the files, not the windows.
KeptBeyondTheCap(w) ==
    {[windows EXCEPT ![work[w].file] = Advanced(w)]}

Kept(w) ==
    LET f == work[w].file
        open == {g \in Files : windows[g] # NoWindow}
        cap == IF Cardinality(open) >= MaxWindows THEN {{g} : g \in open} ELSE {{}}
        put(gone) == [g \in Files |-> IF g = f THEN Advanced(w)
                                      ELSE IF g \in gone THEN NoWindow ELSE windows[g]]
        cut(ws, bufs) == [g \in Files |-> IF g \in bufs THEN [ws[g] EXCEPT !.buf = <<>>, !.start = 0]
                                          ELSE ws[g]]
        fits(gone, bufs) == /\ Prefetched(cut(put(gone), bufs)) <= MaxReadahead
                            /\ bufs # {} => Prefetched(put(gone)) > MaxReadahead
    IN  {cut(put(c[1]), c[2]) : c \in {d \in cap \X SUBSET Files : fits(d[1], d[2])}}

\* A bug to catch: the larger of the two, so that few files ever are.
HydrateTriggerWhole(v) == IF HydrateFloor > Length[v] THEN HydrateFloor ELSE Length[v]

\* Past the floor a file that is read here and there is fetched whole.
HydrateTrigger(v) == IF HydrateFloor < Length[v] THEN HydrateFloor ELSE Length[v]

Tallies(w) ==
    LET f == work[w].file  win == Advanced(w)
    IN  IF win.spill.name # 0 THEN UNCHANGED <<seen, pending, requests>>
        ELSE IF seen[f] + 1 < HydrateTrigger(work[w].etag)
        THEN seen' = [seen EXCEPT ![f] = @ + 1] /\ UNCHANGED <<pending, requests>>
        ELSE /\ seen' = [seen EXCEPT ![f] = 0]
             /\ pending' = pending \cup {f}
             /\ requests' = IF f \in pending THEN requests
                            ELSE Append(requests, [file |-> f, etag |-> work[w].etag])

NeedsServer(w) == ~Buffered(work[w].win, work[w].off)

\* A spill is a file once something has been written to it.
Fetches(w) ==
    LET f == work[w].file  win == Advanced(w) IN
    /\ At(w, "fetch") /\ (online \/ ~NeedsServer(w))
    /\ \/ /\ Served(w) = <<>>
          /\ Drops(win) /\ Finishes(w)
          /\ UNCHANGED <<windows, seen, pending, requests>>
       \/ /\ Served(w) # <<>> /\ Complete(win, work[w].etag)
          /\ spills' = spills \cup Written(win)
          /\ work' = [work EXCEPT ![w].pc = "bare", ![w].win = win]
          /\ UNCHANGED <<windows, seen, pending, requests>>
       \/ /\ Served(w) # <<>> /\ ~Complete(win, work[w].etag)
          /\ \E ws \in Kept(w) :
                /\ windows' = ws
                /\ spills' = (spills \cup Written(win))
                                 \ {windows[g].spill.name : g \in {h \in Files : h = f \/ ws[h] = NoWindow}}
          /\ Tallies(w)
          /\ Finishes(w)
    /\ UNCHANGED <<facts, blob, sidecar, marker, part, slot, shown, spent>>

\* The request fails: the window goes, with its spill, and a copy on disk is
\* handed out whatever its version.
FetchFails(w) ==
    /\ At(w, "fetch") /\ ~online /\ NeedsServer(w)
    /\ Drops(work[w].win)
    /\ Finishes(w)
    /\ UNCHANGED <<facts, blob, sidecar, marker, part, windows, seen, slot, pending, requests,
                   shown, spent>>

-----------------------------------------------------------------------------
(* The lock that pins and fills of one file share (fetch_lock,             *)
(* gc_fetch_lock). A lock is known by the worker that made it.             *)

TakesLock(w) ==
    LET f == work[w].file  lock == IF slot[f] = NoOne THEN w ELSE slot[f] IN
    /\ At(w, "lock")
    /\ slot' = [slot EXCEPT ![f] = lock]
    /\ work' = [work EXCEPT ![w].pc = "wait", ![w].lock = lock]
    /\ UNCHANGED <<facts, disk, windows, seen, pending, requests, shown, spent>>

AfterFetch(op) == IF op \in Keeping THEN "mark" ELSE "open"

\* A bug to catch: a pin leaves its marker before it has the bytes.
EntersPromising(w) ==
    LET f == work[w].file IN
    /\ At(w, "wait")
    /\ ~\E v \in Busy(f) : work[v].guard /\ work[v].lock = work[w].lock
    /\ marker' = [marker EXCEPT ![f] = @ \/ work[w].op \in Keeping]
    /\ work' = [work EXCEPT ![w].guard = TRUE,
                            ![w].pc = IF Fresh(f, work[w].etag) THEN AfterFetch(work[w].op) ELSE "stage"]
    /\ UNCHANGED <<facts, blob, sidecar, part, spills, memory, shown, spent>>

\* Inside, a fresh blob costs nothing; otherwise it is fetched whole.
Enters(w) ==
    LET f == work[w].file IN
    /\ At(w, "wait")
    /\ ~\E v \in Busy(f) : work[v].guard /\ work[v].lock = work[w].lock
    /\ work' = [work EXCEPT ![w].guard = TRUE,
                            ![w].pc = IF Fresh(f, work[w].etag) THEN AfterFetch(work[w].op) ELSE "stage"]
    /\ UNCHANGED <<facts, disk, memory, shown, spent>>

\* The eviction-protection marker is the last thing a pin writes.
Marks(w) ==
    /\ At(w, "mark")
    /\ marker' = [marker EXCEPT ![work[w].file] = TRUE]
    /\ Goes(w, "unlock")
    /\ UNCHANGED <<facts, blob, sidecar, part, spills, memory, shown, spent>>

\* An open handle keeps the bytes, whatever becomes of the name.
Opens(w) ==
    LET b == blob[work[w].file] IN
    /\ At(w, "open")
    /\ work' = [work EXCEPT ![w].pc = "unlock", ![w].bytes = IF b.there THEN b.bytes ELSE <<>>]
    /\ UNCHANGED <<facts, disk, memory, shown, spent>>

Unlocks(w) ==
    /\ At(w, "unlock")
    /\ work' = [work EXCEPT ![w].pc = "collect", ![w].guard = FALSE, ![w].lock = NoOne]
    /\ UNCHANGED <<facts, disk, memory, shown, spent>>

\* A bug to catch: the lock is dropped with the first to leave.
InUseNever(lock, f) == FALSE

InUse(lock, f) == \E v \in Busy(f) : work[v].lock = lock

Collects(w) ==
    LET f == work[w].file  keeps == work[w].op \in Keeping IN
    /\ At(w, "collect")
    /\ slot' = [slot EXCEPT ![f] = IF InUse(@, f) THEN @ ELSE NoOne]
    /\ IF keeps \/ work[w].bytes = <<>> THEN Finishes(w) ELSE Goes(w, "evict")
    /\ UNCHANGED <<facts, disk, windows, seen, pending, requests, spent>>
    /\ IF keeps THEN Announces(f) ELSE UNCHANGED shown

\* A GET of the whole file; short of the row's size it counts as failed.
Arrives(w) == online /\ Length[server[work[w].file]] >= Length[work[w].etag]

\* A file larger than the whole budget is streamed past the cache.
FillsDirectly(w) ==
    LET f == work[w].file IN
    /\ At(w, "direct")
    /\ IF Arrives(w)
       THEN work' = [work EXCEPT ![w].pc = IF work[w].op = "refill" THEN "stage" ELSE "filled",
                                 ![w].op = IF @ = "refill" THEN "store" ELSE @,
                                 ![w].bytes = Bytes(server[f])]
       ELSE Finishes(w)
    /\ UNCHANGED <<facts, disk, memory, shown, spent>>

-----------------------------------------------------------------------------
(* Staging and publishing (fetch_whole, store_file, download_whole,        *)
(* publish_blob). Pins, fills and stores share the name <id>.part: who     *)
(* creates it while another has it open truncates the other's file.        *)

UsesPart(w) == work[w].op \in Keeping \cup {"fill", "refill", "store"}
OnPart(f)   == {w \in Busy(f) : UsesPart(w) /\ work[w].pc \in {"stream", "bare", "rename"}}

Stages(w) ==
    LET f == work[w].file IN
    /\ At(w, "stage")
    /\ UsesPart(w) => "shared staging" \in Perils \/ OnPart(f) = {}
    /\ IF UsesPart(w)
       THEN /\ part' = [part EXCEPT ![f] = File(<<>>)]
            /\ work' = [work EXCEPT ![w].pc = "stream", ![w].at = "part"]
       ELSE Goes(w, "stream") /\ UNCHANGED part
    /\ UNCHANGED <<facts, blob, sidecar, marker, spills, memory, shown, spent>>

\* Everyone who has the file open under its old name keeps writing to it.
Moved(at, from, to, f) == [w \in Threads |-> IF w \in Busy(f) /\ work[w].at = from
                                             THEN [at[w] EXCEPT !.at = to] ELSE at[w]]

Incoming(w) == IF work[w].op = "store" THEN work[w].bytes ELSE Bytes(server[work[w].file])

Streams(w) ==
    LET f == work[w].file IN
    /\ At(w, "stream")
    /\ work[w].op = "store" \/ Arrives(w)
    /\ part' = IF work[w].at = "part" THEN [part EXCEPT ![f].bytes = Incoming(w)] ELSE part
    /\ blob' = IF work[w].at = "blob" THEN [blob EXCEPT ![f].bytes = Incoming(w)] ELSE blob
    /\ work' = [work EXCEPT ![w].pc = "bare",
                            ![w].bytes = IF UsesPart(w) THEN <<>> ELSE Incoming(w)]
    /\ UNCHANGED <<facts, sidecar, marker, spills, memory, shown, spent>>

\* A pin that fails leaves at once, and the lock's slot as it is.
GivesUp(w) == IF work[w].guard /\ work[w].op \notin Keeping THEN "unlock" ELSE "failed"

StreamFails(w) ==
    LET f == work[w].file IN
    /\ At(w, "stream") /\ work[w].op # "store" /\ ~Arrives(w)
    /\ part' = IF UsesPart(w) THEN [part EXCEPT ![f] = NoFile] ELSE part
    /\ work' = [(IF UsesPart(w) THEN Moved(work, "part", "nowhere", f) ELSE work)
                   EXCEPT ![w].pc = GivesUp(w), ![w].at = "nowhere"]
    /\ UNCHANGED <<facts, blob, sidecar, marker, spills, memory, shown, spent>>

\* A bug to catch: the old sidecar stays until the new one is written.
BaresNothing(w) == At(w, "bare") /\ Goes(w, "rename") /\ UNCHANGED <<facts, disk, memory, shown, spent>>

\* publish_blob: the stale sidecar first, then the bytes, then the new sidecar.
Bares(w) ==
    /\ At(w, "bare")
    /\ sidecar' = [sidecar EXCEPT ![work[w].file] = NoVersion]
    /\ Goes(w, "rename")
    /\ UNCHANGED <<facts, blob, marker, part, spills, memory, shown, spent>>

Source(w) == CASE UsesPart(w)             -> part[work[w].file]
               [] work[w].op = "read"     -> File(work[w].win.spill.bytes)
               [] work[w].op = "hydrate"  -> File(work[w].bytes)

Renames(w) ==
    LET f == work[w].file
        freed == Moved(work, "blob", "nowhere", f)
        moved == IF UsesPart(w)
                 THEN [v \in Threads |-> IF v \in Busy(f) /\ work[v].at = "part"
                                         THEN [freed[v] EXCEPT !.at = "blob"] ELSE freed[v]]
                 ELSE freed
    IN
    /\ At(w, "rename")
    /\ IF Source(w).there
       THEN /\ blob' = [blob EXCEPT ![f] = Source(w)]
            /\ work' = [moved EXCEPT ![w].pc = "seal", ![w].at = "nowhere", ![w].win = NoWindow,
                                     ![w].bytes = <<>>]
       ELSE /\ work' = [work EXCEPT ![w].pc = GivesUp(w), ![w].at = "nowhere"]
            /\ UNCHANGED blob
    /\ part' = IF UsesPart(w) THEN [part EXCEPT ![f] = NoFile] ELSE part
    /\ spills' = spills \ {work[w].win.spill.name}
    /\ UNCHANGED <<facts, sidecar, marker, memory, shown, spent>>

AfterSeal(op) == IF op \in Keeping \cup {"fill", "refill"} THEN AfterFetch(op) ELSE "evict"

\* The hydrator announces what it has published only after it has evicted.
Seals(w) ==
    LET f == work[w].file IN
    /\ At(w, "seal")
    /\ sidecar' = [sidecar EXCEPT ![f] = work[w].etag]
    /\ Goes(w, AfterSeal(work[w].op))
    /\ UNCHANGED <<facts, blob, marker, part, spills, memory, spent>>
    /\ IF work[w].op = "hydrate" THEN UNCHANGED shown ELSE Announces(f)

-----------------------------------------------------------------------------
(* Eviction (evict, evict_blob).                                           *)

Evictable == {f \in Files : blob[f].there /\ ~marker[f]}

Held(S) == LET n[T \in SUBSET S] == IF T = {} THEN 0
                                    ELSE LET f == CHOOSE f \in T : TRUE
                                         IN  Len(blob[f].bytes) + n[T \ {f}]
           IN  n[S]

\* What goes is picked here and goes one by one, whatever happens in between.
PicksDoomed(w) ==
    /\ At(w, "evict")
    /\ \E D \in SUBSET Evictable :
          /\ Held(Evictable \ D) <= Budget \/ D = Evictable
          /\ D # {} => Held(Evictable) > Budget
          /\ work' = [work EXCEPT ![w].doomed = D, ![w].pc = IF D = {} THEN "done" ELSE "doom"]
    /\ UNCHANGED <<facts, disk, memory, shown, spent>>

EvictsBlob(w, f) ==
    /\ At(w, "doom") /\ f \in work[w].doomed
    /\ blob' = [blob EXCEPT ![f] = NoFile]
    /\ work' = [Moved(work, "blob", "nowhere", f) EXCEPT ![w].pc = "doomed", ![w].going = f]
    /\ UNCHANGED <<facts, sidecar, marker, part, spills, memory, shown, spent>>

\* A bug to catch: an eviction is announced to nobody.
EvictsSidecarSilently(w) ==
    LET f == work[w].going  left == work[w].doomed \ {f} IN
    /\ At(w, "doomed")
    /\ sidecar' = [sidecar EXCEPT ![f] = NoVersion]
    /\ work' = [work EXCEPT ![w].doomed = left, ![w].going = NoOne,
                            ![w].pc = IF left = {} THEN "done" ELSE "doom"]
    /\ UNCHANGED <<facts, blob, marker, part, spills, memory, shown, spent>>

EvictsSidecar(w) ==
    LET f == work[w].going  left == work[w].doomed \ {f} IN
    /\ At(w, "doomed")
    /\ sidecar' = [sidecar EXCEPT ![f] = NoVersion]
    /\ work' = [work EXCEPT ![w].doomed = left, ![w].going = NoOne,
                            ![w].pc = IF left = {} THEN "done" ELSE "doom"]
    /\ UNCHANGED <<facts, blob, marker, part, spills, memory, spent>>
    /\ Announces(f)

\* What follows an eviction, or a failure.
Ends(w) ==
    LET f == work[w].file  op == work[w].op  well == At(w, "done") IN
    /\ At(w, "done") \/ At(w, "failed")
    /\ CASE op = "refill" /\ well ->
              work' = [work EXCEPT ![w].op = "store", ![w].pc = "stage"]
         [] op = "fill" /\ well -> Goes(w, "filled")
         [] OTHER -> Finishes(w)
    /\ pending' = IF op = "hydrate" THEN pending \ {f} ELSE pending
    /\ UNCHANGED <<facts, disk, windows, seen, slot, requests, spent>>
    /\ IF op = "hydrate" /\ well THEN Announces(f) ELSE UNCHANGED shown

\* The filled buffer goes back to whoever asked for it.
HandsOver(w) ==
    /\ At(w, "filled")
    /\ Finishes(w)
    /\ UNCHANGED <<facts, disk, memory, shown, spent>>

-----------------------------------------------------------------------------
(* The hydrator (hydrate_loop), the frontend, the world.                   *)

\* A bug to catch: a file found fresh stays pending.
HydratesForgetting ==
    LET r == Head(requests) IN
    /\ At(hydrator, "idle") /\ requests # <<>>
    /\ requests' = Tail(requests)
    /\ work' = IF Fresh(r.file, r.etag) THEN work
               ELSE [work EXCEPT ![hydrator] = Doing("hydrate", r.file, r.etag, "stage")]
    /\ UNCHANGED <<facts, disk, windows, seen, slot, pending, shown, spent>>

Hydrates ==
    /\ At(hydrator, "idle") /\ requests # <<>>
    /\ LET r == Head(requests) IN
       IF Fresh(r.file, r.etag)
       THEN pending' = pending \ {r.file} /\ UNCHANGED work
       ELSE /\ work' = [work EXCEPT ![hydrator] = Doing("hydrate", r.file, r.etag, "stage")]
            /\ UNCHANGED pending
    /\ requests' = Tail(requests)
    /\ UNCHANGED <<facts, disk, windows, seen, slot, shown, spent>>

ServerGoes ==
    /\ online /\ Spend
    /\ online' = FALSE
    /\ UNCHANGED <<server, row, pinned, disk, memory, work, shown>>

ServerComes ==
    /\ ~online /\ online' = TRUE
    /\ UNCHANGED <<server, row, pinned, disk, memory, work, shown, spent>>

\* A restart empties memory; temporary files of the last process are swept.
Crash ==
    /\ Spend
    /\ part' = [f \in Files |-> NoFile] /\ spills' = {}
    /\ windows' = [f \in Files |-> NoWindow] /\ seen' = [f \in Files |-> 0]
    /\ slot' = [f \in Files |-> NoOne] /\ pending' = {} /\ requests' = <<>>
    /\ work' = [w \in Threads |-> Idle]
    /\ shown' = [f \in Files |-> Emblem(f)]
    /\ UNCHANGED <<facts, blob, sidecar, marker>>

Steps(w) ==
    \/ Looks(w) \/ ReadsBlob(w) \/ TakesWindow(w) \/ Fetches(w) \/ FetchFails(w) \/ ServesOutdated(w)
    \/ TakesLock(w) \/ Enters(w) \/ Marks(w) \/ Opens(w) \/ Unlocks(w) \/ Collects(w)
    \/ FillsDirectly(w) \/ Stages(w) \/ Streams(w) \/ StreamFails(w)
    \/ Bares(w) \/ Renames(w) \/ Seals(w)
    \/ PicksDoomed(w) \/ (\E f \in Files : EvictsBlob(w, f)) \/ EvictsSidecar(w)
    \/ Ends(w) \/ HandsOver(w)

Begins(w, f) ==
    \/ \E off \in 0..(Length[row[f]] - 1) : StartsRead(w, f, off)
    \/ Pins(w, f) \/ Refreshes(w, f)
    \/ \E op \in {"fill", "refill"} : StartsFill(w, f, op)
    \/ StartsStore(w, f)

Acts ==
    \/ \E w \in Threads : Steps(w)
    \/ \E w \in Workers, f \in Files : Begins(w, f)
    \/ \E f \in Files : Unpins(f) \/ ForeignPut(f)
    \/ \E w \in Workers \cup {NoOne}, f \in Files : Walk(w, f)
    \/ Hydrates \/ ServerGoes \/ ServerComes \/ Crash

\* Nothing keeps an eviction off what is being pinned, nor a pin off what an
\* eviction is about to remove.
Overtaken  == {f \in Files : BeingPinned(f) /\ \E w \in Threads : f \in work[w].doomed}
Settled(f) == Busy(f) = {} /\ \A w \in Threads : f \notin work[w].doomed
Lies(f)    == Settled(f) /\ blob[f].there

Next == Acts /\ overtaken' = {f \in overtaken : ~Lies(f)'} \cup Overtaken'
Spec == Init /\ [][Next]_vars
-----------------------------------------------------------------------------
(* Properties.                                                             *)

\* A blob that claims a version holds it whole and nothing older, whoever
\* published it last and however their three steps interleave. (content.rs
\* cached_is_fresh trusts the sidecar for reads, pins and fills.)
FreshIsTrue == \A f \in Files :
    blob[f].there /\ sidecar[f] # NoVersion => NoOlder(blob[f].bytes, sidecar[f])

\* The buffer handed to an editor is no older than the version that becomes
\* its base: else the upload's If-Match would hold and the newer version on
\* the server be replaced. (content.rs stream_to.)
FillsAreNoOlder == \A w \in Threads :
    At(w, "filled") => NoOlder(work[w].bytes, work[w].etag)

\* A file the cache has promised to keep is there, whatever fails, stops or is
\* evicted -- unless an eviction had picked it while it was being pinned; and
\* once it is here again it stays. (content.rs evict skips what carries a pin
\* marker, and a pin writes it last.)
PinnedIsHere == \A f \in Files \ overtaken : marker[f] /\ Settled(f) => blob[f].there

\* The same without exception.
PromisesAreKept == \A f \in Files : marker[f] /\ Settled(f) => blob[f].there

\* No copy is exempt from eviction once its promise is taken back. (provider.rs
\* unpin removes both.)
MarkersAreOwed == \A f \in Files : marker[f] /\ Settled(f) => pinned[f]

\* Temporary files are published or removed: what is left over belongs to a run
\* of reads that goes on. (content.rs CachingSource::drop_window, SpillGuard.)
NoLitter == (\A f \in Files : Settled(f)) =>
    /\ \A f \in Files : ~part[f].there
    /\ spills \subseteq {windows[f].spill.name : f \in Files}

\* Memory and disk that reading ahead may take: one window a file, no more than
\* MAX_WINDOWS of them, no more prefetched than MAX_READAHEAD_BYTES, and no
\* two sharing a temporary file. (content.rs keep_window, trim_readahead.)
ReadaheadIsBounded ==
    /\ Cardinality({f \in Files : windows[f] # NoWindow}) <= MaxWindows
    /\ Prefetched(windows) <= MaxReadahead
    /\ \A f, g \in Files : windows[f].spill.name = windows[g].spill.name
                               => f = g \/ windows[f].spill.name = 0

\* The emblem a frontend shows is the file's, once it has looked at what was
\* announced and nothing is under way. (content.rs announce and
\* announce_gone, provider.rs walk_dir.)
EmblemsKeepUp == \A f \in Files : Settled(f) => shown[f] = Emblem(f)

\* Two downloads of one file for a pin or a fill never run at once, though its
\* lock is thrown away when nobody uses it. (content.rs gc_fetch_lock.)
OneFillAtATime == \A w, v \in Threads :
    work[w].guard /\ work[v].guard /\ work[w].file = work[v].file => w = v

\* A file marked as being hydrated is in the hydrator's hands or on its way
\* there: else no later read would ask for it again. (content.rs hydrate_loop,
\* Hydrator::request.)
PendingIsInHand == pending \subseteq {requests[i].file : i \in DOMAIN requests} \cup {work[hydrator].file}

\* With "auto", the walk that finds a pinned file changed on the server fetches
\* it: what it then marks as kept is the version the row now lists. (config.rs
\* RefreshPinned::Auto, "Fetch by itself".)
AutoFetchesTheNews == \A w \in Workers :
    work[w].op = "auto" /\ At(w, "mark") => Cached(work[w].file)
=============================================================================
