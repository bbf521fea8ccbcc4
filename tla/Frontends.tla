----------------------------- MODULE Frontends -----------------------------
(***************************************************************************)
(* The two frontends of one engine (wusel-fuse: fs.rs, dispatch.rs;        *)
(* wusel-ipc: lib.rs, driver.rs, events.rs, client.rs; macOS: Enumerator).  *)
(*                                                                         *)
(* The kernel's callbacks park a reply under a ticket and return; calls on *)
(* the socket wait for theirs. The engine answers in any order, several    *)
(* tickets at a time, and one thread -- the pump -- takes each ticket to   *)
(* the side that holds it. The mount cannot be told that a reader is gone: *)
(* it concludes so from a flush of the handle that has reads open.         *)
(* Directory streams keep the listing they began with. The socket has a    *)
(* budget of connections, pushes changes to those who watch, and keeps a   *)
(* bounded log of them for those who ask. And the mount ends by a signal,  *)
(* by somebody's umount, or by itself.                                     *)
(*                                                                         *)
(* The engine is what Machine and Substrate promise of it: every request   *)
(* is answered, reads that are alike together, an abandoned one on its own. *)
(***************************************************************************)
EXTENDS Integers, FiniteSets, Sequences, SequencesExt

CONSTANTS
    Fds, Dirs,      \* descriptors of files and of directories that processes have
    Conns,          \* connections to the socket
    Pullers,        \* clients that ask for changes with an anchor
    Listings,       \* what a directory's entries may be, as sequences of names
    MaxStreams, MaxConns, MaxLog,
    Requests,       \* bound: tickets after which only close(2) takes more
    Changes,        \* bound: changes on the server
    Restarts,       \* bound
    Scenes,         \* bound: who acts in one behaviour, sets of the above and of "process"
    Perils

\* "shared handle" -- a descriptor is closed while another one reads through the
\*                    same handle: a duplicate, or another file that was created
\* "early signal"  -- the process is killed with the mount up and no handlers yet
AllPerils == {"shared handle", "early signal"}
Cast == Fds \cup Dirs \cup Conns \cup Pullers \cup {"process"}

ASSUME FrontendsAssumption ==
    /\ {MaxStreams, MaxConns, MaxLog, Requests, Changes, Restarts} \subseteq Nat
    /\ Scenes \subseteq SUBSET Cast /\ Perils \subseteq AllPerils
    /\ \A l \in Listings : l \in Seq(ToSet(l))

VARIABLES
    scene,
    (* tickets *)
    nextId,     \* next_request_id, the one allocator
    parked,     \* Replies: [ticket -> the kernel's reply it is for]
    waiting,    \* Driver: [ticket -> the connection that waits]
    work,       \* sets of tickets the engine is at work for
    given,      \* tickets that have been given up
    answers,    \* the channel to the pump
    (* the mount *)
    fd,         \* [descriptor -> its file, a name for struct file, and its handle], of those open
    closing,    \* files whose last descriptor is closed and that are not released yet
    used,       \* descriptors that have been opened
    nextFh, reads,
    dir,        \* what is in the directory
    streams,    \* DirStreams: [handle -> snapshot]
    lister,     \* [descriptor of a directory -> how far it has read]
    (* the socket *)
    conn,       \* [connection -> what its thread is at]
    live,       \* connections that are counted
    (* the changes *)
    log,        \* the log, and the sequence number of its first entry
    told,       \* changes there have been
    sub,        \* [connection that watches -> its channel]
    anchor, heard,  \* what a client has seen, and the restarts there were by then
    restarts,
    lost,       \* for the properties: [client that asks -> changes the log has lost for it]
    (* the process *)
    mount       \* the session, its signal thread, and the kernel's mount

tickets == <<nextId, parked, waiting, work, given, answers>>
files   == <<fd, closing, used, nextFh, reads>>
folders == <<dir, streams, lister>>
socket  == <<conn, live>>
changes == <<log, told, sub, anchor, heard, restarts, lost>>
vars    == <<scene, tickets, files, folders, socket, changes, mount>>

With(f, x, v)  == [y \in DOMAIN f \cup {x} |-> IF y = x THEN v ELSE f[y]]
Without(f, S)  == [y \in DOMAIN f \ S |-> f[y]]
Nothing == [x \in {} |-> 0]

Init ==
    /\ scene \in Scenes
    /\ nextId = 1 /\ parked = Nothing /\ waiting = Nothing /\ work = {} /\ given = {} /\ answers = <<>>
    /\ fd = Nothing /\ closing = {} /\ used = {} /\ nextFh = 0 /\ reads = Nothing
    /\ dir \in Listings /\ streams = Nothing
    /\ lister = [d \in Dirs |-> [at |-> "closed", fh |-> 0, got |-> <<>>, from |-> <<>>]]
    /\ conn = [c \in Conns |-> [at |-> "away", gone |-> FALSE]] /\ live = 0
    /\ log = [base |-> 0, entries |-> <<>>] /\ told = 0 /\ sub = Nothing
    /\ anchor = [p \in Pullers |-> [seq |-> 0, era |-> 0]] /\ heard = [p \in Pullers |-> {}] /\ restarts = 0
    /\ lost = [p \in Pullers |-> {}]
    /\ mount = [process |-> "starting", session |-> "none", mounted |-> FALSE,
               signal |-> FALSE, finished |-> FALSE, thread |-> "none"]

-----------------------------------------------------------------------------
(* Requests, and what the engine makes of them.                            *)

Stopped == mount.session = "over"
Tickets == Requests + 2 * Cardinality(Fds)
Ticket  == nextId' = nextId + 1
CanAsk  == nextId <= Requests /\ Ticket

\* Into the engine: alone, or with what is under way for the same bytes.
Submits(alike) ==
    \/ work' = work \cup {{nextId}}
    \/ alike /\ \E w \in work : work' = (work \ {w}) \cup {w \cup {nextId}}

Finishes(w) ==
    /\ w \in work /\ work' = work \ {w}
    /\ answers' = Append(answers, [ids |-> w, out |-> "ok"])
    /\ UNCHANGED <<nextId, parked, waiting, given, files, folders, socket, changes, mount>>

\* A request that has been given up is answered; what was done for others goes on.
Interrupts(id) ==
    /\ id \in given /\ given' = given \ {id}
    /\ \E w \in work :
          /\ id \in w /\ work' = (work \ {w}) \cup ({w \ {id}} \ {{}})
          /\ answers' = Append(answers, [ids |-> {id}, out |-> "interrupted"])
    /\ UNCHANGED <<nextId, parked, waiting, files, folders, socket, changes, mount>>

-----------------------------------------------------------------------------
(* Files: open, create, read, close.                                       *)

Unopened == Fds \ used
Opened(f, it) == fd' = With(fd, f, it) /\ used' = used \cup {f} /\ UNCHANGED closing

Opens(f) ==
    /\ f \in Unopened /\ nextFh' = nextFh + 1 /\ Opened(f, [file |-> f, fh |-> nextFh + 1])
    /\ UNCHANGED <<tickets, reads, folders, socket, changes, mount>>

\* go: a reply is parked under a ticket, and the request sent.
Asks(f, kind, file) ==
    /\ CanAsk /\ Submits(kind = "data")
    /\ parked' = With(parked, nextId, [kind |-> kind, for |-> f, file |-> file])

Creates(f) ==
    /\ f \in Unopened /\ used' = used \cup {f} /\ Asks(f, "created", f)
    /\ UNCHANGED <<waiting, given, answers, fd, closing, nextFh, reads, folders, socket, changes, mount>>

Duplicates(f, g) ==
    /\ f \in Unopened /\ g \in DOMAIN fd /\ Opened(f, fd[g])
    /\ UNCHANGED <<tickets, nextFh, reads, folders, socket, changes, mount>>

ReadsOf(fh) == IF fh \in DOMAIN reads THEN reads[fh] ELSE {}

\* One request at a time through a descriptor.
Idle(f) == f \in DOMAIN fd /\ \A id \in DOMAIN parked : parked[id].for # f

\* A read is remembered against the handle that issued it.
Reads(f) ==
    /\ Idle(f) /\ Asks(f, "data", fd[f].file)
    /\ reads' = With(reads, fd[f].fh, ReadsOf(fd[f].fh) \cup {nextId})
    /\ UNCHANGED <<waiting, given, answers, fd, closing, used, nextFh, folders, socket, changes, mount>>

\* Nothing else is: writes, changes of names and attributes, fsync.
Others(f) ==
    /\ Idle(f) /\ Asks(f, "empty", fd[f].file)
    /\ UNCHANGED <<waiting, given, answers, files, folders, socket, changes, mount>>

\* A bug to catch: the requests of every handle are given up.
AbandonedByAll(fh) == UNION {reads[h] : h \in DOMAIN reads}
Abandoned(fh) == ReadsOf(fh)

\* abandon_reads and a request to publish what was written. What the engine has
\* answered by now it does not find.
GivesUp(fh, for) ==
    /\ given' = given \cup {id \in Abandoned(fh) : \E w \in work : id \in w}
    /\ Ticket /\ work' = work \cup {{nextId}}
    /\ parked' = With(parked, nextId, [kind |-> "empty", for |-> for.for, file |-> for.file])

OthersRead(fh, dead) ==
    \E id \in ReadsOf(fh) \cap DOMAIN parked : parked[id].for \in DOMAIN fd \ dead

\* close(2), by the process or because it is killed, is a flush: the reads that
\* are open have no reader left.
Closes(f) ==
    /\ f \in DOMAIN fd /\ (OthersRead(fd[f].fh, {f}) => "shared handle" \in Perils)
    /\ LET it == fd[f]  last == \A g \in DOMAIN fd \ {f} : fd[g].file # it.file IN
       /\ GivesUp(it.fh, [for |-> f, file |-> it.file])
       /\ reads' = [h \in DOMAIN reads |-> IF h = it.fh THEN {} ELSE reads[h]]
       /\ closing' = IF last THEN closing \cup {it} ELSE closing
    /\ fd' = Without(fd, {f})
    /\ UNCHANGED <<waiting, answers, used, nextFh, folders, socket, changes, mount>>

\* The kernel holds the release back until the file's requests are answered.
Releases(it) ==
    /\ it \in closing /\ closing' = closing \ {it}
    /\ \A id \in DOMAIN parked : parked[id].file # it.file
    /\ OthersRead(it.fh, {}) => "shared handle" \in Perils
    /\ GivesUp(it.fh, [for |-> it.file, file |-> it.file])
    /\ reads' = Without(reads, {it.fh})
    /\ UNCHANGED <<waiting, answers, fd, used, nextFh, folders, socket, changes, mount>>

-----------------------------------------------------------------------------
(* Directory streams.                                                      *)

EntriesChange(l) == \* somebody else, or a refresh
    /\ l \in Listings \ {dir} /\ dir' = l
    /\ UNCHANGED <<tickets, files, streams, lister, socket, changes, mount>>

OpensDir(d) ==
    /\ lister[d].at = "closed" /\ nextFh < Cardinality(Dirs) + 1 /\ nextFh' = nextFh + 1
    /\ lister' = [lister EXCEPT ![d] = [at |-> "open", fh |-> nextFh + 1, got |-> <<>>, from |-> <<>>]]
    /\ streams' = IF Cardinality(DOMAIN streams) < MaxStreams
                  THEN With(streams, nextFh + 1, <<>>) ELSE streams
    /\ UNCHANGED <<tickets, fd, closing, used, reads, dir, socket, changes, mount>>

Registered(d) == lister[d].fh \in DOMAIN streams
\* One entry fits into a chunk. A chunk without any is the end.
Chunk(entries, start) == IF start < Len(entries) THEN <<entries[start + 1]>> ELSE <<>>
Read(d, chunk, from) ==
    [lister EXCEPT ![d].at = IF chunk = <<>> THEN "read" ELSE "open", ![d].got = @ \o chunk,
                   ![d].from = from]

\* A continuation comes from the snapshot; the beginning, and what has no
\* snapshot, from a fresh listing.
Continues(d) ==
    /\ lister[d].at = "open" /\ lister[d].got # <<>> /\ Registered(d)
    /\ lister' = Read(d, Chunk(streams[lister[d].fh], Len(lister[d].got)), lister[d].from)
    /\ UNCHANGED <<tickets, files, dir, streams, socket, changes, mount>>

Lists(d) ==
    /\ lister[d].at = "open" /\ (lister[d].got = <<>> \/ ~Registered(d))
    /\ Asks(d, "dir", d)
    /\ lister' = [lister EXCEPT ![d].at = "asking"]
    /\ UNCHANGED <<waiting, given, answers, files, dir, streams, socket, changes, mount>>

\* A bug to catch: the listing is kept from the first time.
RememberedOnce(fh, entries) == IF fh \in DOMAIN streams /\ streams[fh] = <<>>
                               THEN With(streams, fh, entries) ELSE streams
Remembered(fh, entries) == IF fh \in DOMAIN streams THEN With(streams, fh, entries) ELSE streams

Rewinds(d) ==
    /\ lister[d].at = "read" /\ lister[d].got # <<>>
    /\ lister' = [lister EXCEPT ![d].at = "open", ![d].got = <<>>]
    /\ UNCHANGED <<tickets, files, dir, streams, socket, changes, mount>>

ClosesDir(d) ==
    /\ lister[d].at \in {"open", "read"}
    /\ streams' = Without(streams, {lister[d].fh})
    /\ lister' = [lister EXCEPT ![d].at = "closed"]
    /\ UNCHANGED <<tickets, files, dir, socket, changes, mount>>

-----------------------------------------------------------------------------
(* The pump.                                                               *)

\* A bug to catch: an answer goes to one side.
KernelsAlone(ids) == IF ids \cap DOMAIN parked = {} THEN ids ELSE ids \cap DOMAIN parked
Delivered(ids) == ids

New(ids) == {parked[i].for : i \in {j \in ids \cap DOMAIN parked : parked[j].kind = "created"}}

\* The kernel's tickets are completed, the others are routed to the socket.
Pump ==
    /\ answers # <<>> /\ answers' = Tail(answers)
    /\ LET ids  == Delivered(Head(answers).ids)
           asks == {parked[i].for : i \in {j \in ids \cap DOMAIN parked : parked[j].kind = "dir"}}
       IN  /\ parked' = Without(parked, ids) /\ waiting' = Without(waiting, ids)
           /\ conn' = [c \in Conns |-> IF \E i \in ids \cap DOMAIN waiting : waiting[i] = c
                                      THEN [conn[c] EXCEPT !.at = "answered"] ELSE conn[c]]
           \* The reply to a creation names handle 0, whatever the file.
           /\ fd' = [f \in DOMAIN fd \cup New(ids) |->
                       IF f \in New(ids) THEN [file |-> f, fh |-> 0] ELSE fd[f]]
           /\ IF asks = {} THEN UNCHANGED <<lister, streams>>
              ELSE LET d == CHOOSE d \in asks : TRUE  got == lister[d].got IN
                   /\ lister' = Read(d, Chunk(dir, Len(got)), IF got = <<>> THEN dir ELSE lister[d].from)
                   /\ streams' = Remembered(lister[d].fh, dir)
    /\ UNCHANGED <<nextId, work, given, closing, used, nextFh, reads, dir, live, changes, mount>>

-----------------------------------------------------------------------------
(* Connections to the socket.                                              *)

At(c, where) == conn' = [conn EXCEPT ![c].at = where]

Connects(c) ==
    /\ conn[c].at = "away" /\ At(c, "queued")
    /\ UNCHANGED <<tickets, files, folders, live, changes, mount>>

\* Counted before its thread starts -- or dropped, when there are too many, or the
\* thread does not start, which gives the slot back.
Accepts(c) ==
    /\ conn[c].at = "queued"
    /\ \/ live < MaxConns /\ live' = live + 1 /\ At(c, "serving")
       \/ live' = live /\ At(c, "over")
    /\ UNCHANGED <<tickets, files, folders, changes, mount>>

HangsUp(c) ==
    /\ conn[c].at \notin {"away", "over"} /\ ~conn[c].gone /\ conn' = [conn EXCEPT ![c].gone = TRUE]
    /\ UNCHANGED <<tickets, files, folders, live, changes, mount>>

\* A bug to catch: a thread that ends with an error keeps its slot.
SlotKept == live
SlotGivenBack == live - 1
Leaves(c) == At(c, "over") /\ live' = SlotGivenBack

\* The end of the stream, between two requests.
EndOfStream(c) ==
    /\ conn[c].at = "serving" /\ conn[c].gone /\ Leaves(c)
    /\ UNCHANGED <<tickets, files, folders, changes, mount>>

\* Driver::dispatch: the waiter is registered before the request is sent. An
\* engine that has stopped answers at once.
Dispatches(c) ==
    /\ IF Stopped
       THEN At(c, "answered") /\ UNCHANGED <<nextId, work, waiting>>
       ELSE CanAsk /\ Submits(TRUE) /\ At(c, "calling") /\ waiting' = With(waiting, nextId, c)
    /\ UNCHANGED <<parked, given, answers, files, folders, live, changes, mount>>

Calls(c) == conn[c].at = "serving" /\ ~conn[c].gone /\ Dispatches(c)

\* One lookup for each segment of the path, then what was asked for.
WalksOn(c) == conn[c].at = "answered" /\ ~Stopped /\ Dispatches(c)

Replies(c) ==
    /\ conn[c].at = "answered"
    /\ IF conn[c].gone THEN Leaves(c) ELSE At(c, "serving") /\ live' = live
    /\ UNCHANGED <<tickets, files, folders, changes, mount>>

-----------------------------------------------------------------------------
(* The changes: pushed to those who watch, and logged for those who ask.   *)

Watches(c) ==
    /\ conn[c].at = "serving" /\ ~conn[c].gone /\ At(c, "watching")
    /\ sub' = With(sub, c, [since |-> told, seen |-> told, queue |-> <<>>])
    /\ UNCHANGED <<tickets, files, folders, live, log, told, anchor, heard, restarts, lost, mount>>

LogHead == log.base + Len(log.entries)

Broadcast(change) == [c \in DOMAIN sub |-> [sub[c] EXCEPT !.queue = Append(@, change)]]

\* A bug to catch: the oldest entry goes, and the numbers stay.
TrimmedOnly(entries) ==
    IF Len(entries) > MaxLog THEN [base |-> log.base, entries |-> Tail(entries)]
    ELSE [base |-> log.base, entries |-> entries]
Trimmed(entries) ==
    IF Len(entries) > MaxLog THEN [base |-> log.base + 1, entries |-> Tail(entries)]
    ELSE [base |-> log.base, entries |-> entries]

\* slice_since.
Slice(since) ==
    LET skip == IF since < log.base THEN 0
                ELSE IF since - log.base > Len(log.entries) THEN Len(log.entries) ELSE since - log.base
    IN  SubSeq(log.entries, skip + 1, Len(log.entries))

Missing(p) == 1..told \ (heard[p] \cup ToSet(Slice(anchor[p].seq)))
NoticesReset(p) == LogHead < anchor[p].seq

\* What the log lets go of is lost for those who have not heard of it; so is, after
\* a restart, what is told under a number that their anchor has passed already.
Loses(dropped) == [p \in Pullers |-> lost[p] \cup (dropped \ heard[p])]
Overtakes(p) == anchor[p].era < restarts /\ log'.base + Len(log'.entries) <= anchor[p].seq

Announces ==
    /\ told < Changes /\ told' = told + 1
    /\ LET entries == Append(log.entries, told + 1) IN
       /\ log' = Trimmed(entries)
       /\ LET gone == Loses(ToSet(entries) \ ToSet(log'.entries)) IN
          lost' = [p \in Pullers |-> IF Overtakes(p) THEN gone[p] \cup {told + 1} ELSE gone[p]]
    /\ sub' = Broadcast(told + 1)
    /\ UNCHANGED <<tickets, files, folders, socket, anchor, heard, restarts, mount>>

\* To a client that is gone the write fails, and only then is its thread over.
Pushes(c) ==
    /\ conn[c].at = "watching" /\ sub[c].queue # <<>>
    /\ IF conn[c].gone
       THEN Leaves(c) /\ sub' = Without(sub, {c})
       ELSE /\ sub' = [sub EXCEPT ![c].seen = Head(sub[c].queue), ![c].queue = Tail(@)]
            /\ UNCHANGED socket
    /\ UNCHANGED <<tickets, files, folders, log, told, anchor, heard, restarts, lost, mount>>

\* The whole answer is adopted with the head it came with. A head behind the
\* anchor says that the log has begun anew: what is there is looked at afresh.
Pulls(p) ==
    /\ heard' = [heard EXCEPT ![p] = IF NoticesReset(p) THEN 1..told ELSE @ \cup ToSet(Slice(anchor[p].seq))]
    /\ lost' = [lost EXCEPT ![p] = IF NoticesReset(p) THEN {} ELSE @]
    /\ anchor' = [anchor EXCEPT ![p] = [seq |-> LogHead, era |-> restarts]] /\ anchor' # anchor
    /\ UNCHANGED <<tickets, files, folders, socket, log, told, sub, restarts, mount>>

\* The daemon ends and starts again: the log begins anew, connections are gone.
RestartsDaemon ==
    /\ restarts < Restarts /\ restarts' = restarts + 1
    /\ log' = [base |-> 0, entries |-> <<>>] /\ sub' = Nothing
    /\ lost' = Loses(ToSet(log.entries))
    /\ conn' = [c \in Conns |-> IF conn[c].at = "away" THEN conn[c] ELSE [conn[c] EXCEPT !.at = "over"]]
    /\ live' = 0 /\ parked' = Nothing /\ waiting' = Nothing /\ work' = {} /\ given' = {} /\ answers' = <<>>
    /\ UNCHANGED <<nextId, files, folders, told, anchor, heard, mount>>

-----------------------------------------------------------------------------
(* The mount's beginning and end.                                          *)

Mounts == \* Session::new
    /\ mount.process = "starting" /\ mount' = [mount EXCEPT !.process = "attached", !.mounted = TRUE]
    /\ UNCHANGED <<tickets, files, folders, socket, changes>>
Runs == \* Teardown, unmount_on_signal, Session::run
    /\ mount.process = "attached"
    /\ mount' = [mount EXCEPT !.process = "serving", !.session = "running", !.thread = "polling"]
    /\ UNCHANGED <<tickets, files, folders, socket, changes>>

Alive == mount.process \in {"starting", "attached", "serving"}
Signals ==
    /\ Alive /\ ~mount.signal
    /\ \/ mount.process = "serving" /\ mount' = [mount EXCEPT !.signal = TRUE]
       \/ /\ mount.process # "serving" /\ (mount.mounted => "early signal" \in Perils)
          /\ mount' = [mount EXCEPT !.process = "ended"]
    /\ UNCHANGED <<tickets, files, folders, socket, changes>>

SomebodyUnmounts ==
    /\ mount.mounted /\ mount' = [mount EXCEPT !.mounted = FALSE]
    /\ UNCHANGED <<tickets, files, folders, socket, changes>>

\* The signal thread: a signal becomes an unmount, the end of the session its own.
ThreadLooks ==
    /\ mount.thread = "polling"
    /\ \/ mount.signal /\ mount' = [mount EXCEPT !.mounted = FALSE, !.thread = "gone"]
       \/ ~mount.signal /\ mount.finished /\ mount' = [mount EXCEPT !.thread = "gone"]
    /\ UNCHANGED <<tickets, files, folders, socket, changes>>

\* By the unmount, or by an error of its own. With the session goes the engine;
\* requests it has not answered are not answered any more.
SessionEnds ==
    /\ mount.session = "running" /\ mount' = [mount EXCEPT !.session = "over"]
    /\ work' = {} /\ given' = {}
    /\ UNCHANGED <<nextId, parked, waiting, answers, files, folders, socket, changes>>

\* A bug to catch: the mount is left to whoever unmounts it.
TornLate == [mount EXCEPT !.finished = TRUE, !.process = "ended"]
TornDown == [mount EXCEPT !.finished = TRUE, !.process = "ended", !.mounted = FALSE]
TearsDown ==
    /\ mount.session = "over" /\ Alive /\ mount' = TornDown
    /\ UNCHANGED <<tickets, files, folders, socket, changes>>

-----------------------------------------------------------------------------
In(actors) == actors \cap scene

ReadsPart   == \/ \E f \in In(Fds) : Opens(f) \/ Creates(f) \/ Reads(f) \/ Others(f) \/ Closes(f)
               \/ \E f, g \in In(Fds) : Duplicates(f, g)
               \/ \E it \in closing : Releases(it)
DirsPart    == \/ \E l \in Listings : In(Dirs) # {} /\ EntriesChange(l)
               \/ \E d \in In(Dirs) : OpensDir(d) \/ Continues(d) \/ Lists(d) \/ Rewinds(d) \/ ClosesDir(d)
CallsPart   == \E c \in In(Conns) : \/ Connects(c) \/ Accepts(c) \/ Calls(c) \/ WalksOn(c) \/ Replies(c)
                                    \/ HangsUp(c) \/ EndOfStream(c)
ChangesPart == /\ In(Pullers) # {}
               /\ \/ Announces \/ RestartsDaemon \/ \E p \in In(Pullers) : Pulls(p)
                  \/ \E c \in In(Conns) : Watches(c) \/ Pushes(c)
EndPart     == /\ "process" \in scene
               /\ Mounts \/ Runs \/ Signals \/ SomebodyUnmounts \/ ThreadLooks \/ SessionEnds \/ TearsDown
Engine      == Pump \/ \E w \in work : Finishes(w) \/ \E id \in given : Interrupts(id)

Next == (ReadsPart \/ DirsPart \/ CallsPart \/ ChangesPart \/ EndPart \/ Engine) /\ UNCHANGED scene

Spec == Init /\ [][Next]_vars

(* The engine answers, the pump and the connections' threads run, the       *)
(* accept loop accepts, the signal thread polls; a session whose mount is   *)
(* gone ends.                                                               *)
Fairness ==
    /\ WF_vars(Pump /\ UNCHANGED scene)
    /\ \A id \in 1..Tickets : WF_vars((\E w \in work : id \in w /\ Finishes(w)) /\ UNCHANGED scene)
    /\ \A c \in Conns : WF_vars((Accepts(c) \/ EndOfStream(c) \/ Replies(c)) /\ UNCHANGED scene)
    /\ WF_vars(ThreadLooks /\ UNCHANGED scene) /\ WF_vars(TearsDown /\ UNCHANGED scene)
    /\ WF_vars(~mount.mounted /\ SessionEnds /\ UNCHANGED scene)
FairSpec == Spec /\ Fairness

-----------------------------------------------------------------------------
(* Properties.                                                             *)

(* Tickets are held by one side only; streams, connections and the log stay *)
(* within their bounds, a connection's slot is counted while its thread     *)
(* runs, and only then.                                                     *)
TypeOK ==
    /\ DOMAIN parked \cap DOMAIN waiting = {} /\ \A w \in work : w # {} /\ w \subseteq 1..(nextId - 1)
    /\ live = Cardinality({c \in Conns : conn[c].at \in {"serving", "calling", "answered", "watching"}})
    /\ live <= MaxConns /\ Len(log.entries) <= MaxLog
    /\ Cardinality(DOMAIN streams) <= MaxStreams

(* A read is interrupted only if its reader is gone: a flush of one file    *)
(* gives up no read of another, nor one that joined its transfer.           *)
OnlyTheDeadAreInterrupted ==
    [][Pump /\ Head(answers).out = "interrupted" =>
         \A id \in Head(answers).ids \cap DOMAIN parked : parked[id].for \notin DOMAIN fd]_vars

(* What is read through a directory stream is one listing, each entry once, *)
(* however often the directory changes meanwhile -- if the stream got a     *)
(* snapshot.                                                                *)
StreamsAreOfOnePiece ==
    \A d \in Dirs : lister[d].at = "read" /\ Registered(d) /\ lister[d].got # <<>> =>
                       lister[d].got = lister[d].from

(* A client that asks hears of every change there is, with this answer or   *)
(* the next, or will see that the log began anew: all it ever misses is what *)
(* the bounded log had let go of before it asked, and what a log begun anew *)
(* numbers as the old one did what it has seen. One that watches has all    *)
(* since it began, in order, or finds them in its channel.                  *)
NothingIsSkipped ==
    /\ \A p \in Pullers : NoticesReset(p) \/ Missing(p) \subseteq lost[p]
    /\ \A c \in DOMAIN sub : sub[c].queue = [i \in 1..(told - sub[c].seen) |-> sub[c].seen + i]

(* Nothing is ever missed by a client that asks.                            *)
EveryChangeIsHeard == \A p \in Pullers : NoticesReset(p) \/ Missing(p) = {}

(* Every callback and every call is answered, and who hangs up gives the    *)
(* slot back (one that watches, with the next push) -- unless the mount     *)
(* ends.                                                                    *)
EverybodyIsAnswered ==
    /\ \A id \in 1..Tickets : id \in DOMAIN parked ~> (id \notin DOMAIN parked \/ Stopped)
    /\ \A c \in Conns : (conn[c].at = "calling" \/ (conn[c].gone /\ conn[c].at # "watching"))
                           ~> (conn[c].at \in {"serving", "watching", "over"} \/ Stopped)

(* However the session ends, the kernel's mount is gone when the process    *)
(* is, so that the next one can mount there.                                *)
NoStumpIsLeft == mount.process = "ended" => ~mount.mounted
=============================================================================
