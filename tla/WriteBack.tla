------------------------------ MODULE WriteBack -----------------------------
(***************************************************************************)
(* Write-back of one file: from the bytes a caller hands in to the version *)
(* on the server. Module Machine decides; here the jobs it hands out act   *)
(* on a concrete world -- the file's row, its scratch file, the durable    *)
(* record of an owed upload, the inbox of bytes, the server -- next to the *)
(* uploader thread, the syncer, other people and crashes.                  *)
(*                                                                         *)
(* A file's content is the set of edits made to it. Every save extends the *)
(* version it started from, so an edit missing from a later version was    *)
(* overwritten by somebody who had not seen it.                            *)
(*                                                                         *)
(* Not here: renames, deletes and truncations of the file, reads, the      *)
(* cache (a hydration yields either the version of the row or the          *)
(* server's), and listings older than the moment they are applied.         *)
(***************************************************************************)
EXTENDS Machine

CONSTANTS
    file, dir,      \* the file, and the directory that holds it
    Foreign,        \* edits other people make on the server
    Frontends,      \* how many callers hand in bytes at the same time
    Faults,         \* bound: steps that fail in passing, or whose answer is lost,
                    \* deletions by others, losses of the scratch directory
    Refusals,       \* bound: uploads the server refuses for good
    Crashes,        \* bound: crashes of the daemon
    Troubles,       \* bound: all of these together
    TextMerge,      \* [sync] text_merge
    Perils          \* which perils the instance includes, see below

\* "edit over owed"    -- after a restart a file is written whose upload is
\*                        still owed and was not resumed
\* "foreign delete"    -- others delete a file that is edited here, or a listing
\*                        finds it deleted
\* "hydration fails"   -- the transfer that fills a write buffer fails
\* "scratch lost"      -- somebody clears the scratch directory while it holds
\*                        what is not on the server
\* "number reused"     -- a creation gets the inode number of a file that is gone
\*                        while somebody still means that one by it (`inode` is
\*                        a plain INTEGER PRIMARY KEY: SQLite gives the largest
\*                        number out again)
AllPerils == {"edit over owed", "foreign delete", "hydration fails",
              "scratch lost", "number reused"}

ASSUME WorldAssumption == /\ Objects = {file, dir} /\ file # dir
                          /\ IsFiniteSet(Versions) /\ Versions # {}
                          /\ Versions = 1..Cardinality(Versions) /\ NoVersion = 0
                          /\ Foreign # {} /\ Foreign \cap Tickets = {}
ASSUME BoundsAssumption == {Frontends, Faults, Refusals, Crashes, Troubles} \subseteq Nat
ASSUME ChoicesAssumption == TextMerge \in BOOLEAN /\ Perils \subseteq AllPerils

Edits == Tickets \cup Foreign

VARIABLES
    row,      \* the file's row in the state database
    disk,     \* its scratch file
    owed,     \* its pending_uploads record
    looked,   \* a record the uploader has read and not yet handed on
    inbox,    \* bytes of writes, not yet taken by a WriteBuffer
    handing,  \* callers between putting bytes in the inbox and sending the request
    cloud,    \* the server: current version, what each version held, and the
              \* conflicted copies
    saved,    \* edits a flush has been answered for (history)
    theirs,   \* edits of others (history)
    unseen,   \* edits that met one without a base version, see Exposed (history)
    spent     \* what is used up of the bounds

world == <<row, disk, owed, inbox, cloud>>
wvars == <<vars, world, looked, handing, saved, theirs, unseen, spent>>

NoRecord  == [state |-> "no", base |-> NoVersion]
NoScratch == [there |-> FALSE, bytes |-> {}]
Scratch(bytes) == [there |-> TRUE, bytes |-> bytes]

WorldOK ==
    /\ row \in [here : BOOLEAN, id : BOOLEAN, sized : BOOLEAN, etag : Versions \cup {NoVersion}]
    /\ disk \in [there : BOOLEAN, bytes : SUBSET Edits]
    /\ owed \in [state : {"no", "pending", "error"}, base : Versions \cup {NoVersion}]
    /\ looked \in [state : {"no", "pending"}, base : Versions \cup {NoVersion}]
    /\ inbox \in Seq(Tickets) /\ handing \subseteq Tickets
    /\ cloud \in [etag : Versions \cup {NoVersion}, newest : Versions \cup {NoVersion},
                  held : [Versions \cup {NoVersion} -> SUBSET Edits],
                  copies : SUBSET SUBSET Edits]
    /\ saved \subseteq Edits /\ theirs \subseteq Edits

OnServer == cloud.held[cloud.etag]

\* The edits of others are alike, so which comes first makes no difference.
NextOf(edits) == CHOOSE e \in edits : TRUE

\* Either the file is on the server and listed, with somebody's content, or it
\* is nowhere yet.
WInit ==
    /\ Init
    /\ \E first \in {{}, {NextOf(Foreign)}} :
          LET v == Cardinality(first) IN
             /\ row = [here |-> v = 1, id |-> v = 1, sized |-> v = 1, etag |-> v]
             /\ cloud = [etag |-> v, newest |-> v, copies |-> {},
                         held |-> [e \in Versions \cup {NoVersion} |-> IF e = 1 THEN first ELSE {}]]
             /\ theirs = first
    /\ disk = NoScratch /\ owed = NoRecord /\ looked = NoRecord
    /\ inbox = <<>> /\ handing = {} /\ saved = {} /\ unseen = {}
    /\ spent = [faults |-> 0, refusals |-> 0, crashes |-> 0]

Spend(what, limit) ==
    /\ spent[what] < limit /\ spent.faults + spent.refusals + spent.crashes < Troubles
    /\ spent' = [spent EXCEPT ![what] = @ + 1]

-----------------------------------------------------------------------------
(* Callers (SubmitHandle). The bytes of a write go into the inbox first,   *)
(* then the request goes to the decider: two steps, and another frontend   *)
(* may come in between.                                                    *)

\* A caller has the file's inode number once its creation is answered; it
\* creates a file where it found none.
Known == (row.here \/ buffer[file].open) /\ flow[dir].intent.kind # "Materialise"

\* A scratch file that outlived a restart and was not resumed is written to.
OverOwed == owed.state # "no" /\ ~buffer[file].open
MayWrite == ~OverOwed \/ "edit over owed" \in Perils

HandsBytes(t) ==
    /\ reply[t] = "new" /\ t \notin handing
    /\ Known /\ MayWrite
    /\ Cardinality(handing) < Frontends
    /\ Frontends = 1 => IsNext(t)
    /\ inbox' = Append(inbox, t)
    /\ handing' = handing \cup {t}
    /\ UNCHANGED <<vars, row, disk, owed, cloud, looked, saved, theirs, spent>>

\* Nobody means anything by the file's inode number.
Unused == ~Busy(file) /\ handing = {} /\ looked = NoRecord

Sends(t, a) ==
    /\ Receives(t, a)
    /\ t \in handing <=> a.intent.kind = "Write"
    /\ a.intent.kind = "Materialise" => /\ ~row.here /\ ~buffer[file].open
                                        /\ Unused \/ "number reused" \in Perils
    /\ a.intent.kind \notin {"Write", "Materialise"} => Known
    /\ handing' = handing \ {t}
    /\ UNCHANGED <<world, looked, saved, theirs, spent>>

-----------------------------------------------------------------------------
(* Jobs (Worker::run). A job fails in passing at most Faults times.        *)

Runs(o, op) == Busy(o) /\ ~Parked(o) /\ flow[o].job.op = op

Success        == Came("Done", NoNode, NoVersion, "None")
Failure(why)   == Came("Failed", NoNode, NoVersion, why)

\* The row as the machine gets to see it (present, facts_for). While there is
\* a scratch file, its length is the file's size.
Presented ==
    IF ~row.here THEN NoNode
    ELSE [id |-> file, parent |-> dir, etag |-> row.etag,
          is |-> {"found", "writable"}
                 \cup (IF IF disk.there THEN disk.bytes # {} ELSE row.sized
                       THEN {"nonempty"} ELSE {})
                 \cup (IF row.id \/ row.etag # NoVersion THEN {"materialised"} ELSE {})
                 \cup (IF row.id THEN {"identified"} ELSE {})]

ReadsRow(o) ==
    /\ Runs(o, "ReadNode") \/ Runs(o, "ReadChild")
    /\ Finishes(o, Came("Node", Presented, NoVersion, "None"))
    /\ UNCHANGED <<world, looked, handing, saved, theirs, spent>>

\* The row of a creation: no id, no version. The name is taken if there is one.
InsertNode(o) ==
    /\ Runs(o, "InsertNode")
    /\ IF row.here THEN Finishes(o, Failure("Io")) /\ UNCHANGED row
       ELSE /\ Finishes(o, Success)
            /\ row' = [here |-> TRUE, id |-> FALSE, sized |-> FALSE, etag |-> NoVersion]
    /\ UNCHANGED <<disk, owed, inbox, cloud, looked, handing, saved, theirs, spent>>

CreateBuffer(o) ==
    /\ Runs(o, "CreateBuffer")
    /\ Finishes(o, Success)
    /\ disk' = Scratch({})
    /\ UNCHANGED <<row, owed, inbox, cloud, looked, handing, saved, theirs, spent>>

\* The scratch file is truncated first. What fills it is the cached copy of
\* the row's version, or what the server has now; if neither is to be had, or
\* the transfer breaks off, the truncated file stays.
HydrateBuffer ==
    /\ Runs(file, "HydrateBuffer")
    /\ \/ /\ row.here
          /\ \E v \in {row.etag, cloud.etag} \ {NoVersion} :
                disk' = Scratch(cloud.held[v])
          /\ Finishes(file, Success)
          /\ UNCHANGED spent
       \/ /\ row.here
          /\ "hydration fails" \in Perils
          /\ Spend("faults", Faults)
          /\ disk' = Scratch({})
          /\ Finishes(file, Failure("Io"))
    /\ UNCHANGED <<row, owed, inbox, cloud, looked, handing, saved, theirs>>

\* The oldest bytes in the inbox are taken, whoever handed them in.
WriteBuffer ==
    /\ Runs(file, "WriteBuffer")
    /\ IF inbox # <<>> /\ disk.there
       THEN disk' = Scratch(disk.bytes \cup {Head(inbox)}) /\ Finishes(file, Success)
       ELSE UNCHANGED disk /\ Finishes(file, Failure("Io"))
    /\ inbox' = IF inbox = <<>> THEN <<>> ELSE Tail(inbox)
    /\ UNCHANGED <<row, owed, cloud, looked, handing, saved, theirs, spent>>

\* From here on a flush is answered: what the buffer adds to its base is saved.
MarkPending ==
    /\ Runs(file, "MarkPending")
    /\ Finishes(file, Success)
    /\ owed' = [state |-> "pending", base |-> buffer[file].base]
    /\ row' = [row EXCEPT !.sized = IF disk.there THEN disk.bytes # {} ELSE @]
    /\ saved' = saved \cup (disk.bytes \ cloud.held[buffer[file].base])
    /\ UNCHANGED <<disk, inbox, cloud, looked, handing, theirs, spent>>

BufferSize ==
    /\ Runs(file, "BufferSize")
    /\ Finishes(file, IF disk.there THEN Success ELSE Failure("Permanent"))
    /\ UNCHANGED <<world, looked, handing, saved, theirs, spent>>

-----------------------------------------------------------------------------
(* The server, as the jobs that talk to it use it.                         *)

Put(bytes) == [cloud EXCEPT !.etag = cloud.newest + 1, !.newest = @ + 1,
                            !.held[cloud.newest + 1] = bytes]
CanPut == cloud.newest + 1 \in Versions

Accepts(pre) == CASE pre = "MustNotExist"  -> cloud.etag = NoVersion
                  [] pre = "Match"         -> cloud.etag = buffer[file].base
                  [] pre = "Unconditional" -> TRUE

\* The answer of an upload that landed may be lost on its way back.
Upload ==
    /\ Runs(file, "Upload")
    /\ LET pre == Precondition(flow[file].node, buffer[file])
       IN  \/ /\ row.here /\ disk.there /\ Accepts(pre) /\ CanPut
              /\ cloud' = Put(disk.bytes)
              /\ \/ Finishes(file, Came("Uploaded", NoNode, cloud.newest + 1, "None"))
                    /\ UNCHANGED spent
                 \/ Finishes(file, Failure("Io")) /\ Spend("faults", Faults)
           \/ /\ row.here /\ disk.there /\ ~Accepts(pre)
              /\ Finishes(file, Came("Rejected", NoNode, NoVersion, "None"))
              /\ UNCHANGED <<cloud, spent>>
           \/ /\ ~row.here \/ ~disk.there
              /\ Finishes(file, Failure("Io"))
              /\ UNCHANGED <<cloud, spent>>
    /\ UNCHANGED <<row, disk, owed, inbox, looked, handing, saved, theirs>>

\* Every change of a directory's members keeps listings of it away, and a file
\* that is being changed keeps its row (reconcile_if_quiet).
Changing(o) == Busy(o) /\ ChangesState(flow[o].intent)

\* A listing meets the row (reconcile_children_except): a file that is gone
\* from the server goes, and its owed upload with it, unless it was never there.
Vanishes(r, c) == r.here /\ c.etag = NoVersion /\ r.id

Listed(r, c) ==
    IF r.here /\ c.etag # NoVersion
    THEN [r EXCEPT !.id = TRUE, !.etag = c.etag, !.sized = c.held[c.etag] # {}]
    ELSE IF Vanishes(r, c) THEN [r EXCEPT !.here = FALSE] ELSE r

\* The relist a file's own flow asks for, of the server as the job has left it;
\* dropped if the directory is changing.
Relists(r) ==
    IF Changing(dir) THEN row' = r /\ UNCHANGED owed
    ELSE /\ row' = Listed(r, cloud')
         /\ owed' = IF Vanishes(r, cloud') THEN NoRecord ELSE owed

ListRemote ==
    /\ Runs(file, "ListRemote")
    /\ UNCHANGED <<disk, inbox, cloud, looked, handing, saved, theirs, spent>>
    /\ Relists(row)
    /\ Finishes(file, Success)

-----------------------------------------------------------------------------
(* The conflict sub-script (run_conflict_resolution): settle what is no    *)
(* conflict, else merge, else put our bytes beside the server's.           *)

SameBytes == cloud.etag # NoVersion /\ OnServer = disk.bytes
EmptyOfOurs == /\ cloud.etag # NoVersion /\ OnServer = {} /\ ~SameBytes
               /\ ~row.id /\ row.etag = NoVersion
Settled == SameBytes \/ EmptyOfOurs

\* A three-way merge needs the version the edit started from, and then keeps
\* what both have and what either added to that version.
Mergeable == TextMerge /\ ~Settled /\ cloud.etag # NoVersion /\ buffer[file].base # NoVersion
Merged == LET base == cloud.held[buffer[file].base]
          IN  (OnServer \cap disk.bytes) \cup ((OnServer \cup disk.bytes) \ base)

Adopting(etag) == [row EXCEPT !.etag = etag, !.sized = disk.bytes # {}]

Settles ==
    /\ \/ SameBytes /\ UNCHANGED cloud
       \/ EmptyOfOurs /\ CanPut /\ cloud' = Put(disk.bytes)
    /\ \/ Relists(Adopting(cloud'.etag)) /\ UNCHANGED spent
       \/ row' = Adopting(cloud'.etag) /\ UNCHANGED owed /\ Spend("faults", Faults)
    /\ Finishes(file, Success)

Merges ==
    /\ Mergeable /\ CanPut
    /\ cloud' = Put(Merged)
    /\ row' = [row EXCEPT !.etag = cloud.newest + 1, !.sized = Merged # {}]
    /\ Finishes(file, Success)
    /\ UNCHANGED <<owed, spent>>

\* What settles or merges lands, but its answer is lost.
LandsUnanswered ==
    /\ CanPut
    /\ \/ EmptyOfOurs /\ cloud' = Put(disk.bytes)
       \/ Mergeable /\ cloud' = Put(Merged)
    /\ Spend("faults", Faults)
    /\ Finishes(file, Failure("Io"))
    /\ UNCHANGED <<row, owed>>

\* If the relist fails the step fails, and its retry makes a second copy.
Copies ==
    /\ ~Settled
    /\ cloud' = [cloud EXCEPT !.copies = @ \cup {disk.bytes}]
    /\ \/ Relists(row) /\ Finishes(file, Success) /\ UNCHANGED spent
       \/ /\ Spend("faults", Faults) /\ Finishes(file, Failure("Io")) /\ UNCHANGED <<row, owed>>

ResolveConflict ==
    /\ Runs(file, "ResolveConflict")
    /\ UNCHANGED <<disk, inbox, looked, handing, saved, theirs>>
    /\ \/ row.here /\ disk.there /\ (Settles \/ Merges \/ LandsUnanswered \/ Copies)
       \/ /\ ~row.here \/ ~disk.there
          /\ Finishes(file, Failure("Io"))
          /\ UNCHANGED <<row, owed, cloud, spent>>

\* The size is that of the upload, not of a scratch file that may be gone.
RecordVersion ==
    /\ Runs(file, "RecordVersion")
    /\ row' = [row EXCEPT !.etag = flow[file].etag,
                          !.sized = cloud.held[flow[file].etag] # {}]
    /\ Finishes(file, Success)
    /\ UNCHANGED <<disk, owed, inbox, cloud, looked, handing, saved, theirs, spent>>

StoreBlob ==
    /\ Runs(file, "StoreBlob")
    /\ Finishes(file, IF row.here /\ disk.there THEN Success ELSE Failure("Io"))
    /\ UNCHANGED <<world, looked, handing, saved, theirs, spent>>

ClearPending ==
    /\ Runs(file, "ClearPending")
    /\ owed' = NoRecord
    /\ Finishes(file, Success)
    /\ UNCHANGED <<row, disk, inbox, cloud, looked, handing, saved, theirs, spent>>

SetUploadError ==
    /\ Runs(file, "SetUploadError")
    /\ owed' = IF owed.state = "no" THEN owed ELSE [owed EXCEPT !.state = "error"]
    /\ Finishes(file, Success)
    /\ UNCHANGED <<row, disk, inbox, cloud, looked, handing, saved, theirs, spent>>

DiscardBuffer ==
    /\ Runs(file, "DiscardBuffer")
    /\ disk' = NoScratch
    /\ Finishes(file, Success)
    /\ UNCHANGED <<row, owed, inbox, cloud, looked, handing, saved, theirs, spent>>

\* Any job can fail in passing before it did anything; a write has taken its
\* bytes from the inbox by then. The server refuses an upload for good.
FailsInPassing(o) ==
    /\ Busy(o) /\ ~Parked(o)
    /\ \/ /\ "Io" \in MayFail(flow[o].job.op) /\ flow[o].job.op # "HydrateBuffer"
          /\ Spend("faults", Faults)
          /\ Finishes(o, Failure("Io"))
       \/ /\ flow[o].job.op \in {"Upload", "ResolveConflict"}
          /\ Spend("refusals", Refusals)
          /\ Finishes(o, Failure("Permanent"))
    /\ inbox' = IF flow[o].job.op = "WriteBuffer" /\ inbox # <<>> THEN Tail(inbox) ELSE inbox
    /\ UNCHANGED <<row, disk, owed, cloud, looked, handing, saved, theirs>>

Works(o) == \/ ReadsRow(o) \/ InsertNode(o) \/ CreateBuffer(o)
            \/ /\ o = file
               /\ \/ HydrateBuffer \/ WriteBuffer \/ MarkPending \/ BufferSize
                  \/ Upload \/ ListRemote \/ ResolveConflict \/ RecordVersion
                  \/ StoreBlob \/ ClearPending \/ SetUploadError \/ DiscardBuffer
            \/ FailsInPassing(o)

-----------------------------------------------------------------------------
(* The uploader (uploader_loop). It reads the records in one step and      *)
(* hands each on in another; the decider may get anywhere in between.      *)

\* A bug to catch: parked records are sent again and again as well.
UploaderReadsParked ==
    /\ looked = NoRecord
    /\ owed.state # "no"
    /\ row.here /\ disk.there
    /\ looked' = owed
    /\ UNCHANGED <<vars, world, handing, saved, theirs, spent>>

UploaderReads ==
    /\ looked = NoRecord
    /\ owed.state = "pending"
    /\ row.here /\ disk.there
    /\ looked' = owed
    /\ UNCHANGED <<vars, world, handing, saved, theirs, spent>>

\* A record whose file is gone is dropped. One whose bytes are gone is dropped
\* if it was a creation that landed, and parked otherwise (resolve_lost_buffer).
Landed == owed.base = NoVersion /\ row.etag # NoVersion

UploaderResolves ==
    /\ looked = NoRecord
    /\ owed.state = "pending"
    /\ ~row.here \/ ~disk.there
    /\ owed' = IF ~row.here \/ Landed THEN NoRecord ELSE [owed EXCEPT !.state = "error"]
    /\ UNCHANGED <<vars, row, disk, inbox, cloud, looked, handing, saved, theirs, spent>>

\* Event::ResumeUpload. After a restart the record says what the buffer was.
\* A bug to catch: it takes the base version from the row, as a write would.
ResumedBufferFromRow ==
    IF buffer[file].open THEN buffer[file]
    ELSE [NoBuffer EXCEPT !.open = TRUE, !.dirty = TRUE, !.base = row.etag]

ResumedBuffer ==
    IF buffer[file].open THEN buffer[file]
    ELSE [NoBuffer EXCEPT !.open = TRUE, !.dirty = TRUE, !.base = looked.base]

\* A bug to catch: an open buffer is taken for an upload under way.
ResumableIfClosed == ~Busy(file) /\ ~buffer[file].open

Resumable == ~Busy(file)

Resume ==
    /\ looked # NoRecord
    /\ looked' = NoRecord
    /\ IF Resumable
       THEN /\ buffer' = [buffer EXCEPT ![file] = ResumedBuffer]
            /\ flow' = [flow EXCEPT ![file] = Start(file, Publishing, Nobody, ResumedBuffer)]
       ELSE UNCHANGED <<buffer, flow>>
    /\ UNCHANGED <<queue, beside, posted, reply, abandoned, unsent,
                   world, handing, saved, theirs, spent>>

-----------------------------------------------------------------------------
(* The rest of the world.                                                  *)

\* Somebody here edits the file, or its upload is still owed.
InHand == Busy(file) \/ handing # {} \/ buffer[file].open \/ owed.state # "no"

\* A listing beside the machine: the syncer's walk, a refresh, somebody's ls.
Walk ==
    /\ ~Changing(dir) /\ ~Changing(file)
    /\ row.here
    /\ row' = Listed(row, cloud)
    /\ owed' = IF Vanishes(row, cloud) THEN NoRecord ELSE owed
    /\ row' # row
    /\ Vanishes(row, cloud) /\ InHand => "foreign delete" \in Perils
    /\ UNCHANGED <<vars, disk, inbox, cloud, looked, handing, saved, theirs, spent>>

\* Somebody else saves the file, having seen its current version, or creates it.
ForeignSave ==
    /\ CanPut
    /\ LET new == Foreign \ UNION {cloud.held[v] : v \in Versions} IN
          /\ new # {}
          /\ theirs' = theirs \cup {NextOf(new)}
          /\ cloud' = Put(OnServer \cup {NextOf(new)})
    /\ UNCHANGED <<vars, row, disk, owed, inbox, looked, handing, saved, spent>>

\* Somebody else deletes the file, and with it on purpose what it held.
ForeignDelete ==
    /\ cloud.etag # NoVersion
    /\ InHand => "foreign delete" \in Perils
    /\ cloud' = [cloud EXCEPT !.etag = NoVersion]
    /\ saved' = saved \ OnServer
    /\ theirs' = theirs \ OnServer
    /\ Spend("faults", Faults)
    /\ UNCHANGED <<vars, row, disk, owed, inbox, looked, handing>>

ScratchLost ==
    /\ disk.there
    /\ disk.bytes \subseteq OnServer \/ "scratch lost" \in Perils
    /\ disk' = NoScratch
    /\ Spend("faults", Faults)
    /\ UNCHANGED <<vars, row, owed, inbox, cloud, looked, handing, saved, theirs>>

\* What start-up keeps (Provider's start-up sweep, remove_unmaterialized_files).
\* A bug to catch: scratch is garbage, as it was before uploads were deferred.
ScratchAtStartSwept == NoScratch

ScratchAtStart == IF owed.state # "no" THEN disk ELSE NoScratch
RowAtStart == IF ~row.id /\ owed.state = "no" THEN [row EXCEPT !.here = FALSE] ELSE row

\* The daemon is killed and starts again: what was only in memory is gone, and
\* every caller gets an error from the kernel.
Crash ==
    /\ Spend("crashes", Crashes)
    /\ flow' = [o \in Objects |-> IdleFlow]
    /\ queue' = [o \in Objects |-> <<>>]
    /\ buffer' = [o \in Objects |-> NoBuffer]
    /\ beside' = {} /\ posted' = <<>> /\ unsent' = {}
    /\ reply' = Answered(handing \cup {t \in Tickets : reply[t] = "open"}, "Io")
    /\ inbox' = <<>> /\ handing' = {} /\ looked' = NoRecord
    /\ disk' = ScratchAtStart
    /\ row' = RowAtStart
    /\ UNCHANGED <<abandoned, owed, cloud, saved, theirs>>

\* Nobody waits for an answer, nothing runs and the uploader has nothing to do.
WRest == /\ \A t \in Tickets : reply[t] # "open"
         /\ handing = {}
         /\ \A o \in Objects : ~Busy(o)
         /\ looked = NoRecord /\ owed.state # "pending"
         /\ UNCHANGED wvars

\* An edit of a new file has no base version. Once the row is known to be on the
\* server, by a listing say, the upload asks for nothing, and overwrites what others
\* have put there and the buffer has not got.
NoBase == \/ buffer[file].open /\ buffer[file].base = NoVersion
          \/ owed.state # "no" /\ owed.base = NoVersion

Exposed == IF NoBase /\ row.here /\ (row.id \/ row.etag # NoVersion)
           THEN OnServer \ disk.bytes ELSE {}

Acts  == \/ \E t \in Tickets : HandsBytes(t) \/ \E a \in Asks : Sends(t, a)
         \/ \E o \in Objects : Works(o)
         \/ UploaderReads \/ UploaderResolves \/ Resume
         \/ Walk \/ ForeignSave \/ ForeignDelete \/ ScratchLost \/ Crash
         \/ WRest

Tells == unseen' = unseen \cup Exposed'

WNext == Acts /\ Tells

WSpec == WInit /\ [][WNext]_wvars

\* Jobs come back, the decider reads its inbox, and the uploader makes its
\* passes (its interval is capped).
FairWSpec == /\ WSpec
             /\ \A o \in Objects : WF_wvars(Works(o) /\ Tells)
             /\ WF_wvars(UploaderReads /\ Tells)
             /\ WF_wvars(UploaderResolves /\ Tells)
             /\ WF_wvars(Resume /\ Tells)

-----------------------------------------------------------------------------
(* Properties.                                                             *)

InCopies(e) == \E c \in cloud.copies : e \in c

\* An edit whose flush was answered is never lost: it is in the server's
\* current version, in a conflicted copy, or in a scratch file that a durable
\* record still owes to the server -- unless it was on the server when the row
\* of an edit without a base version was found to be there.
SavedIsSomewhere == \A e \in saved \ unseen :
    \/ e \in OnServer
    \/ InCopies(e)
    \/ owed.state # "no" /\ e \in disk.bytes

\* What others saved is never overwritten by somebody who had not seen it, with
\* the same exception: it takes an edit of a new file, made here and there.
TheirsAreKept == \A e \in theirs \ unseen : e \in OnServer \/ InCopies(e)

\* The exception, and there is none.
NothingIsUnseen == unseen = {}

\* An upload asserts to have started from the version recorded as its base;
\* so while that is the server's version the buffer must really hold what it
\* held. Otherwise the server accepts an overwrite it was asked to prevent.
BaseIsInTheBuffer ==
    buffer[file].open /\ disk.there /\ buffer[file].base = cloud.etag /\ cloud.etag # NoVersion
        => OnServer \ unseen \subseteq disk.bytes

\* The bytes a write puts into the buffer are its caller's own: writes of one
\* object are run in the order in which their bytes arrived.
WritesOwnBytes ==
    flow[file].job.op = "WriteBuffer"
        => inbox # <<>> /\ flow[file].waiters \subseteq {Head(inbox)}

\* An owed upload is sent, resolved or parked: it is not owed for ever.
OwedIsSettled == owed.state = "pending" ~> owed.state # "pending"

=============================================================================
