------------------------------ MODULE Machine -------------------------------
(***************************************************************************)
(* The switchboard of wusel-fsm/src/machine.rs, and the part of the        *)
(* decider loop of wusel-core/src/runtime.rs that feeds it: which flow an  *)
(* object is busy with, who waits on it, who queues behind it, and the     *)
(* work the decider schedules for itself.                                  *)
(*                                                                         *)
(* A step of this module is one entry point of the machine (on_request,    *)
(* abandon, on_completion, on_beside) run to its end, as the single        *)
(* decider thread runs it. The workers are the environment: a job that is  *)
(* out comes back with any completion the worker can produce for it.       *)
(*                                                                         *)
(* Tickets are numbered in the order their requests reach the decider.     *)
(***************************************************************************)
EXTENDS Script, Sequences, SequencesExt

CONSTANTS
    Rows,          \* the rows a read may find: ReadNode by `id`, ReadChild by
                   \* `parent`
    Asks,          \* the [on, intent] pairs callers may submit
    AsyncUpload,   \* Machine::async_upload
    AbandonKinds   \* kinds of request whose caller may give up

ASSUME TicketsAreNumbered == Tickets \subseteq Nat
ASSUME RowsAssumption ==
    /\ Rows \subseteq Node
    /\ \A n \in Rows : n.id \in Objects /\ n.parent # n.id /\ "found" \in n.is
ASSUME AsksAssumption ==
    /\ Asks \subseteq [on : Objects, intent : Intent]
    /\ \A a \in Asks : /\ a.intent.kind \notin {"Relocate", "Delete"}
                       /\ a.intent.from = NoObject
ASSUME AsyncAssumption == AsyncUpload \in BOOLEAN
ASSUME AbandonAssumption == AbandonKinds \subseteq Kinds

VARIABLES
    flow,       \* Machine::busy, the running flow of each object
    queue,      \* Busy::queue, what waits behind it
    beside,     \* Machine::beside, reads that run next to a busy object
    buffer,     \* Machine::registry
    posted,     \* scheduled requests on their way back to the decider
    reply,      \* what each caller was answered (history)
    abandoned,  \* callers that gave up (history)
    unsent      \* objects whose buffer holds an edit the server has not got
                \* and nobody asked to drop (history)

vars == <<flow, queue, beside, buffer, posted, reply, abandoned, unsent>>

Request == [id : Tickets \cup {Nobody}, intent : Intent]

\* The one request the decider schedules for itself (Action::Schedule).
Publishing == [NoIntent EXCEPT !.kind = "Publish"]

Outcomes == {"Ok"} \cup Failures

\* The variables hold what the code's types admit. (machine.rs Machine, Flow,
\* Request; registry.rs.)
TypeOK ==
    /\ flow \in [Objects -> Flow]
    /\ queue \in [Objects -> Seq(Request)]
    /\ beside \subseteq [id : Tickets, on : Objects, intent : Intent]
    /\ buffer \in [Objects -> Buffer]
    /\ posted \in Seq([on : Objects, intent : {Publishing}])
    /\ reply \in [Tickets -> {"new", "open"} \cup Outcomes]
    /\ abandoned \subseteq Tickets
    /\ unsent \subseteq Objects \cup {NoObject}

Init ==
    /\ flow = [o \in Objects |-> IdleFlow]
    /\ queue = [o \in Objects |-> <<>>]
    /\ beside = {}
    /\ buffer = [o \in Objects |-> NoBuffer]
    /\ posted = <<>>
    /\ reply = [t \in Tickets |-> "new"]
    /\ abandoned = {}
    /\ unsent = {}

Busy(o)   == flow[o].step # "Idle"
Parked(o) == flow[o].step = "Handover"
Answered(S, outcome) == [t \in Tickets |-> IF t \in S THEN outcome ELSE reply[t]]

-----------------------------------------------------------------------------
(* Releasing an object (the loop of settle). Queued publishes of an object *)
(* without a buffer need no job and are answered on the way; the first     *)
(* other request starts the object's next flow.                            *)

NeedsAJob(o, b) == {k \in DOMAIN queue[o] : ~AtOnce(queue[o][k].intent, b)}
NextUp(o, b) == CHOOSE k \in NeedsAJob(o, b) : \A j \in NeedsAJob(o, b) : k <= j

FlowReleased(o, b) ==
    IF NeedsAJob(o, b) = {} THEN IdleFlow
    ELSE LET r == queue[o][NextUp(o, b)] IN Start(o, r.intent, r.id, b)

\* Bugs to catch: the request that starts stays queued; the loop stops after
\* the first request it answers on the way.
QueueReleasedKeepingItsHead(o, b) ==
    IF NeedsAJob(o, b) = {} THEN <<>> ELSE SubSeq(queue[o], NextUp(o, b), Len(queue[o]))
QueueReleasedOneByOne(o, b) ==
    IF NeedsAJob(o, b) = {} THEN SubSeq(queue[o], 2, Len(queue[o]))
    ELSE SubSeq(queue[o], NextUp(o, b) + 1, Len(queue[o]))

QueueReleased(o, b) ==
    IF NeedsAJob(o, b) = {} THEN <<>>
    ELSE SubSeq(queue[o], NextUp(o, b) + 1, Len(queue[o]))

\* A bug to catch: what needs no job is dropped instead of answered.
AnsweredOnReleaseNobody(o, b) == {}

AnsweredOnRelease(o, b) ==
    {queue[o][k].id : k \in {k \in DOMAIN queue[o] :
        \A j \in NeedsAJob(o, b) : k < j}}

\* A bug to catch: the parent of a hand-over is never released.
ParkedOnNothing(i) == {}

\* The objects that go idle when a flow with intent i ends on o, or leaves o's
\* queue: o itself in the first case, and the directory parked on it.
ParkedOn(i) == {p \in Objects : p = i.from /\ Parked(p)}

-----------------------------------------------------------------------------
(* A request meets an object (request, begin, begin_beside).               *)

Begins(o, r) ==
    /\ ~Busy(o)
    /\ ~AtOnce(r.intent, buffer[o])
    /\ flow' = [flow EXCEPT ![o] = Start(o, r.intent, r.id, buffer[o])]
    /\ reply' = Answered({r.id}, "open")
    /\ UNCHANGED <<queue, beside>>

IsDoneAtOnce(o, r) ==
    /\ ~Busy(o)
    /\ AtOnce(r.intent, buffer[o])
    /\ reply' = Answered({r.id}, "Ok")
    /\ UNCHANGED <<flow, queue, beside>>

ReadsBeside(o, r) ==
    /\ Busy(o)
    /\ r.intent.kind \in {"Stat", "State"}
    /\ beside' = beside \cup {[id |-> r.id, on |-> o, intent |-> r.intent]}
    /\ reply' = Answered({r.id}, "open")
    /\ UNCHANGED <<flow, queue>>

Collides(o, r, how) ==
    /\ Busy(o)
    /\ r.intent.kind \notin {"Stat", "State"}
    /\ Collision(flow[o], r.intent, buffer[o]) = how

\* A bug to catch: the newest goes first.
QueuesInFront(o, r) ==
    /\ Collides(o, r, "Queue")
    /\ queue' = [queue EXCEPT ![o] = <<r>> \o @]
    /\ reply' = Answered({r.id}, "open")
    /\ UNCHANGED <<flow, beside>>

\* A flow that was given up takes no new riders.
Queues(o, r) ==
    /\ \/ Collides(o, r, "Queue")
       \/ Collides(o, r, "Join") /\ flow[o].abort
    /\ queue' = [queue EXCEPT ![o] = Append(@, r)]
    /\ reply' = Answered({r.id}, "open")
    /\ UNCHANGED <<flow, beside>>

\* A bug to catch: joining whatever runs.
JoinsTheDying(o, r) ==
    /\ Collides(o, r, "Join")
    /\ flow' = [flow EXCEPT ![o].waiters = @ \cup {r.id}]
    /\ reply' = Answered({r.id}, "open")
    /\ UNCHANGED <<queue, beside>>

Joins(o, r) ==
    /\ Collides(o, r, "Join")
    /\ ~flow[o].abort
    /\ flow' = [flow EXCEPT ![o].waiters = @ \cup {r.id}]
    /\ reply' = Answered({r.id}, "open")
    /\ UNCHANGED <<queue, beside>>

Aborts(o, r) ==
    /\ Collides(o, r, "Abort")
    /\ flow' = [flow EXCEPT ![o].abort = TRUE]
    /\ queue' = [queue EXCEPT ![o] = Append(@, r)]
    /\ reply' = Answered({r.id}, "open")
    /\ UNCHANGED beside

Skips(o, r) ==
    /\ Collides(o, r, "Skip")
    /\ reply' = Answered({r.id}, "Ok")
    /\ UNCHANGED <<flow, queue, beside>>

Arrives(o, r) == \/ Begins(o, r)
                 \/ IsDoneAtOnce(o, r)
                 \/ ReadsBeside(o, r)
                 \/ Queues(o, r)
                 \/ Joins(o, r)
                 \/ Aborts(o, r)
                 \/ Skips(o, r)

\* A caller learns the inode number of a file from the answer to its creation:
\* nobody asks anything of it before.
BeingCreated(o) == \E p \in Objects : flow[p].step = "MatBuffer" /\ flow[p].node.id = o

\* Requests reach the decider in the order of their tickets.
IsNext(t) == reply[t] = "new" /\ \A s \in Tickets : s < t => reply[s] # "new"

Receives(t, a) ==
    /\ IsNext(t)
    /\ ~BeingCreated(a.on)
    /\ Arrives(a.on, [id |-> t, intent |-> a.intent])
    /\ UNCHANGED <<buffer, posted, abandoned, unsent>>

Submit(t) == \E a \in Asks : Receives(t, a)

\* Action::Schedule came back through the decider's own channel.
Deliver ==
    /\ posted # <<>>
    /\ Arrives(Head(posted).on, [id |-> Nobody, intent |-> Head(posted).intent])
    /\ posted' = Tail(posted)
    /\ UNCHANGED <<buffer, abandoned, unsent>>

-----------------------------------------------------------------------------
(* A caller gives up (abandon). Reads beside are not looked for: they are  *)
(* answered when they come back.                                           *)

\* A bug to catch: one caller leaving stops the flow for all.
AbandonRiderForAll(t, o) ==
    /\ t \in flow[o].waiters
    /\ flow[o].intent.kind \in AbandonKinds
    /\ flow' = [flow EXCEPT ![o].waiters = @ \ {t}, ![o].abort = TRUE]
    /\ reply' = Answered({t}, "Interrupted")
    /\ UNCHANGED queue

AbandonRider(t, o) ==
    /\ t \in flow[o].waiters
    /\ flow[o].intent.kind \in AbandonKinds
    /\ flow' = [flow EXCEPT ![o].waiters = @ \ {t},
                            ![o].abort = @ \/ flow[o].waiters = {t}]
    /\ reply' = Answered({t}, "Interrupted")
    /\ UNCHANGED queue

\* A hand-over that never got to run still has its parent parked on it.
AbandonQueued(t, o) ==
    \E k \in DOMAIN queue[o] :
        /\ queue[o][k].id = t
        /\ queue[o][k].intent.kind \in AbandonKinds
        /\ LET freed == ParkedOn(queue[o][k].intent)
           IN  /\ flow' = [p \in Objects |-> IF p \in freed THEN FlowReleased(p, buffer[p])
                                                            ELSE flow[p]]
               /\ queue' = [p \in Objects |->
                               IF p \in freed THEN QueueReleased(p, buffer[p])
                               ELSE IF p = o THEN RemoveAt(queue[o], k)
                               ELSE queue[p]]
               /\ reply' = [Answered(UNION {AnsweredOnRelease(p, buffer[p]) : p \in freed}, "Ok")
                               EXCEPT ![t] = "Interrupted"]

Abandon(t) ==
    /\ reply[t] = "open"
    /\ \E o \in Objects : AbandonRider(t, o) \/ AbandonQueued(t, o)
    /\ abandoned' = abandoned \cup {t}
    /\ UNCHANGED <<beside, buffer, posted, unsent>>

-----------------------------------------------------------------------------
(* What a worker may bring back for a job (Worker::run and its helpers).   *)

MayFail(op) ==
    CASE op = "DiscardBuffer" -> {}
      [] op \in {"ReadBlob", "FetchRange"} -> {"Io", "Stale"}
      [] op \in {"BufferSize", "Upload", "ResolveConflict"} -> {"Io", "Permanent"}
      [] op \in {"InsertNode", "CreateRemoteDir", "MoveRemote", "MoveRows"} ->
            {"Io", "NotWritable"}
      [] OTHER -> {"Io"}

Came(kind, n, e, why) == [kind |-> kind, node |-> n, etag |-> e, why |-> why]

\* A creation looks up the row it has just inserted, under a new inode number
\* that nobody else uses or is given.
Children(f, o) ==
    {n \in Rows : /\ n.parent = o
                  /\ f.step = "MatLookup" =>
                        /\ ~Busy(n.id) /\ ~buffer[n.id].open /\ ~BeingCreated(n.id)
                        /\ ("dir" \in n.is) = ("dir" \in f.intent.asks)}

Completions(f) ==
    LET op == f.job.op
        rows == CASE op = "ReadNode"  -> {n \in Rows : n.id = f.job.on} \cup {NoNode}
                  [] op = "ReadChild" -> Children(f, f.job.on) \cup {NoNode}
                  [] OTHER -> {}
    IN  {Came("Failed", NoNode, NoVersion, why) : why \in MayFail(op)}
        \cup {Came("Node", n, NoVersion, "None") : n \in rows}
        \cup (IF op = "Upload"
              THEN {Came("Uploaded", NoNode, e, "None") : e \in Versions \cup {NoVersion}}
                   \cup {Came("Rejected", NoNode, NoVersion, "None")}
              ELSE {})
        \cup (IF op \in {"ReadNode", "ReadChild", "Upload"} THEN {}
              ELSE {Came("Done", NoNode, NoVersion, "None")})

-----------------------------------------------------------------------------
(* A job comes back (on_completion, settle). The registry is brought up to *)
(* date first, so the decision sees the world as it is.                    *)

BuffersAfter(o, c) ==
    [x \in Objects |-> IF x = flow[o].job.on /\ c.kind # "Failed"
                       THEN BufferAfter(flow[o], buffer[x])
                       ELSE buffer[x]]

\* History: an edit is made by a write, a truncate or a creation; it reaches
\* the server with the upload or the conflict resolution; it is dropped on
\* request with a delete, or when the row it belongs to is gone.
UnsentAfter(o, c) ==
    LET f  == flow[o]
        op == f.job.op
        made == op \in {"WriteBuffer", "TruncateBuffer"} \/ f.step = "MatBuffer"
        sent == c.kind = "Uploaded" \/ op = "ResolveConflict"
        dropped == \/ op = "DiscardBuffer" /\ f.intent.kind = "Delete"
                   \/ f.step = "PubDiscard" /\ f.node = NoNode /\ buffer[o].dirty
                   \/ op = "RemoveRows"
    IN  IF c.kind = "Failed" THEN unsent
        ELSE IF made THEN unsent \cup {f.job.on}
        ELSE IF sent \/ dropped THEN unsent \ {f.job.on}
        ELSE unsent

After(o, c) == Advance(o, flow[o], c, BuffersAfter(o, c)[o])

Continues(o, c) ==
    /\ After(o, c).then = "Do"
    /\ flow' = [flow EXCEPT ![o] = Moved(@, After(o, c))]
    /\ UNCHANGED <<queue, posted, reply>>

\* The change is durable: with asynchronous write-back everyone waiting is
\* answered now and the flow goes on with nobody waiting.
Commits(o, c) ==
    /\ After(o, c).then = "AnswerThen"
    /\ LET f == Moved(flow[o], After(o, c))
       IN  IF AsyncUpload
           THEN /\ flow' = [flow EXCEPT ![o] = [f EXCEPT !.waiters = {}]]
                /\ reply' = Answered(f.waiters, "Ok")
           ELSE /\ flow' = [flow EXCEPT ![o] = f]
                /\ UNCHANGED reply
    /\ UNCHANGED <<queue, posted>>

\* The flow stays parked on o; its rider goes on to the child, as a request
\* that meets whatever the child is doing.
HandsOver(o, c) ==
    /\ After(o, c).then = "Handoff"
    /\ \E w \in flow[o].waiters :
         LET parked == [Moved(flow[o], After(o, c)) EXCEPT !.waiters = {}]
             child  == parked.node.id
             r      == [id |-> w, intent |-> HandedOver(o, flow[o].intent)]
         IN  /\ flow' = [p \in Objects |->
                    IF p = o THEN parked
                    ELSE IF p # child THEN flow[p]
                    ELSE IF ~Busy(p) THEN Start(p, r.intent, w, buffer[p])
                    ELSE [flow[p] EXCEPT
                             !.abort = @ \/ Collision(flow[p], r.intent, buffer[p]) = "Abort"]]
             /\ queue' = [p \in Objects |-> IF p = child /\ Busy(p) THEN Append(queue[p], r)
                                                                    ELSE queue[p]]
    /\ UNCHANGED <<posted, reply>>

\* A rename of a file that never reached the server owes it a publish.
OwesPublish(f) == f.intent.kind = "Relocate" /\ "materialised" \notin f.node.is
                                            /\ f.node.id # NoObject

\* Everyone waiting is answered, the object starts what queued behind the
\* flow, and so does the directory that was parked on a hand-over.
Ends(o, c) ==
    LET m     == After(o, c)
        f     == Moved(flow[o], m)
        b     == BuffersAfter(o, c)
        freed == {o} \cup ParkedOn(f.intent)
        onTheWay == UNION {AnsweredOnRelease(p, b[p]) : p \in freed}
    IN  /\ m.then \in {"Done", "Fail", "Abandoned"}
        /\ flow' = [p \in Objects |-> IF p \in freed THEN FlowReleased(p, b[p]) ELSE flow[p]]
        /\ queue' = [p \in Objects |-> IF p \in freed THEN QueueReleased(p, b[p]) ELSE queue[p]]
        /\ reply' = [t \in Tickets |->
                        IF t \in f.waiters THEN IF m.then = "Done" THEN "Ok" ELSE m.why
                        ELSE IF t \in onTheWay THEN "Ok"
                        ELSE reply[t]]
        /\ posted' = IF OwesPublish(f)
                     THEN Append(posted, [on |-> f.node.id, intent |-> Publishing])
                     ELSE posted

Finishes(o, c) ==
    /\ \/ Continues(o, c)
       \/ Commits(o, c)
       \/ HandsOver(o, c)
       \/ Ends(o, c)
    /\ buffer' = BuffersAfter(o, c)
    /\ unsent' = UnsentAfter(o, c)
    /\ UNCHANGED <<beside, abandoned>>

Complete(o) ==
    /\ Busy(o) /\ ~Parked(o)
    /\ \E c \in Completions(flow[o]) : Finishes(o, c)

\* A read beside came back (on_beside).
CompleteBeside ==
    \E r \in beside :
        LET f == Start(r.on, r.intent, r.id, buffer[r.on])
        IN  /\ \E c \in Completions(f) :
                  LET m == Advance(r.on, f, c, buffer[r.on])
                  IN  reply' = Answered({r.id}, IF m.then = "Fail" THEN m.why ELSE "Ok")
            /\ beside' = beside \ {r}
            /\ UNCHANGED <<flow, queue, buffer, posted, abandoned, unsent>>

\* Everyone is answered and nothing runs. Any other state without a successor
\* is a deadlock.
Rest == /\ \A t \in Tickets : reply[t] \in Outcomes
        /\ \A o \in Objects : ~Busy(o)
        /\ beside = {} /\ posted = <<>>
        /\ UNCHANGED vars

Next == \/ \E t \in Tickets : Submit(t)
        \/ Deliver
        \/ \E t \in Tickets : Abandon(t)
        \/ \E o \in Objects : Complete(o)
        \/ CompleteBeside
        \/ Rest

Spec == Init /\ [][Next]_vars

\* Every job handed to a worker comes back, and the decider reads its inbox.
FairSpec == /\ Spec
            /\ WF_vars(Deliver)
            /\ \A o \in Objects : WF_vars(Complete(o))
            /\ WF_vars(CompleteBeside)

-----------------------------------------------------------------------------
(* Properties.                                                             *)

\* The places that can hold a ticket: a running flow, a queue, a read beside.
Held(t) ==
    {<<"rides", o>> : o \in {o \in Objects : t \in flow[o].waiters}}
    \cup (UNION {{<<"queues", o, k>> : k \in {k \in DOMAIN queue[o] : queue[o][k].id = t}}
                   : o \in Objects})
    \cup {<<"beside", r>> : r \in {r \in beside : r.id = t}}

\* Every caller that is owed an answer is held in exactly one place, and
\* nobody is held who was answered already -- so every request is answered
\* once, whether it ran, joined, queued, was handed over or was given up. (The
\* kernel keeps a locked page for a read that is never answered: machine.rs,
\* `abandon`.)
HeldOnce == \A t \in Tickets :
    IF reply[t] = "open" THEN \E p \in Held(t) : Held(t) = {p}
                         ELSE Held(t) = {}

\* The hand-overs under way for directory p: running on a child, or queued.
HandOvers(p) ==
    {<<o, 0>> : o \in {o \in Objects : Busy(o) /\ flow[o].intent.from = p}}
    \cup UNION {{<<o, k>> : k \in {k \in DOMAIN queue[o] : queue[o][k].intent.from = p}}
                  : o \in Objects}

\* A directory is parked exactly while one hand-over of it is under way. A
\* parked directory without one would never be released (every later rename,
\* delete or listing in it would hang); a hand-over of a directory that is not
\* parked would let a listing be applied halfway through a rename.
ParkedHasOneHandover == \A p \in Objects :
    IF Parked(p) THEN \E h \in HandOvers(p) : HandOvers(p) = {h}
                 ELSE HandOvers(p) = {}

\* Nothing queues at an idle object, and a busy one waits for a job or for a
\* hand-over: there is always an event that starts what is queued.
NothingStranded == \A o \in Objects :
    /\ ~Busy(o) => queue[o] = <<>>
    /\ (flow[o].job = NoJob) = (~Busy(o) \/ Parked(o))

\* A direct request: one its caller made for this very object.
Direct(r) == r.id # Nobody /\ r.intent.from = NoObject

\* Requests that change an object are run in the order they arrived: what
\* queues is in order, and behind the caller of the running change. This is
\* what makes a flush cover every write before it, without a lock.
OrderOfArrival == \A o \in Objects :
    /\ \A j, k \in DOMAIN queue[o] :
          j < k /\ Direct(queue[o][j]) /\ Direct(queue[o][k])
              => queue[o][j].id < queue[o][k].id
    /\ ChangesState(flow[o].intent) /\ flow[o].intent.from = NoObject =>
          \A w \in flow[o].waiters \ {Nobody} : \A k \in DOMAIN queue[o] :
              Direct(queue[o][k]) => w < queue[o][k].id

\* An edit the server has not got stays in an open buffer that is marked
\* dirty, so that some later flush sends it -- whatever failed, was given up
\* or raced in between. Only a delete of the file, or a row that is gone, lets
\* a buffer with an unsent edit go.
EditsKept == \A o \in unsent : buffer[o].open /\ buffer[o].dirty

\* A caller is told "interrupted" only if it gave up itself, or if its
\* background refresh was pointless because the file was being deleted. Above
\* all, a reader that joins a transfer just as its last reader leaves is not.
OnlyTheAbandonedAreInterrupted ==
    [][\A t \in Tickets :
          reply[t] = "open" /\ reply'[t] = "Interrupted" =>
              \/ t \in abandoned'
              \/ \E o \in Objects : t \in flow[o].waiters /\ flow[o].intent.kind = "Refresh"]_vars

\* The reason it is not: a flow that is to give up has nobody left to serve,
\* or is a background refresh.
GivenUpServesNobody == \A o \in Objects :
    flow[o].abort => flow[o].waiters = {} \/ flow[o].intent.kind = "Refresh"

\* Every request is answered eventually, given that workers come back.
EveryRequestIsAnswered ==
    \A t \in Tickets : reply[t] = "open" ~> reply[t] \in Outcomes

=============================================================================
