--------------------------- MODULE WriteBackProofs --------------------------
(***************************************************************************)
(* Theorems about WriteBack: no edit that was answered is lost, neither    *)
(* one of ours nor one of others, for every number of callers, faults,     *)
(* refusals, crashes and versions, in a world without perils, and but for  *)
(* what met an edit without a base version.                                *)
(***************************************************************************)
EXTENDS WriteBack, MachineProofs, FiniteSetTheorems

\* What the theorems assume of an instance: no peril, and callers that create,
\* write and flush the file, as the module has it.
FileAsk(i) == i.kind \in {"Write", "Publish"} /\ i.from = NoObject
DirAsk(i)  == i.kind = "Materialise" /\ "dir" \notin i.asks /\ i.from = NoObject
Unspoilt == /\ Perils = {}
            /\ \A a \in Asks : \/ a.on = file /\ FileAsk(a.intent)
                               \/ a.on = dir /\ DirAsk(a.intent)

-----------------------------------------------------------------------------
(* The flows of the file and of its directory: which job goes with which   *)
(* step. Nothing else ever runs here.                                      *)

InWrite(f) ==
    /\ f.intent.kind = "Write" /\ f.job.on = file
    /\ \/ f.step = "WriteNode"    /\ f.job.op = "ReadNode"
       \/ f.step = "WritePrepare" /\ f.job.op \in {"CreateBuffer", "HydrateBuffer"}
       \/ f.step = "WriteBytes"   /\ f.job.op = "WriteBuffer"

InPublish(f) ==
    /\ f.intent.kind = "Publish"
    /\ f.step # "PubReload" => f.job.on = file
    /\ \/ f.step = "PubNode"     /\ f.job.op = "ReadNode"
       \/ f.step = "PubCommit"   /\ f.job.op = "MarkPending"
       \/ f.step = "PubSize"     /\ f.job.op = "BufferSize"
       \/ f.step = "PubUpload"   /\ f.job.op = "Upload"
       \/ f.step = "PubConflict" /\ f.job.op = "ResolveConflict"
       \/ f.step = "PubRecord"   /\ f.job.op = "RecordVersion"
       \/ f.step = "PubStore"    /\ f.job.op = "StoreBlob"
       \/ f.step = "PubReload"   /\ f.job.op = "ListRemote"
       \/ f.step = "PubClear"    /\ f.job.op = "ClearPending"
       \/ f.step = "PubError"    /\ f.job.op = "SetUploadError"
       \/ f.step = "PubDiscard"  /\ f.job.op = "DiscardBuffer"

FileFlow(f) ==
    /\ f.abort = FALSE
    /\ f # IdleFlow => FileAsk(f.intent) /\ (InWrite(f) \/ InPublish(f))

DirFlow(f) ==
    /\ f.abort = FALSE
    /\ \/ f = IdleFlow
       \/ /\ DirAsk(f.intent)
          /\ \/ f.step = "MatInsert" /\ f.job = Job("InsertNode", dir)
             \/ f.step = "MatLookup" /\ f.job = Job("ReadChild", dir)
             \/ /\ f.step = "MatBuffer" /\ f.job = Job("CreateBuffer", file)
                /\ f.node.etag = NoVersion /\ f.node.id = file

Kernel ==
    /\ IInv
    /\ FileFlow(flow[file]) /\ DirFlow(flow[dir])
    /\ \A k \in DOMAIN queue[file] : FileAsk(queue[file][k].intent)
    /\ \A k \in DOMAIN queue[dir] : DirAsk(queue[dir][k].intent)

\* A flow that has just started.
FreshFile(f, b) ==
    \/ f = IdleFlow
    \/ /\ f.abort = FALSE /\ FileAsk(f.intent) /\ f.job.on = file
       /\ \/ f.intent.kind = "Write" /\ f.step = "WriteNode" /\ f.job.op = "ReadNode"
          \/ /\ f.intent.kind = "Publish" /\ b.open /\ b.dirty
             /\ f.step = "PubNode" /\ f.job.op = "ReadNode"
          \/ /\ f.intent.kind = "Publish" /\ b.open /\ ~b.dirty
             /\ f.step = "PubDiscard" /\ f.job.op = "DiscardBuffer"

FreshDir(f) ==
    \/ f = IdleFlow
    \/ /\ f.abort = FALSE /\ DirAsk(f.intent)
       /\ f.step = "MatInsert" /\ f.job = Job("InsertNode", dir)

LEMMA TwoObjects == file \in Objects /\ dir \in Objects /\ file # dir /\ Objects = {file, dir}
  BY WorldAssumption

LEMMA FreshFlows ==
    ASSUME NEW f, NEW b
    PROVE  /\ FreshFile(f, b) => FileFlow(f)
           /\ FreshDir(f) => DirFlow(f)
<1>1. IdleFlow.abort = FALSE
  BY DEF IdleFlow
<1> QED
  BY <1>1 DEF FreshFile, FileFlow, InWrite, InPublish, FreshDir, DirFlow

LEMMA StartingAFlow ==
    ASSUME NEW i, NEW w, NEW b
    PROVE  /\ FileAsk(i) /\ ~AtOnce(i, b) => FreshFile(Start(file, i, w, b), b)
           /\ DirAsk(i) => FreshDir(Start(dir, i, w, b)) /\ ~AtOnce(i, b)
  BY DEF FileAsk, DirAsk, AtOnce, FreshFile, FreshDir, Start, OpensWith, Job

LEMMA Releasing ==
    ASSUME Kernel, NEW b \in Buffer
    PROVE  /\ FreshFile(FlowReleased(file, b), b)
           /\ \A k \in DOMAIN QueueReleased(file, b) : FileAsk(QueueReleased(file, b)[k].intent)
           /\ FreshDir(FlowReleased(dir, b))
           /\ \A k \in DOMAIN QueueReleased(dir, b) : DirAsk(QueueReleased(dir, b)[k].intent)
<1>0. TypeOK
  BY IInvSaysSo DEF Kernel
<1>1. ASSUME NEW o \in Objects
      PROVE  /\ NeedsAJob(o, b) # {} => /\ NextUp(o, b) \in DOMAIN queue[o]
                                        /\ ~AtOnce(queue[o][NextUp(o, b)].intent, b)
             /\ \A k \in DOMAIN QueueReleased(o, b) :
                   \E j \in DOMAIN queue[o] : QueueReleased(o, b)[k] = queue[o][j]
  <2>1. queue[o] \in Seq(Request)
    BY <1>0 DEF TypeOK
  <2>2. CASE NeedsAJob(o, b) = {}
    BY <2>2 DEF QueueReleased
  <2>3. CASE NeedsAJob(o, b) # {}
    <3> DEFINE n == NextUp(o, b)
               q == queue[o]
    <3>1. n \in NeedsAJob(o, b) /\ n \in 1..Len(q)
      BY <1>0, <2>3, NextUpIsLeast
    <3>2. n \in DOMAIN q /\ ~AtOnce(q[n].intent, b)
      BY <3>1 DEF NeedsAJob
    <3>3. QueueReleased(o, b) = SubSeq(q, n + 1, Len(q))
      BY <2>3 DEF QueueReleased
    <3>4. q \in Seq(Request)
      BY <2>1
    <3> HIDE DEF n, q
    <3>5. \A k \in DOMAIN SubSeq(q, n + 1, Len(q)) :
            n + k \in DOMAIN q /\ SubSeq(q, n + 1, Len(q))[k] = q[n + k]
      BY <3>1, <3>4
    <3> QED
      BY <2>3, <3>2, <3>3, <3>5 DEF n, q
  <2> QED
    BY <2>2, <2>3
<1>6. ASSUME NEW o \in Objects
      PROVE  \/ FlowReleased(o, b) = IdleFlow
             \/ \E k \in DOMAIN queue[o] :
                   /\ ~AtOnce(queue[o][k].intent, b)
                   /\ FlowReleased(o, b) = Start(o, queue[o][k].intent, queue[o][k].id, b)
  BY <1>1 DEF FlowReleased
<1>2. FreshFile(FlowReleased(file, b), b)
  <2>1. CASE FlowReleased(file, b) = IdleFlow
    BY <2>1 DEF FreshFile
  <2>2. ASSUME NEW k \in DOMAIN queue[file], ~AtOnce(queue[file][k].intent, b),
               FlowReleased(file, b) = Start(file, queue[file][k].intent, queue[file][k].id, b)
        PROVE  FreshFile(FlowReleased(file, b), b)
    BY <2>2, StartingAFlow DEF Kernel
  <2> QED
    BY <1>6, <2>1, <2>2, TwoObjects
<1>3. FreshDir(FlowReleased(dir, b))
  <2>1. CASE FlowReleased(dir, b) = IdleFlow
    BY <2>1 DEF FreshDir
  <2>2. ASSUME NEW k \in DOMAIN queue[dir],
               FlowReleased(dir, b) = Start(dir, queue[dir][k].intent, queue[dir][k].id, b)
        PROVE  FreshDir(FlowReleased(dir, b))
    BY <2>2, StartingAFlow DEF Kernel
  <2> QED
    BY <1>6, <2>1, <2>2, TwoObjects
<1>4. \A k \in DOMAIN QueueReleased(file, b) : FileAsk(QueueReleased(file, b)[k].intent)
  BY <1>1, TwoObjects DEF Kernel
<1>5. \A k \in DOMAIN QueueReleased(dir, b) : DirAsk(QueueReleased(dir, b)[k].intent)
  BY <1>1, TwoObjects DEF Kernel
<1> QED
  BY <1>2, <1>3, <1>4, <1>5

-----------------------------------------------------------------------------
(* What the decision of a script makes of the flows.                       *)

\* A move to another step, with the job that is handed out.
To(m, step, op, on, n, e) ==
    /\ m.then \in {"Do", "AnswerThen"}
    /\ m.step = step /\ m.job = Job(op, on) /\ m.node = n /\ m.etag = e

\* The flow of x has gone on to another step; that of y was left alone.
Onto(x, y, step, op, on, n, e) ==
    /\ flow'[x].step = step /\ flow'[x].job = Job(op, on)
    /\ flow'[x].node = n /\ flow'[x].etag = e
    /\ flow'[x].intent = flow[x].intent /\ flow'[x].abort = flow[x].abort
    /\ flow'[y] = flow[y] /\ UNCHANGED queue

Over(x, y) ==
    /\ flow'[x] = FlowReleased(x, buffer'[x]) /\ queue'[x] = QueueReleased(x, buffer'[x])
    /\ flow'[y] = flow[y] /\ queue'[y] = queue[y]

LEMMA GoingOn ==
    ASSUME Kernel, NEW x \in Objects, NEW y \in Objects \ {x}, Busy(x), ~Parked(x),
           NEW c \in Answers, Finishes(x, c)
    PROVE  /\ IInv'
           /\ \A step, op, on, n, e : To(After(x, c), step, op, on, n, e) =>
                                         Onto(x, y, step, op, on, n, e)
           /\ After(x, c).then \in {"Done", "Fail"} => Over(x, y)
           /\ \A p \in Objects : buffer'[p] = IF p = flow[x].job.on /\ c.kind # "Failed"
                                              THEN BufferAfter(flow[x], buffer[p])
                                              ELSE buffer[p]
<1>1. IInv /\ RestOK /\ flow[x] \in Flow /\ flow[x].intent.from = NoObject
  BY TwoObjects DEF Kernel, IInv, Healthy, FileFlow, DirFlow, FileAsk, DirAsk, IdleFlow, NoIntent
<1>2. /\ Continues(x, c) \/ Commits(x, c) \/ HandsOver(x, c) \/ Ends(x, c)
      /\ buffer' = BuffersAfter(x, c)
  BY DEF Finishes
<1>3. After(x, c) \in Move
  BY <1>1, AnswerFacts
<1>4. \A step, op, on, n, e : To(After(x, c), step, op, on, n, e) =>
                                 Onto(x, y, step, op, on, n, e)
  <2> SUFFICES ASSUME NEW step, NEW op, NEW on, NEW n, NEW e, To(After(x, c), step, op, on, n, e)
               PROVE  Onto(x, y, step, op, on, n, e)
    OBVIOUS
  <2> DEFINE m == After(x, c)
             g == Moved(flow[x], m)
  <2>1. /\ m.then \in {"Do", "AnswerThen"} /\ m.step = step /\ m.job = Job(op, on)
        /\ m.node = n /\ m.etag = e
    BY DEF To
  <2>2. /\ g.step = step /\ g.job = Job(op, on) /\ g.node = n /\ g.etag = e
        /\ g.intent = flow[x].intent /\ g.abort = flow[x].abort /\ g \in Flow
    BY <1>1, <1>3, <2>1, MovedType DEF Moved, Flow
  <2>3. /\ \/ flow' = [flow EXCEPT ![x] = g]
           \/ flow' = [flow EXCEPT ![x] = [g EXCEPT !.waiters = {}]]
        /\ UNCHANGED queue
    BY <1>2, <2>1 DEF Continues, Commits, HandsOver, Ends
  <2> HIDE DEF m, g
  <2>4. flow'[x] = g \/ flow'[x] = [g EXCEPT !.waiters = {}]
    BY <1>1, <2>3 DEF RestOK
  <2>5. flow'[y] = flow[y]
    BY <1>1, <2>3 DEF RestOK
  <2> QED
    BY <2>2, <2>3, <2>4, <2>5 DEF Onto, Flow
<1>5. ASSUME After(x, c).then \in {"Done", "Fail"}
      PROVE  Over(x, y)
  <2> DEFINE g == Moved(flow[x], After(x, c))
  <2>1. Ends(x, c)
    BY <1>2, <1>5 DEF Continues, Commits, HandsOver
  <2>2. g.intent.from = NoObject
    BY <1>1, <1>3, MovedType
  <2>3. ParkedOn(g.intent) = {}
    BY <2>2, ObjectsAssumption DEF ParkedOn
  <2>4. /\ flow' = [p \in Objects |-> IF p \in {x} \cup ParkedOn(g.intent)
                                      THEN FlowReleased(p, buffer'[p]) ELSE flow[p]]
        /\ queue' = [p \in Objects |-> IF p \in {x} \cup ParkedOn(g.intent)
                                       THEN QueueReleased(p, buffer'[p]) ELSE queue[p]]
    BY <1>2, <2>1 DEF Ends
  <2> HIDE DEF g
  <2> QED
    BY <2>3, <2>4 DEF Over
<1>6. \A p \in Objects : buffer'[p] = IF p = flow[x].job.on /\ c.kind # "Failed"
                                      THEN BufferAfter(flow[x], buffer[p])
                                      ELSE buffer[p]
  BY <1>2 DEF BuffersAfter
<1>7. IInv'
  BY <1>1, FinishKeeps
<1> QED
  BY <1>4, <1>5, <1>6, <1>7

-----------------------------------------------------------------------------
(* Step by step, what becomes of the file's flow and of its buffer.        *)

LEMMA StaysKernel ==
    ASSUME Kernel, IInv'
    PROVE  /\ flow'[dir] = flow[dir] /\ UNCHANGED queue /\ FileFlow(flow'[file]) => Kernel'
           /\ Over(file, dir) => /\ Kernel' /\ flow'[dir] = flow[dir]
                                 /\ FreshFile(flow'[file], buffer'[file])
           /\ flow'[file] = flow[file] /\ UNCHANGED queue /\ DirFlow(flow'[dir]) => Kernel'
           /\ Over(dir, file) => /\ Kernel' /\ flow'[file] = flow[file]
                                 /\ FreshDir(flow'[dir])
<1>1. buffer'[file] \in Buffer /\ buffer'[dir] \in Buffer
  BY TwoObjects DEF IInv, RestOK
<1> QED
  BY <1>1, Releasing, FreshFlows DEF Kernel, Over

LEMMA FileIsBusy ==
    ASSUME Kernel, Busy(file)
    PROVE  /\ flow[file] \in Flow /\ buffer[file] \in Buffer
           /\ flow[file].abort = FALSE /\ FileAsk(flow[file].intent) /\ ~Parked(file)
           /\ InWrite(flow[file]) \/ InPublish(flow[file])
<1>1. /\ flow[file] \in Flow /\ buffer[file] \in Buffer
      /\ flow[file].abort = FALSE /\ FileAsk(flow[file].intent)
      /\ InWrite(flow[file]) \/ InPublish(flow[file])
  BY TwoObjects DEF Kernel, IInv, RestOK, Healthy, FileFlow, Busy, IdleFlow
<1>2. ~Parked(file)
  BY <1>1 DEF Parked, InWrite, InPublish
<1> QED
  BY <1>1, <1>2

\* A step that fails ends the flow. Past its local commit, a publish that fails
\* for good has the record marked first.
LEMMA FileFails ==
    ASSUME Kernel, Busy(file), NEW c \in Answers, c.kind = "Failed", Finishes(file, c)
    PROVE  /\ Kernel' /\ buffer'[file] = buffer[file] /\ flow'[dir] = flow[dir]
           /\ IF flow[file].step \in PastCommit /\ c.why = "Permanent"
              THEN flow'[file].step = "PubError" /\ flow'[file].intent = flow[file].intent
              ELSE FreshFile(flow'[file], buffer'[file])
<1> DEFINE f == flow[file]
           m == After(file, c)
<1>1. /\ f \in Flow /\ ~f.abort /\ FileAsk(f.intent) /\ ~Parked(file)
      /\ InWrite(f) \/ InPublish(f)
  BY FileIsBusy
<1>2. m = AfterFailure(file, f, c.why)
  BY <1>1 DEF After, Advance
<1>3. f.step # "FetchBytes"
  BY <1>1 DEF InWrite, InPublish
<1>4. CASE f.step \in PastCommit /\ c.why = "Permanent"
  <2>1. To(m, "PubError", "SetUploadError", file, f.node, f.etag)
    BY <1>2, <1>3, <1>4 DEF AfterFailure, Do, Go, To
  <2>2. f.intent.kind = "Publish"
    BY <1>1, <1>4 DEF InWrite, InPublish, PastCommit
  <2>3. /\ IInv' /\ Onto(file, dir, "PubError", "SetUploadError", file, f.node, f.etag)
        /\ buffer'[file] = buffer[file]
    BY <1>1, <2>1, GoingOn, TwoObjects
  <2>4. FileFlow(flow'[file])
    BY <1>1, <2>2, <2>3 DEF Onto, FileFlow, InPublish, Job
  <2> QED
    BY <1>4, <2>3, <2>4, StaysKernel DEF Onto
<1>5. CASE ~(f.step \in PastCommit /\ c.why = "Permanent")
  <2>1. m.then = "Fail"
    BY <1>2, <1>3, <1>5 DEF AfterFailure, Fail, Go
  <2>2. IInv' /\ Over(file, dir) /\ buffer'[file] = buffer[file]
    BY <1>1, <2>1, GoingOn, TwoObjects
  <2> QED
    BY <1>5, <2>2, StaysKernel
<1> QED
  BY <1>4, <1>5

\* A publish of a file that is there commits it locally first.
LEMMA PubNodeFinds ==
    ASSUME Kernel, flow[file].step = "PubNode", NEW c \in Answers,
           c.kind = "Node" /\ "found" \in c.node.is /\ "ignored" \notin c.node.is, Finishes(file, c)
    PROVE  /\ Kernel' /\ buffer'[file] = buffer[file]
           /\ Onto(file, dir, "PubCommit", "MarkPending", file, c.node,
                   flow[file].etag)
<1> DEFINE f == flow[file]
           m == After(file, c)
<1>1. /\ Busy(file) /\ f \in Flow /\ ~f.abort /\ FileAsk(f.intent) /\ ~Parked(file)
      /\ InPublish(f)
  BY FileIsBusy DEF Busy, InWrite
<1>2. m = PublishNext(file, f, c)
  BY <1>1 DEF After, Advance, AfterSuccess, InPublish
<1>3. To(m, "PubCommit", "MarkPending", file, c.node, flow[file].etag)
  BY <1>1, <1>2 DEF PublishNext, Do, Go, To, Knowing, Flow
<1>4. /\ IInv' /\ Onto(file, dir, "PubCommit", "MarkPending", file, c.node, flow[file].etag)
      /\ buffer'[file] = IF file = f.job.on THEN BufferAfter(f, buffer[file]) ELSE buffer[file]
  BY <1>1, <1>3, GoingOn, TwoObjects
<1>5. buffer'[file] = buffer[file]
  BY <1>1, <1>4 DEF BufferAfter, InPublish
<1>6. FileFlow(flow'[file])
  BY <1>1, <1>4 DEF Onto, FileFlow, InPublish, Job
<1> QED
  BY <1>4, <1>5, <1>6, StaysKernel DEF Onto

\* The buffer of a file that is gone is dropped.
LEMMA PubNodeMisses ==
    ASSUME Kernel, flow[file].step = "PubNode", NEW c \in Answers,
           c.kind = "Node" /\ "found" \notin c.node.is, Finishes(file, c)
    PROVE  /\ Kernel' /\ buffer'[file] = buffer[file]
           /\ Onto(file, dir, "PubDiscard", "DiscardBuffer", file, flow[file].node,
                   flow[file].etag)
<1> DEFINE f == flow[file]
           m == After(file, c)
<1>1. /\ Busy(file) /\ f \in Flow /\ ~f.abort /\ FileAsk(f.intent) /\ ~Parked(file)
      /\ InPublish(f)
  BY FileIsBusy DEF Busy, InWrite
<1>2. m = PublishNext(file, f, c)
  BY <1>1 DEF After, Advance, AfterSuccess, InPublish
<1>3. To(m, "PubDiscard", "DiscardBuffer", file, flow[file].node, flow[file].etag)
  BY <1>1, <1>2 DEF PublishNext, Do, Go, To, Knowing, Flow
<1>4. /\ IInv' /\ Onto(file, dir, "PubDiscard", "DiscardBuffer", file, flow[file].node, flow[file].etag)
      /\ buffer'[file] = IF file = f.job.on THEN BufferAfter(f, buffer[file]) ELSE buffer[file]
  BY <1>1, <1>3, GoingOn, TwoObjects
<1>5. buffer'[file] = buffer[file]
  BY <1>1, <1>4 DEF BufferAfter, InPublish
<1>6. FileFlow(flow'[file])
  BY <1>1, <1>4 DEF Onto, FileFlow, InPublish, Job
<1> QED
  BY <1>4, <1>5, <1>6, StaysKernel DEF Onto

LEMMA PubCommitDone ==
    ASSUME Kernel, flow[file].step = "PubCommit", NEW c \in Answers,
           c.kind = "Done", Finishes(file, c)
    PROVE  /\ Kernel' /\ buffer'[file] = buffer[file]
           /\ Onto(file, dir, "PubSize", "BufferSize", file, flow[file].node,
                   flow[file].etag)
<1> DEFINE f == flow[file]
           m == After(file, c)
<1>1. /\ Busy(file) /\ f \in Flow /\ ~f.abort /\ FileAsk(f.intent) /\ ~Parked(file)
      /\ InPublish(f)
  BY FileIsBusy DEF Busy, InWrite
<1>2. m = PublishNext(file, f, c)
  BY <1>1 DEF After, Advance, AfterSuccess, InPublish
<1>3. To(m, "PubSize", "BufferSize", file, flow[file].node, flow[file].etag)
  BY <1>1, <1>2 DEF PublishNext, Do, Go, To, Knowing, Flow
<1>4. /\ IInv' /\ Onto(file, dir, "PubSize", "BufferSize", file, flow[file].node, flow[file].etag)
      /\ buffer'[file] = IF file = f.job.on THEN BufferAfter(f, buffer[file]) ELSE buffer[file]
  BY <1>1, <1>3, GoingOn, TwoObjects
<1>5. buffer'[file] = buffer[file]
  BY <1>1, <1>4 DEF BufferAfter, InPublish
<1>6. FileFlow(flow'[file])
  BY <1>1, <1>4 DEF Onto, FileFlow, InPublish, Job
<1> QED
  BY <1>4, <1>5, <1>6, StaysKernel DEF Onto

LEMMA PubSizeDone ==
    ASSUME Kernel, flow[file].step = "PubSize", NEW c \in Answers,
           c.kind = "Done", Finishes(file, c)
    PROVE  /\ Kernel' /\ buffer'[file] = buffer[file]
           /\ Onto(file, dir, "PubUpload", "Upload", file, flow[file].node,
                   flow[file].etag)
<1> DEFINE f == flow[file]
           m == After(file, c)
<1>1. /\ Busy(file) /\ f \in Flow /\ ~f.abort /\ FileAsk(f.intent) /\ ~Parked(file)
      /\ InPublish(f)
  BY FileIsBusy DEF Busy, InWrite
<1>2. m = PublishNext(file, f, c)
  BY <1>1 DEF After, Advance, AfterSuccess, InPublish
<1>3. To(m, "PubUpload", "Upload", file, flow[file].node, flow[file].etag)
  BY <1>1, <1>2 DEF PublishNext, Do, Go, To, Knowing, Flow
<1>4. /\ IInv' /\ Onto(file, dir, "PubUpload", "Upload", file, flow[file].node, flow[file].etag)
      /\ buffer'[file] = IF file = f.job.on THEN BufferAfter(f, buffer[file]) ELSE buffer[file]
  BY <1>1, <1>3, GoingOn, TwoObjects
<1>5. buffer'[file] = buffer[file]
  BY <1>1, <1>4 DEF BufferAfter, InPublish
<1>6. FileFlow(flow'[file])
  BY <1>1, <1>4 DEF Onto, FileFlow, InPublish, Job
<1> QED
  BY <1>4, <1>5, <1>6, StaysKernel DEF Onto

LEMMA PubUploadLands ==
    ASSUME Kernel, flow[file].step = "PubUpload", NEW c \in Answers,
           c.kind = "Uploaded", Finishes(file, c)
    PROVE  /\ Kernel' /\ buffer'[file] = buffer[file]
           /\ Onto(file, dir, "PubRecord", "RecordVersion", file, flow[file].node,
                   c.etag)
<1> DEFINE f == flow[file]
           m == After(file, c)
<1>1. /\ Busy(file) /\ f \in Flow /\ ~f.abort /\ FileAsk(f.intent) /\ ~Parked(file)
      /\ InPublish(f)
  BY FileIsBusy DEF Busy, InWrite
<1>2. m = PublishNext(file, f, c)
  BY <1>1 DEF After, Advance, AfterSuccess, InPublish
<1>3. To(m, "PubRecord", "RecordVersion", file, flow[file].node, c.etag)
  BY <1>1, <1>2 DEF PublishNext, Do, Go, To, Knowing, Flow
<1>4. /\ IInv' /\ Onto(file, dir, "PubRecord", "RecordVersion", file, flow[file].node, c.etag)
      /\ buffer'[file] = IF file = f.job.on THEN BufferAfter(f, buffer[file]) ELSE buffer[file]
  BY <1>1, <1>3, GoingOn, TwoObjects
<1>5. buffer'[file] = buffer[file]
  BY <1>1, <1>4 DEF BufferAfter, InPublish
<1>6. FileFlow(flow'[file])
  BY <1>1, <1>4 DEF Onto, FileFlow, InPublish, Job
<1> QED
  BY <1>4, <1>5, <1>6, StaysKernel DEF Onto

LEMMA PubUploadRejected ==
    ASSUME Kernel, flow[file].step = "PubUpload", NEW c \in Answers,
           c.kind = "Rejected", Finishes(file, c)
    PROVE  /\ Kernel' /\ buffer'[file] = buffer[file]
           /\ Onto(file, dir, "PubConflict", "ResolveConflict", file, flow[file].node,
                   flow[file].etag)
<1> DEFINE f == flow[file]
           m == After(file, c)
<1>1. /\ Busy(file) /\ f \in Flow /\ ~f.abort /\ FileAsk(f.intent) /\ ~Parked(file)
      /\ InPublish(f)
  BY FileIsBusy DEF Busy, InWrite
<1>2. m = PublishNext(file, f, c)
  BY <1>1 DEF After, Advance, AfterSuccess, InPublish
<1>3. To(m, "PubConflict", "ResolveConflict", file, flow[file].node, flow[file].etag)
  BY <1>1, <1>2 DEF PublishNext, Do, Go, To, Knowing, Flow
<1>4. /\ IInv' /\ Onto(file, dir, "PubConflict", "ResolveConflict", file, flow[file].node, flow[file].etag)
      /\ buffer'[file] = IF file = f.job.on THEN BufferAfter(f, buffer[file]) ELSE buffer[file]
  BY <1>1, <1>3, GoingOn, TwoObjects
<1>5. buffer'[file] = buffer[file]
  BY <1>1, <1>4 DEF BufferAfter, InPublish
<1>6. FileFlow(flow'[file])
  BY <1>1, <1>4 DEF Onto, FileFlow, InPublish, Job
<1> QED
  BY <1>4, <1>5, <1>6, StaysKernel DEF Onto

LEMMA PubConflictDone ==
    ASSUME Kernel, flow[file].step = "PubConflict", NEW c \in Answers,
           c.kind = "Done", Finishes(file, c)
    PROVE  /\ Kernel' /\ buffer'[file] = buffer[file]
           /\ Onto(file, dir, "PubClear", "ClearPending", file, flow[file].node,
                   flow[file].etag)
<1> DEFINE f == flow[file]
           m == After(file, c)
<1>1. /\ Busy(file) /\ f \in Flow /\ ~f.abort /\ FileAsk(f.intent) /\ ~Parked(file)
      /\ InPublish(f)
  BY FileIsBusy DEF Busy, InWrite
<1>2. m = PublishNext(file, f, c)
  BY <1>1 DEF After, Advance, AfterSuccess, InPublish
<1>3. To(m, "PubClear", "ClearPending", file, flow[file].node, flow[file].etag)
  BY <1>1, <1>2 DEF PublishNext, Do, Go, To, Knowing, Flow
<1>4. /\ IInv' /\ Onto(file, dir, "PubClear", "ClearPending", file, flow[file].node, flow[file].etag)
      /\ buffer'[file] = IF file = f.job.on THEN BufferAfter(f, buffer[file]) ELSE buffer[file]
  BY <1>1, <1>3, GoingOn, TwoObjects
<1>5. buffer'[file] = buffer[file]
  BY <1>1, <1>4 DEF BufferAfter, InPublish
<1>6. FileFlow(flow'[file])
  BY <1>1, <1>4 DEF Onto, FileFlow, InPublish, Job
<1> QED
  BY <1>4, <1>5, <1>6, StaysKernel DEF Onto

LEMMA PubRecordDone ==
    ASSUME Kernel, flow[file].step = "PubRecord", buffer[file].open, NEW c \in Answers,
           c.kind = "Done", Finishes(file, c)
    PROVE  /\ Kernel' /\ buffer'[file] = [buffer[file] EXCEPT !.base = flow[file].etag]
           /\ Onto(file, dir, "PubStore", "StoreBlob", file, flow[file].node,
                   flow[file].etag)
<1> DEFINE f == flow[file]
           m == After(file, c)
<1>1. /\ Busy(file) /\ f \in Flow /\ ~f.abort /\ FileAsk(f.intent) /\ ~Parked(file)
      /\ InPublish(f)
  BY FileIsBusy DEF Busy, InWrite
<1>2. m = PublishNext(file, f, c)
  BY <1>1 DEF After, Advance, AfterSuccess, InPublish
<1>3. To(m, "PubStore", "StoreBlob", file, flow[file].node, flow[file].etag)
  BY <1>1, <1>2 DEF PublishNext, Do, Go, To, Knowing, Flow
<1>4. /\ IInv' /\ Onto(file, dir, "PubStore", "StoreBlob", file, flow[file].node, flow[file].etag)
      /\ buffer'[file] = IF file = f.job.on THEN BufferAfter(f, buffer[file]) ELSE buffer[file]
  BY <1>1, <1>3, GoingOn, TwoObjects
<1>5. buffer'[file] = [buffer[file] EXCEPT !.base = flow[file].etag]
  BY <1>1, <1>4 DEF BufferAfter, InPublish
<1>6. FileFlow(flow'[file])
  BY <1>1, <1>4 DEF Onto, FileFlow, InPublish, Job
<1> QED
  BY <1>4, <1>5, <1>6, StaysKernel DEF Onto

LEMMA PubReloadDone ==
    ASSUME Kernel, flow[file].step = "PubReload", NEW c \in Answers,
           c.kind = "Done", Finishes(file, c)
    PROVE  /\ Kernel' /\ buffer'[file] = buffer[file]
           /\ Onto(file, dir, "PubClear", "ClearPending", file, flow[file].node,
                   flow[file].etag)
<1> DEFINE f == flow[file]
           m == After(file, c)
<1>1. /\ Busy(file) /\ f \in Flow /\ ~f.abort /\ FileAsk(f.intent) /\ ~Parked(file)
      /\ InPublish(f)
  BY FileIsBusy DEF Busy, InWrite
<1>2. m = PublishNext(file, f, c)
  BY <1>1 DEF After, Advance, AfterSuccess, InPublish
<1>3. To(m, "PubClear", "ClearPending", file, flow[file].node, flow[file].etag)
  BY <1>1, <1>2 DEF PublishNext, Do, Go, To, Knowing, Flow
<1>4. /\ IInv' /\ Onto(file, dir, "PubClear", "ClearPending", file, flow[file].node, flow[file].etag)
      /\ buffer'[file] = IF file = f.job.on THEN BufferAfter(f, buffer[file]) ELSE buffer[file]
  BY <1>1, <1>3, GoingOn, TwoObjects
<1>5. buffer'[file] = buffer[file]
  BY <1>1, <1>4 DEF BufferAfter, InPublish
<1>6. FileFlow(flow'[file])
  BY <1>1, <1>4 DEF Onto, FileFlow, InPublish, Job
<1> QED
  BY <1>4, <1>5, <1>6, StaysKernel DEF Onto

LEMMA PubClearDone ==
    ASSUME Kernel, flow[file].step = "PubClear", NEW c \in Answers,
           c.kind = "Done", Finishes(file, c)
    PROVE  /\ Kernel' /\ buffer'[file] = buffer[file]
           /\ Onto(file, dir, "PubDiscard", "DiscardBuffer", file, flow[file].node,
                   flow[file].etag)
<1> DEFINE f == flow[file]
           m == After(file, c)
<1>1. /\ Busy(file) /\ f \in Flow /\ ~f.abort /\ FileAsk(f.intent) /\ ~Parked(file)
      /\ InPublish(f)
  BY FileIsBusy DEF Busy, InWrite
<1>2. m = PublishNext(file, f, c)
  BY <1>1 DEF After, Advance, AfterSuccess, InPublish
<1>3. To(m, "PubDiscard", "DiscardBuffer", file, flow[file].node, flow[file].etag)
  BY <1>1, <1>2 DEF PublishNext, Do, Go, To, Knowing, Flow
<1>4. /\ IInv' /\ Onto(file, dir, "PubDiscard", "DiscardBuffer", file, flow[file].node, flow[file].etag)
      /\ buffer'[file] = IF file = f.job.on THEN BufferAfter(f, buffer[file]) ELSE buffer[file]
  BY <1>1, <1>3, GoingOn, TwoObjects
<1>5. buffer'[file] = buffer[file]
  BY <1>1, <1>4 DEF BufferAfter, InPublish
<1>6. FileFlow(flow'[file])
  BY <1>1, <1>4 DEF Onto, FileFlow, InPublish, Job
<1> QED
  BY <1>4, <1>5, <1>6, StaysKernel DEF Onto

LEMMA PubStoreDone ==
    ASSUME Kernel, flow[file].step = "PubStore", NEW c \in Answers,
           c.kind = "Done", Finishes(file, c)
    PROVE  /\ Kernel' /\ buffer'[file] = buffer[file] /\ flow'[dir] = flow[dir]
           /\ flow'[file].step \in {"PubClear", "PubReload"}
           /\ flow'[file].intent = flow[file].intent
<1> DEFINE f == flow[file]
           m == After(file, c)
<1>1. /\ Busy(file) /\ f \in Flow /\ ~f.abort /\ FileAsk(f.intent) /\ ~Parked(file)
      /\ InPublish(f)
  BY FileIsBusy DEF Busy, InWrite
<1>2. m = PublishNext(file, f, c)
  BY <1>1 DEF After, Advance, AfterSuccess, InPublish
<1>3. \/ To(m, "PubClear", "ClearPending", file, f.node, f.etag)
      \/ To(m, "PubReload", "ListRemote", f.node.parent, f.node, f.etag)
  BY <1>1, <1>2 DEF PublishNext, Do, Go, To
<1>4. /\ IInv'
      /\ \/ Onto(file, dir, "PubClear", "ClearPending", file, f.node, f.etag)
         \/ Onto(file, dir, "PubReload", "ListRemote", f.node.parent, f.node, f.etag)
      /\ buffer'[file] = IF file = f.job.on THEN BufferAfter(f, buffer[file]) ELSE buffer[file]
  BY <1>1, <1>3, GoingOn, TwoObjects
<1>5. buffer'[file] = buffer[file]
  BY <1>1, <1>4 DEF BufferAfter, InPublish
<1>6. FileFlow(flow'[file])
  BY <1>1, <1>4 DEF Onto, FileFlow, InPublish, Job
<1> QED
  BY <1>4, <1>5, <1>6, StaysKernel DEF Onto

LEMMA PubErrorDone ==
    ASSUME Kernel, flow[file].step = "PubError", NEW c \in Answers,
           c.kind = "Done", Finishes(file, c)
    PROVE  /\ Kernel' /\ flow'[dir] = flow[dir]
           /\ buffer'[file] = buffer[file]
           /\ FreshFile(flow'[file], buffer'[file])
<1> DEFINE f == flow[file]
           m == After(file, c)
<1>1. /\ Busy(file) /\ f \in Flow /\ ~f.abort /\ FileAsk(f.intent) /\ ~Parked(file)
      /\ InPublish(f)
  BY FileIsBusy DEF Busy, InWrite, InPublish
<1>2. m = PublishNext(file, f, c)
  BY <1>1 DEF After, Advance, AfterSuccess, InPublish
<1>3. m.then \in {"Done", "Fail"}
  BY <1>1, <1>2 DEF PublishNext, Finish, Fail, Go
<1>4. /\ IInv' /\ Over(file, dir)
      /\ buffer'[file] = IF file = f.job.on THEN BufferAfter(f, buffer[file]) ELSE buffer[file]
  BY <1>1, <1>3, GoingOn, TwoObjects
<1>5. buffer'[file] = buffer[file]
  BY <1>1, <1>4 DEF BufferAfter, InPublish
<1> QED
  BY <1>4, <1>5, StaysKernel

LEMMA PubDiscardDone ==
    ASSUME Kernel, flow[file].step = "PubDiscard", NEW c \in Answers,
           c.kind = "Done", Finishes(file, c)
    PROVE  /\ Kernel' /\ flow'[dir] = flow[dir]
           /\ buffer'[file] = NoBuffer
           /\ FreshFile(flow'[file], buffer'[file])
<1> DEFINE f == flow[file]
           m == After(file, c)
<1>1. /\ Busy(file) /\ f \in Flow /\ ~f.abort /\ FileAsk(f.intent) /\ ~Parked(file)
      /\ InPublish(f)
  BY FileIsBusy DEF Busy, InWrite, InPublish
<1>2. m = PublishNext(file, f, c)
  BY <1>1 DEF After, Advance, AfterSuccess, InPublish
<1>3. m.then \in {"Done", "Fail"}
  BY <1>1, <1>2 DEF PublishNext, Finish, Fail, Go
<1>4. /\ IInv' /\ Over(file, dir)
      /\ buffer'[file] = IF file = f.job.on THEN BufferAfter(f, buffer[file]) ELSE buffer[file]
  BY <1>1, <1>3, GoingOn, TwoObjects
<1>5. buffer'[file] = NoBuffer
  BY <1>1, <1>4 DEF BufferAfter, InPublish
<1> QED
  BY <1>4, <1>5, StaysKernel

LEMMA WriteBytesDone ==
    ASSUME Kernel, flow[file].step = "WriteBytes", buffer[file].open, NEW c \in Answers,
           c.kind = "Done", Finishes(file, c)
    PROVE  /\ Kernel' /\ flow'[dir] = flow[dir]
           /\ buffer'[file] = [buffer[file] EXCEPT !.dirty = TRUE]
           /\ FreshFile(flow'[file], buffer'[file])
<1> DEFINE f == flow[file]
           m == After(file, c)
<1>1. /\ Busy(file) /\ f \in Flow /\ ~f.abort /\ FileAsk(f.intent) /\ ~Parked(file)
      /\ InWrite(f)
  BY FileIsBusy DEF Busy, InWrite, InPublish
<1>2. m = WriteNext(file, f, c, BuffersAfter(file, c)[file])
  BY <1>1 DEF After, Advance, AfterSuccess, InWrite
<1>3. m.then \in {"Done", "Fail"}
  BY <1>1, <1>2 DEF WriteNext, Finish, Fail, Go
<1>4. /\ IInv' /\ Over(file, dir)
      /\ buffer'[file] = IF file = f.job.on THEN BufferAfter(f, buffer[file]) ELSE buffer[file]
  BY <1>1, <1>3, GoingOn, TwoObjects
<1>5. buffer'[file] = [buffer[file] EXCEPT !.dirty = TRUE]
  BY <1>1, <1>4 DEF BufferAfter, InWrite
<1> QED
  BY <1>4, <1>5, StaysKernel

\* A write goes to the buffer if there is one, and fills one first otherwise.
LEMMA WriteNodeFinds ==
    ASSUME Kernel, flow[file].step = "WriteNode", NEW c \in Answers,
           c.kind = "Node", Finishes(file, c)
    PROVE  /\ Kernel' /\ buffer'[file] = buffer[file] /\ flow'[dir] = flow[dir]
           /\ \/ FreshFile(flow'[file], buffer'[file])
              \/ /\ flow'[file].step = "WriteBytes" /\ buffer[file].open
                 /\ flow'[file].intent = flow[file].intent
              \/ /\ flow'[file].step = "WritePrepare" /\ ~buffer[file].open
                 /\ flow'[file].intent = flow[file].intent
                 /\ flow'[file].node = c.node /\ "found" \in c.node.is
                 /\ flow'[file].job.op = "CreateBuffer" => "nonempty" \notin c.node.is
<1> DEFINE f == flow[file]
           m == After(file, c)
           b == BuffersAfter(file, c)[file]
<1>1. /\ Busy(file) /\ f \in Flow /\ ~f.abort /\ FileAsk(f.intent) /\ ~Parked(file)
      /\ InWrite(f)
  BY FileIsBusy DEF Busy, InPublish
<1>2. m = WriteNext(file, f, c, b)
  BY <1>1 DEF After, Advance, AfterSuccess, InWrite
<1>3. b = buffer[file]
  BY <1>1, TwoObjects DEF BuffersAfter, BufferAfter, InWrite
<1>4. \/ m.then = "Fail"
      \/ To(m, "WriteBytes", "WriteBuffer", file, c.node, f.etag) /\ buffer[file].open
      \/ /\ ~buffer[file].open /\ "found" \in c.node.is
         /\ \/ To(m, "WritePrepare", "HydrateBuffer", file, c.node, f.etag)
            \/ /\ To(m, "WritePrepare", "CreateBuffer", file, c.node, f.etag)
               /\ "nonempty" \notin c.node.is
  <2> HIDE DEF b
  <2> QED
    BY <1>1, <1>2, <1>3 DEF WriteNext, Do, Go, To, Fail, Knowing, Flow
<1>5. /\ IInv'
      /\ buffer'[file] = IF file = f.job.on THEN BufferAfter(f, buffer[file]) ELSE buffer[file]
  BY <1>1, GoingOn, TwoObjects
<1>6. buffer'[file] = buffer[file]
  BY <1>1, <1>5 DEF BufferAfter, InWrite
<1>7. CASE m.then = "Fail"
  <2>1. Over(file, dir)
    BY <1>1, <1>7, GoingOn, TwoObjects
  <2> QED
    BY <1>5, <1>6, <2>1, StaysKernel
<1>8. CASE To(m, "WriteBytes", "WriteBuffer", file, c.node, f.etag) /\ buffer[file].open
  <2>1. Onto(file, dir, "WriteBytes", "WriteBuffer", file, c.node, f.etag)
    BY <1>1, <1>8, GoingOn, TwoObjects
  <2>2. FileFlow(flow'[file])
    BY <1>1, <2>1 DEF Onto, FileFlow, InWrite, Job
  <2> QED
    BY <1>5, <1>6, <1>8, <2>1, <2>2, StaysKernel DEF Onto
<1>9. ASSUME NEW op \in {"HydrateBuffer", "CreateBuffer"},
             To(m, "WritePrepare", op, file, c.node, f.etag),
             op = "CreateBuffer" => "nonempty" \notin c.node.is,
             ~buffer[file].open, "found" \in c.node.is
      PROVE  /\ Kernel' /\ flow'[dir] = flow[dir]
             /\ flow'[file].step = "WritePrepare"
             /\ flow'[file].intent = flow[file].intent
             /\ flow'[file].node = c.node
             /\ flow'[file].job.op = "CreateBuffer" => "nonempty" \notin c.node.is
  <2>1. Onto(file, dir, "WritePrepare", op, file, c.node, f.etag)
    BY <1>1, <1>9, GoingOn, TwoObjects
  <2>2. FileFlow(flow'[file])
    BY <1>1, <2>1 DEF Onto, FileFlow, InWrite, Job
  <2> QED
    BY <1>5, <1>9, <2>1, <2>2, StaysKernel DEF Onto, Job
<1>10. CASE /\ ~buffer[file].open /\ "found" \in c.node.is
            /\ \/ To(m, "WritePrepare", "HydrateBuffer", file, c.node, f.etag)
               \/ /\ To(m, "WritePrepare", "CreateBuffer", file, c.node, f.etag)
                  /\ "nonempty" \notin c.node.is
  BY <1>6, <1>9, <1>10
<1> QED
  BY <1>4, <1>7, <1>8, <1>10

LEMMA WritePrepareDone ==
    ASSUME Kernel, flow[file].step = "WritePrepare", NEW c \in Answers,
           c.kind = "Done", Finishes(file, c)
    PROVE  /\ Kernel' /\ flow'[dir] = flow[dir]
           /\ buffer'[file].open /\ ~buffer'[file].dirty
           /\ buffer'[file].base = flow[file].node.etag
           /\ flow'[file].step = "WriteBytes" /\ flow'[file].intent = flow[file].intent
<1> DEFINE f == flow[file]
           m == After(file, c)
<1>1. /\ Busy(file) /\ f \in Flow /\ ~f.abort /\ FileAsk(f.intent) /\ ~Parked(file)
      /\ InWrite(f)
  BY FileIsBusy DEF Busy, InPublish
<1>2. m = WriteNext(file, f, c, BuffersAfter(file, c)[file])
  BY <1>1 DEF After, Advance, AfterSuccess, InWrite
<1>3. To(m, "WriteBytes", "WriteBuffer", file, f.node, f.etag)
  BY <1>1, <1>2 DEF WriteNext, Do, Go, To
<1>4. /\ IInv' /\ Onto(file, dir, "WriteBytes", "WriteBuffer", file, f.node, f.etag)
      /\ buffer'[file] = IF file = f.job.on THEN BufferAfter(f, buffer[file]) ELSE buffer[file]
  BY <1>1, <1>3, GoingOn, TwoObjects
<1>5. buffer'[file] = Opened(f) /\ f.intent.kind = "Write"
  BY <1>1, <1>4 DEF BufferAfter, InWrite
<1>6. FileFlow(flow'[file])
  BY <1>1, <1>4 DEF Onto, FileFlow, InWrite, Job
<1>7. Kernel' /\ flow'[dir] = flow[dir]
  BY <1>4, <1>6, StaysKernel DEF Onto
<1>8. (f.intent.kind = "Materialise") = FALSE
  BY <1>5
<1>9. buffer'[file] = [open |-> TRUE, dirty |-> FALSE, ignored |-> "ignored" \in f.node.is,
                       mtime |-> FALSE, base |-> f.node.etag]
  BY <1>5, <1>8 DEF Opened
<1>10. buffer'[file].open /\ ~buffer'[file].dirty /\ buffer'[file].base = f.node.etag
  BY <1>9
<1> QED
  BY <1>4, <1>7, <1>10 DEF Onto

-----------------------------------------------------------------------------
(* The same of the directory's flow, which creates the file.               *)

LEMMA DirIsBusy ==
    ASSUME Kernel, Busy(dir)
    PROVE  /\ flow[dir] \in Flow /\ ~flow[dir].abort /\ DirAsk(flow[dir].intent) /\ ~Parked(dir)
           /\ \/ flow[dir].step = "MatInsert" /\ flow[dir].job = Job("InsertNode", dir)
              \/ flow[dir].step = "MatLookup" /\ flow[dir].job = Job("ReadChild", dir)
              \/ /\ flow[dir].step = "MatBuffer" /\ flow[dir].job = Job("CreateBuffer", file)
                 /\ flow[dir].node.etag = NoVersion /\ flow[dir].node.id = file
<1>1. flow[dir] \in Flow /\ DirFlow(flow[dir]) /\ flow[dir] # IdleFlow
  BY TwoObjects DEF Kernel, IInv, Healthy, Busy, IdleFlow
<1> QED
  BY <1>1 DEF DirFlow, Parked

LEMMA DirFails ==
    ASSUME Kernel, Busy(dir), NEW c \in Answers, c.kind = "Failed", Finishes(dir, c)
    PROVE  /\ Kernel' /\ buffer'[file] = buffer[file] /\ flow'[file] = flow[file]
           /\ FreshDir(flow'[dir])
<1>1. /\ ~flow[dir].abort /\ ~Parked(dir)
      /\ flow[dir].step \in {"MatInsert", "MatLookup", "MatBuffer"}
  BY DirIsBusy
<1>2. After(dir, c).then = "Fail"
  BY <1>1 DEF After, Advance, AfterFailure, PastCommit, Fail, Go
<1>3. IInv' /\ Over(dir, file) /\ buffer'[file] = buffer[file]
  BY <1>1, <1>2, GoingOn, TwoObjects
<1> QED
  BY <1>3, StaysKernel

LEMMA MatInsertDone ==
    ASSUME Kernel, flow[dir].step = "MatInsert", NEW c \in Answers,
           c.kind = "Done", Finishes(dir, c)
    PROVE  /\ Kernel' /\ buffer'[file] = buffer[file] /\ flow'[file] = flow[file]
           /\ flow'[dir].step = "MatLookup"
<1> DEFINE f == flow[dir]
<1>1. Busy(dir) /\ ~f.abort /\ DirAsk(f.intent) /\ ~Parked(dir) /\ f.job = Job("InsertNode", dir)
  BY DirIsBusy DEF Busy
<1>2. To(After(dir, c), "MatLookup", "ReadChild", dir, f.node, f.etag)
  BY <1>1 DEF After, Advance, AfterSuccess, MaterialiseNext, Do, Go, To, DirAsk
<1>3. /\ IInv' /\ Onto(dir, file, "MatLookup", "ReadChild", dir, f.node, f.etag)
      /\ buffer'[file] = buffer[file]
  BY <1>1, <1>2, GoingOn, TwoObjects DEF Job
<1>4. DirFlow(flow'[dir])
  BY <1>1, <1>3 DEF Onto, DirFlow
<1> QED
  BY <1>3, <1>4, StaysKernel DEF Onto

LEMMA MatLookupFinds ==
    ASSUME Kernel, flow[dir].step = "MatLookup", NEW c \in Answers,
           c.kind = "Node", Finishes(dir, c),
           "found" \in c.node.is => c.node.id = file /\ c.node.etag = NoVersion
    PROVE  /\ Kernel' /\ buffer'[file] = buffer[file] /\ flow'[file] = flow[file]
           /\ FreshDir(flow'[dir]) \/ flow'[dir].step = "MatBuffer"
<1> DEFINE f == flow[dir]
           m == After(dir, c)
<1>1. /\ Busy(dir) /\ ~f.abort /\ DirAsk(f.intent) /\ ~Parked(dir)
      /\ f.job = Job("ReadChild", dir) /\ f \in Flow
  BY DirIsBusy DEF Busy
<1>2. \/ m.then = "Fail"
      \/ To(m, "MatBuffer", "CreateBuffer", file, c.node, f.etag) /\ "found" \in c.node.is
  BY <1>1 DEF After, Advance, AfterSuccess, MaterialiseNext, Do, Go, To, DirAsk, Fail,
              Knowing, Flow
<1>3. IInv' /\ buffer'[file] = buffer[file]
  BY <1>1, GoingOn, TwoObjects DEF Job
<1>4. CASE m.then = "Fail"
  <2>1. Over(dir, file)
    BY <1>1, <1>4, GoingOn, TwoObjects
  <2> QED
    BY <1>3, <2>1, StaysKernel
<1>5. CASE To(m, "MatBuffer", "CreateBuffer", file, c.node, f.etag) /\ "found" \in c.node.is
  <2>1. Onto(dir, file, "MatBuffer", "CreateBuffer", file, c.node, f.etag)
    BY <1>1, <1>5, GoingOn, TwoObjects
  <2>2. DirFlow(flow'[dir])
    BY <1>1, <1>5, <2>1 DEF Onto, DirFlow
  <2> QED
    BY <1>3, <2>1, <2>2, StaysKernel DEF Onto
<1> QED
  BY <1>2, <1>4, <1>5

LEMMA MatBufferDone ==
    ASSUME Kernel, flow[dir].step = "MatBuffer", NEW c \in Answers,
           c.kind = "Done", Finishes(dir, c)
    PROVE  /\ Kernel' /\ flow'[file] = flow[file] /\ FreshDir(flow'[dir])
           /\ buffer'[file].open /\ buffer'[file].dirty /\ buffer'[file].base = NoVersion
<1> DEFINE f == flow[dir]
<1>1. /\ Busy(dir) /\ ~f.abort /\ DirAsk(f.intent) /\ ~Parked(dir)
      /\ f.job = Job("CreateBuffer", file) /\ f.node.etag = NoVersion
  BY DirIsBusy DEF Busy
<1>2. After(dir, c).then = "Done"
  BY <1>1 DEF After, Advance, AfterSuccess, MaterialiseNext, Finish, Go, DirAsk
<1>3. IInv' /\ Over(dir, file) /\ buffer'[file] = BufferAfter(f, buffer[file])
  BY <1>1, <1>2, GoingOn, TwoObjects DEF Job
<1>4. buffer'[file] = Opened(f)
  BY <1>1, <1>3 DEF BufferAfter, Job
<1>5. Kernel' /\ flow'[file] = flow[file] /\ FreshDir(flow'[dir])
  BY <1>3, StaysKernel
<1>6. f.intent.kind = "Materialise"
  BY <1>1 DEF DirAsk
<1>7. (f.intent.kind = "Materialise") = TRUE
  BY <1>6
<1>8. buffer'[file] = [open |-> TRUE, dirty |-> TRUE, ignored |-> "ignored" \in f.node.is,
                       mtime |-> FALSE, base |-> f.node.etag]
  BY <1>4, <1>7 DEF Opened
<1>9. buffer'[file].open /\ buffer'[file].dirty /\ buffer'[file].base = NoVersion
  BY <1>1, <1>8
<1> QED
  BY <1>5, <1>9

-----------------------------------------------------------------------------
(* The invariant of the world. What makes it inductive is what the steps   *)
(* of a publish know, and what the bases of the buffer and of the record   *)
(* promise of the scratch file. All of it is said beside a set U of edits  *)
(* that are not counted: a step that may expose more of them keeps the     *)
(* invariant beside what will have been exposed when it is done.           *)

\* The server has it, or a conflicted copy.
Sent(e)    == e \in OnServer \/ InCopies(e)
AllSent(U) == \A e \in saved \ U : Sent(e)
Placed     == row.id \/ row.etag # NoVersion

\* A row without a size says that its version has nothing the server still has.
SizeIsTrue(U) == row.here /\ ~row.sized =>
                 \A e \in cloud.held[row.etag] \ U : e \notin OnServer

\* Of version v, the scratch file has all that the server still has ...
Holds(U, v) == disk.there => \A e \in cloud.held[v] \ U : e \in OnServer => e \in disk.bytes

\* ... and what v has of our edits needs no upload any more.
PastSent(U, v) == disk.there => \A e \in cloud.held[v] \ U : e \in saved => Sent(e)

\* What is on the server is in the scratch file: the only excuse for an upload
\* that asks for nothing.
Covers(U) == disk.there /\ row.here /\ Placed => \A e \in OnServer \ U : e \in disk.bytes

Numbers ==
    /\ cloud.held[NoVersion] = {}
    /\ cloud.etag <= cloud.newest /\ row.etag <= cloud.newest
    /\ owed.base <= cloud.newest /\ looked.base <= cloud.newest
    /\ buffer[file].base <= cloud.newest
    /\ flow[file].step = "PubRecord" => flow[file].etag <= cloud.newest
    /\ row.id => row.etag # NoVersion

\* A creation has the name to itself.
DirAlone ==
    Busy(dir) =>
        /\ ~Busy(file) /\ handing = {} /\ looked = NoRecord /\ owed.state = "no"
        /\ flow[dir].step = "MatInsert" => row.here \/ ~buffer[file].open
        /\ flow[dir].step \in {"MatLookup", "MatBuffer"} =>
              row.here /\ ~Placed /\ ~buffer[file].open /\ ~row.sized

PubSteps == {"PubNode", "PubCommit", "PubSize", "PubUpload", "PubConflict", "PubRecord",
             "PubStore", "PubReload", "PubClear", "PubError"}

\* What a flow knows at a step of its script.
Scripted(U) ==
    LET st == flow[file].step IN
    /\ st \in PubSteps => buffer[file].open /\ buffer[file].dirty
    /\ st \in {"PubCommit", "PubSize", "PubUpload", "PubConflict", "PubRecord",
               "PubStore", "PubReload"} => row.here
    /\ st \in {"PubCommit", "PubSize", "PubUpload"} =>
          ("materialised" \in flow[file].node.is => Placed)
    /\ st \in {"PubSize", "PubUpload", "PubConflict", "PubRecord"} =>
          row.sized \/ disk.bytes = {}
    /\ st = "PubRecord" =>
          /\ flow[file].etag # NoVersion
          /\ disk.there => \A e \in cloud.held[flow[file].etag] : e \in disk.bytes
    /\ st \in {"PubStore", "PubReload"} => buffer[file].base # NoVersion
    /\ st \in {"PubRecord", "PubStore", "PubReload", "PubClear"} => AllSent(U)
    /\ st \in {"PubStore", "PubReload", "PubClear", "PubDiscard"} => SizeIsTrue(U)
    /\ st = "PubDiscard" => buffer[file].open /\ owed.state = "no"
    /\ st = "WritePrepare" =>
          /\ ~buffer[file].open /\ row.here /\ flow[file].node.etag = row.etag
          /\ flow[file].job.op = "CreateBuffer" => ~row.sized
    /\ st = "WriteBytes" => buffer[file].open

\* What the record of an owed upload goes with.
Owing(U) ==
    /\ owed.state # "no" => row.here
    /\ ~disk.there => disk.bytes = {}
    /\ ~buffer[file].open /\ owed.state = "no" => disk = NoScratch
    /\ ~buffer[file].open /\ owed.state # "no" =>
          /\ ~Busy(file) /\ handing = {}
          /\ looked # NoRecord => looked.base = owed.base
    /\ buffer[file].open /\ ~buffer[file].dirty => owed.state = "no"
    /\ buffer[file].open /\ owed.state # "no" /\ buffer[file].base = NoVersion
          => owed.base = NoVersion
    /\ SizeIsTrue(U) \/ (owed.state # "no" /\ owed.base # NoVersion)

\* What the bases promise.
Bases(U) ==
    /\ buffer[file].open => Holds(U, buffer[file].base) /\ PastSent(U, buffer[file].base)
    /\ owed.state # "no" => Holds(U, owed.base) /\ PastSent(U, owed.base)
    /\ buffer[file].open /\ buffer[file].base = NoVersion
          /\ flow[file].step \notin {"PubClear", "PubDiscard"} => Covers(U)
    /\ ~buffer[file].open /\ owed.state # "no" /\ owed.base = NoVersion => Covers(U)

\* What the properties say of the edits that count.
OursAreHere(U) == \A e \in saved \ U :
    e \in OnServer \/ InCopies(e) \/ (owed.state # "no" /\ e \in disk.bytes)
TheirsAreHere(U) == \A e \in theirs \ U : e \in OnServer \/ InCopies(e)

WInv(U) == /\ Kernel /\ WorldOK /\ DirAlone /\ Numbers
           /\ Scripted(U) /\ Owing(U) /\ Bases(U)
           /\ OursAreHere(U) /\ TheirsAreHere(U)

\* What a step exposes is among the edits that do not count.
Told(U) == Exposed' \subseteq U

LEMMA VersionsAreNumbers ==
    /\ NoVersion = 0 /\ \A v \in Versions \cup {NoVersion} : v \in Nat
    /\ NoVersion \notin Versions
<1>1. Cardinality(Versions) \in Nat
  BY WorldAssumption, FS_CardinalityType
<1>2. \A v \in Versions : v \in Nat /\ v # 0
  BY <1>1, WorldAssumption
<1> QED
  BY <1>2, WorldAssumption

LEMMA WhatComesBack ==
    /\ Success \in Answers /\ Success.kind = "Done"
    /\ \A why \in {"Io", "Permanent"} :
          /\ Failure(why) \in Answers /\ Failure(why).kind = "Failed" /\ Failure(why).why = why
    /\ \A e \in Versions :
          LET c == Came("Uploaded", NoNode, e, "None")
          IN  c \in Answers /\ c.kind = "Uploaded" /\ c.etag = e
    /\ LET c == Came("Rejected", NoNode, NoVersion, "None")
       IN  c \in Answers /\ c.kind = "Rejected"
<1>1. NoNode \in Node
  BY DEF NoNode, Node
<1> QED
  BY <1>1 DEF Success, Failure, Came, Answers, Completion, Failures

LEMMA WhatIsPresented ==
    ASSUME WorldOK
    PROVE  LET c == Came("Node", Presented, NoVersion, "None")
           IN  /\ c \in Answers /\ c.kind = "Node" /\ c.node = Presented
               /\ "ignored" \notin Presented.is
               /\ ("found" \in Presented.is) = row.here
               /\ row.here => /\ Presented.etag = row.etag /\ Presented.id = file
                              /\ "materialised" \in Presented.is <=> Placed
                              /\ "nonempty" \in Presented.is <=>
                                    IF disk.there THEN disk.bytes # {} ELSE row.sized
<1> DEFINE A == IF IF disk.there THEN disk.bytes # {} ELSE row.sized THEN {"nonempty"} ELSE {}
           B == IF Placed THEN {"materialised"} ELSE {}
           C == IF row.id THEN {"identified"} ELSE {}
           is == {"found", "writable"} \cup A \cup B \cup C
<1>1. /\ NoNode \in Node /\ row.etag \in Versions \cup {NoVersion}
      /\ row.here \in BOOLEAN
  BY DEF NoNode, Node, WorldOK
<1>2. /\ A \subseteq {"nonempty"} /\ B \subseteq {"materialised"} /\ C \subseteq {"identified"}
      /\ "materialised" \in B <=> Placed
      /\ "nonempty" \in A <=> IF disk.there THEN disk.bytes # {} ELSE row.sized
  OBVIOUS
<1>3. Presented = IF ~row.here THEN NoNode
                  ELSE [id |-> file, parent |-> dir, etag |-> row.etag, is |-> is]
  BY DEF Presented, Placed
<1> HIDE DEF A, B, C
<1>4. /\ is \subseteq RowFacts /\ "found" \in is /\ "ignored" \notin is
      /\ "materialised" \in is <=> "materialised" \in B
      /\ "nonempty" \in is <=> "nonempty" \in A
  BY <1>2 DEF RowFacts
<1> HIDE DEF is
<1>5. Presented \in Node
  BY <1>1, <1>3, <1>4, TwoObjects DEF Node
<1>6. /\ "ignored" \notin Presented.is /\ ("found" \in Presented.is) = row.here
  BY <1>1, <1>3, <1>4 DEF NoNode
<1>7. row.here => /\ Presented.etag = row.etag /\ Presented.id = file /\ Presented.is = is
  BY <1>3
<1>8. \A n \in Node : LET c == Came("Node", n, NoVersion, "None")
                      IN  c \in Answers /\ c.kind = "Node" /\ c.node = n
  BY DEF Came, Answers, Completion, Failures
<1>9. LET c == Came("Node", Presented, NoVersion, "None")
      IN  c \in Answers /\ c.kind = "Node" /\ c.node = Presented
  BY <1>5, <1>8
<1>10. row.here => /\ "materialised" \in Presented.is <=> Placed
                   /\ "nonempty" \in Presented.is <=>
                         IF disk.there THEN disk.bytes # {} ELSE row.sized
  <2>1. "materialised" \in is <=> Placed
    BY <1>2, <1>4
  <2>2. "nonempty" \in is <=> IF disk.there THEN disk.bytes # {} ELSE row.sized
    BY <1>2, <1>4
  <2> QED
    BY <1>7, <2>1, <2>2
<1> QED
  BY <1>6, <1>7, <1>9, <1>10

-----------------------------------------------------------------------------
(* The server only gains: what an upload, a merge or somebody else's save  *)
(* puts there.                                                             *)

LEMMA PutFacts ==
    ASSUME WorldOK, Numbers, CanPut, NEW X \in SUBSET Edits, cloud' = Put(X)
    PROVE  /\ cloud' \in [etag : Versions \cup {NoVersion}, newest : Versions \cup {NoVersion},
                          held : [Versions \cup {NoVersion} -> SUBSET Edits],
                          copies : SUBSET SUBSET Edits]
           /\ cloud'.newest = cloud.newest + 1 /\ cloud'.etag = cloud.newest + 1
           /\ cloud.newest + 1 \in Versions
           /\ \A v \in Versions \cup {NoVersion} : v <= cloud.newest => cloud'.held[v] = cloud.held[v]
           /\ cloud'.held[cloud.newest + 1] = X /\ OnServer' = X
           /\ cloud'.held[NoVersion] = {}
           /\ \A e : InCopies(e)' <=> InCopies(e)
<1> DEFINE n == cloud.newest + 1
<1>1. /\ cloud \in [etag : Versions \cup {NoVersion}, newest : Versions \cup {NoVersion},
                    held : [Versions \cup {NoVersion} -> SUBSET Edits],
                    copies : SUBSET SUBSET Edits]
      /\ n \in Versions
  BY DEF WorldOK, CanPut
<1>2. cloud.newest \in Nat /\ n > cloud.newest /\ n # NoVersion
  <2>1. cloud.newest \in Versions \cup {NoVersion}
    BY <1>1
  <2>2. cloud.newest \in Nat
    BY <2>1, VersionsAreNumbers
  <2> QED
    BY <2>2, VersionsAreNumbers
<1>3. cloud' = [cloud EXCEPT !.etag = n, !.newest = n, !.held[n] = X]
  BY DEF Put
<1> HIDE DEF n
<1>4. /\ cloud'.etag = n /\ cloud'.newest = n /\ cloud'.copies = cloud.copies
      /\ cloud'.held = [cloud.held EXCEPT ![n] = X]
      /\ cloud' = [etag |-> n, newest |-> n, held |-> [cloud.held EXCEPT ![n] = X],
                   copies |-> cloud.copies]
  BY <1>1, <1>3
<1>5. \A v \in Versions \cup {NoVersion} : v <= cloud.newest => v # n
  BY <1>1, <1>2, VersionsAreNumbers
<1>6. /\ [cloud.held EXCEPT ![n] = X] \in [Versions \cup {NoVersion} -> SUBSET Edits]
      /\ [cloud.held EXCEPT ![n] = X][n] = X
      /\ \A v \in Versions \cup {NoVersion} : v # n => [cloud.held EXCEPT ![n] = X][v] = cloud.held[v]
  BY <1>1
<1>7. OnServer' = X
  BY <1>4, <1>6 DEF OnServer
<1>8. cloud'.held[NoVersion] = {}
  BY <1>2, <1>4, <1>6 DEF Numbers
<1>9. \A e : InCopies(e)' <=> InCopies(e)
  BY <1>4 DEF InCopies
<1>10. \A v \in Versions \cup {NoVersion} : v <= cloud.newest => cloud'.held[v] = cloud.held[v]
  BY <1>4, <1>5, <1>6
<1>11. cloud' \in [etag : Versions \cup {NoVersion}, newest : Versions \cup {NoVersion},
                    held : [Versions \cup {NoVersion} -> SUBSET Edits],
                    copies : SUBSET SUBSET Edits]
  BY <1>1, <1>4, <1>6
<1> QED
  BY <1>1, <1>4, <1>6, <1>7, <1>8, <1>9, <1>10, <1>11 DEF n

\* A flow that has just started knows nothing yet.
LEMMA FreshKnowsNothing ==
    ASSUME NEW U, FreshFile(flow'[file], buffer'[file]), Owing(U)'
    PROVE  Scripted(U)' /\ flow'[file].step # "PubRecord"
<1>1. /\ flow'[file].step \in {"Idle", "WriteNode", "PubNode", "PubDiscard"}
      /\ flow'[file].step = "PubNode" => buffer'[file].open /\ buffer'[file].dirty
      /\ flow'[file].step = "PubDiscard" => buffer'[file].open /\ ~buffer'[file].dirty
  BY DEF FreshFile, IdleFlow
<1>2. flow'[file].step = "PubDiscard" => SizeIsTrue(U)' /\ owed'.state = "no"
  BY <1>1 DEF Owing
<1> HIDE DEF Owing
<1> QED
  BY <1>1, <1>2 DEF Scripted, PubSteps

\* Where there is no base, what the scratch file has not got is exposed.
LEMMA ExposedOrCovered ==
    ASSUME NEW U, Told(U)
    PROVE  (NoBase => Covers(U))'
  BY DEF Told, Exposed, NoBase, Covers, Placed, OnServer

LEMMA StepOfJob ==
    ASSUME Kernel, NEW op, Runs(file, op)
    PROVE  /\ Busy(file) /\ ~Parked(file) /\ flow[file] \in Flow
           /\ op = "ReadNode" => flow[file].step \in {"WriteNode", "PubNode"}
           /\ op \in {"CreateBuffer", "HydrateBuffer"} => flow[file].step = "WritePrepare"
           /\ op = "WriteBuffer"     => flow[file].step = "WriteBytes"
           /\ op = "MarkPending"     => flow[file].step = "PubCommit"
           /\ op = "BufferSize"      => flow[file].step = "PubSize"
           /\ op = "Upload"          => flow[file].step = "PubUpload"
           /\ op = "ResolveConflict" => flow[file].step = "PubConflict"
           /\ op = "RecordVersion"   => flow[file].step = "PubRecord"
           /\ op = "StoreBlob"       => flow[file].step = "PubStore"
           /\ op = "ListRemote"      => flow[file].step = "PubReload"
           /\ op = "ClearPending"    => flow[file].step = "PubClear"
           /\ op = "SetUploadError"  => flow[file].step = "PubError"
           /\ op = "DiscardBuffer"   => flow[file].step = "PubDiscard"
           /\ op \notin {"InsertNode", "ReadChild"}
<1>1. Busy(file) /\ flow[file].job.op = op
  BY DEF Runs
<1> QED
  BY <1>1, FileIsBusy DEF InWrite, InPublish

\* A job of the file that leaves the world as it is.
LEMMA NothingHappens ==
    ASSUME NEW U, WInv(U), Kernel', Busy(file), flow'[dir] = flow[dir], buffer'[file] = buffer[file],
           UNCHANGED <<row, disk, owed, looked, handing, cloud, saved, theirs>>,
           inbox' \in Seq(Tickets),
           flow'[file].step # "PubRecord",
           flow[file].step \in {"PubClear", "PubDiscard"} => (NoBase => Covers(U))'
    PROVE  /\ WorldOK' /\ DirAlone' /\ Numbers' /\ Owing(U)' /\ Bases(U)'
           /\ OursAreHere(U)' /\ TheirsAreHere(U)'
           /\ FreshFile(flow'[file], buffer'[file]) => Scripted(U)'
<1>1. WorldOK'
  BY DEF WInv, WorldOK
<1>2. DirAlone'
  BY DEF WInv, DirAlone, Busy
<1>3. Numbers'
  BY DEF WInv, Numbers
<1>4. SizeIsTrue(U)' <=> SizeIsTrue(U)
  BY DEF SizeIsTrue, OnServer
<1>5. buffer[file].open \/ owed.state = "no"
  BY DEF WInv, Owing
<1>6. Owing(U)'
  BY <1>4, <1>5 DEF WInv, Owing, NoRecord, NoScratch
<1>7. \A v : (Holds(U, v) => Holds(U, v)') /\ (PastSent(U, v) => PastSent(U, v)')
  BY DEF Holds, PastSent, Sent, OnServer, InCopies
<1>8. Covers(U) => Covers(U)'
  BY DEF Covers, Placed, OnServer
<1>9. Bases(U)'
  BY <1>5, <1>7, <1>8 DEF WInv, Bases, NoBase
<1>10. OursAreHere(U)' /\ TheirsAreHere(U)'
  BY DEF WInv, OursAreHere, TheirsAreHere, OnServer, InCopies
<1> QED
  BY <1>1, <1>2, <1>3, <1>6, <1>9, <1>10, FreshKnowsNothing

-----------------------------------------------------------------------------
(* Jobs of the file that only look, or fail.                               *)

LEMMA ReadsRowOfFile ==
    ASSUME NEW U, WInv(U), ReadsRow(file)
    PROVE  WInv(U)'
<1> DEFINE c == Came("Node", Presented, NoVersion, "None")
           f == flow[file]
<1>1. /\ Kernel /\ WorldOK /\ Busy(file) /\ f.step \in {"WriteNode", "PubNode"}
      /\ Finishes(file, c)
  BY StepOfJob DEF WInv, ReadsRow
<1>2. /\ c \in Answers /\ c.kind = "Node" /\ c.node = Presented /\ "ignored" \notin c.node.is
      /\ "found" \in c.node.is <=> row.here
      /\ row.here => /\ Presented.etag = row.etag
                     /\ "materialised" \in Presented.is <=> Placed
                     /\ "nonempty" \in Presented.is <=>
                           IF disk.there THEN disk.bytes # {} ELSE row.sized
  BY <1>1, WhatIsPresented DEF WorldOK
<1>3. /\ UNCHANGED <<row, disk, owed, looked, handing, cloud, saved, theirs>>
      /\ inbox' = inbox
  BY DEF ReadsRow, world
<1>4. inbox' \in Seq(Tickets)
  BY <1>1, <1>3 DEF WorldOK
<1> HIDE DEF c
<1>5. /\ Kernel' /\ buffer'[file] = buffer[file] /\ flow'[dir] = flow[dir]
      /\ \/ FreshFile(flow'[file], buffer'[file])
         \/ /\ flow'[file].step = "PubCommit" /\ flow'[file].node = Presented /\ row.here
            /\ f.step = "PubNode"
         \/ flow'[file].step = "PubDiscard" /\ ~row.here /\ f.step = "PubNode"
         \/ flow'[file].step = "WriteBytes" /\ buffer[file].open
         \/ /\ flow'[file].step = "WritePrepare" /\ ~buffer[file].open /\ row.here
            /\ flow'[file].node = Presented
            /\ flow'[file].job.op = "CreateBuffer" => "nonempty" \notin Presented.is
  <2>1. CASE f.step = "PubNode" /\ row.here
    BY <1>1, <1>2, <2>1, PubNodeFinds DEF Onto
  <2>2. CASE f.step = "PubNode" /\ ~row.here
    BY <1>1, <1>2, <2>2, PubNodeMisses DEF Onto
  <2>3. CASE f.step = "WriteNode"
    BY <1>1, <1>2, <2>3, WriteNodeFinds
  <2> QED
    BY <1>1, <2>1, <2>2, <2>3
<1>6. flow'[file].step # "PubRecord"
  BY <1>5 DEF FreshFile, IdleFlow
<1>7. /\ WorldOK' /\ DirAlone' /\ Numbers' /\ Owing(U)' /\ Bases(U)'
      /\ OursAreHere(U)' /\ TheirsAreHere(U)'
      /\ FreshFile(flow'[file], buffer'[file]) => Scripted(U)'
  BY <1>1, <1>3, <1>4, <1>5, <1>6, NothingHappens
<1>8. Scripted(U)'
  <2>1. CASE /\ flow'[file].step = "PubCommit" /\ flow'[file].node = Presented /\ row.here
             /\ f.step = "PubNode"
    <3>1. buffer[file].open /\ buffer[file].dirty
      BY <2>1 DEF WInv, Scripted, PubSteps
    <3> QED
      BY <1>2, <1>3, <1>5, <2>1, <3>1 DEF Scripted, PubSteps, Placed
  <2>2. CASE flow'[file].step = "PubDiscard" /\ ~row.here /\ f.step = "PubNode"
    BY <1>1, <1>3, <1>5, <2>2 DEF WInv, Scripted, PubSteps, Owing, SizeIsTrue
  <2>3. CASE flow'[file].step = "WriteBytes" /\ buffer[file].open
    BY <1>5, <2>3 DEF Scripted, PubSteps
  <2>4. CASE /\ flow'[file].step = "WritePrepare" /\ ~buffer[file].open /\ row.here
             /\ flow'[file].node = Presented
             /\ flow'[file].job.op = "CreateBuffer" => "nonempty" \notin Presented.is
    <3>1. disk = NoScratch
      BY <1>1, <2>4 DEF WInv, Owing
    <3> QED
      BY <1>2, <1>3, <1>5, <2>4, <3>1 DEF Scripted, PubSteps, NoScratch
  <2> QED
    BY <1>5, <1>7, <2>1, <2>2, <2>3, <2>4
<1> QED
  BY <1>5, <1>7, <1>8 DEF WInv

\* A failure that changes nothing ends the flow or marks the record.
LEMMA FailingKeeps ==
    ASSUME NEW U, WInv(U), Busy(file), NEW why \in {"Io", "Permanent"}, Finishes(file, Failure(why)),
           UNCHANGED <<row, disk, owed, looked, handing, cloud, saved, theirs>>,
           inbox' \in Seq(Tickets),
           flow[file].step \in {"PubClear", "PubDiscard"} => (NoBase => Covers(U))',
           why = "Permanent" => flow[file].step \in {"PubSize", "PubUpload", "PubConflict"}
    PROVE  WInv(U)'
<1>1. /\ Failure(why) \in Answers /\ Failure(why).kind = "Failed" /\ Failure(why).why = why
      /\ Kernel
  BY WhatComesBack DEF WInv
<1>2. /\ Kernel' /\ buffer'[file] = buffer[file] /\ flow'[dir] = flow[dir]
      /\ IF flow[file].step \in PastCommit /\ why = "Permanent"
         THEN flow'[file].step = "PubError"
         ELSE FreshFile(flow'[file], buffer'[file])
  BY <1>1, FileFails
<1>3. flow'[file].step # "PubRecord"
  BY <1>2 DEF FreshFile, IdleFlow
<1>4. /\ WorldOK' /\ DirAlone' /\ Numbers' /\ Owing(U)' /\ Bases(U)'
      /\ OursAreHere(U)' /\ TheirsAreHere(U)'
      /\ FreshFile(flow'[file], buffer'[file]) => Scripted(U)'
  BY <1>2, <1>3, NothingHappens
<1>5. Scripted(U)'
  <2>1. CASE flow'[file].step = "PubError" /\ why = "Permanent"
    <3>1. buffer[file].open /\ buffer[file].dirty
      BY <2>1 DEF WInv, Scripted, PubSteps
    <3> QED
      BY <1>2, <2>1, <3>1 DEF Scripted, PubSteps
  <2> QED
    BY <1>2, <1>4, <2>1
<1> QED
  BY <1>2, <1>4, <1>5 DEF WInv

LEMMA BufferSizeKeeps ==
    ASSUME NEW U, WInv(U), BufferSize
    PROVE  WInv(U)'
<1>1. /\ Kernel /\ Busy(file) /\ flow[file].step = "PubSize"
      /\ UNCHANGED <<row, disk, owed, looked, handing, cloud, saved, theirs>>
      /\ inbox' \in Seq(Tickets)
  BY StepOfJob DEF WInv, BufferSize, world, WorldOK
<1>2. CASE ~disk.there
  <2>1. Finishes(file, Failure("Permanent"))
    BY <1>2 DEF BufferSize
  <2> QED
    BY <1>1, <2>1, FailingKeeps
<1>3. CASE disk.there
  <2>1. Finishes(file, Success) /\ Success \in Answers /\ Success.kind = "Done"
    BY <1>3, WhatComesBack DEF BufferSize
  <2>2. /\ Kernel' /\ buffer'[file] = buffer[file]
        /\ Onto(file, dir, "PubUpload", "Upload", file, flow[file].node, flow[file].etag)
    BY <1>1, <2>1, PubSizeDone
  <2>3. /\ flow'[dir] = flow[dir] /\ flow'[file].step = "PubUpload"
        /\ flow'[file].node = flow[file].node
    BY <2>2 DEF Onto
  <2>4. /\ WorldOK' /\ DirAlone' /\ Numbers' /\ Owing(U)' /\ Bases(U)'
        /\ OursAreHere(U)' /\ TheirsAreHere(U)'
    BY <1>1, <2>2, <2>3, NothingHappens
  <2>5. Scripted(U)'
    BY <1>1, <2>2, <2>3 DEF WInv, Scripted, PubSteps, Placed
  <2> QED
    BY <2>2, <2>4, <2>5 DEF WInv
<1> QED
  BY <1>2, <1>3

LEMMA StoreBlobKeeps ==
    ASSUME NEW U, WInv(U), StoreBlob
    PROVE  WInv(U)'
<1>1. /\ Kernel /\ Busy(file) /\ flow[file].step = "PubStore"
      /\ UNCHANGED <<row, disk, owed, looked, handing, cloud, saved, theirs>>
      /\ inbox' \in Seq(Tickets)
  BY StepOfJob DEF WInv, StoreBlob, world, WorldOK
<1>2. CASE ~(row.here /\ disk.there)
  <2>1. Finishes(file, Failure("Io"))
    BY <1>2 DEF StoreBlob
  <2> QED
    BY <1>1, <2>1, FailingKeeps
<1>3. CASE row.here /\ disk.there
  <2>1. Finishes(file, Success) /\ Success \in Answers /\ Success.kind = "Done"
    BY <1>3, WhatComesBack DEF StoreBlob
  <2>2. /\ Kernel' /\ buffer'[file] = buffer[file] /\ flow'[dir] = flow[dir]
        /\ flow'[file].step \in {"PubClear", "PubReload"}
    BY <1>1, <2>1, PubStoreDone
  <2>4. /\ WorldOK' /\ DirAlone' /\ Numbers' /\ Owing(U)' /\ Bases(U)'
        /\ OursAreHere(U)' /\ TheirsAreHere(U)'
    BY <1>1, <2>2, NothingHappens
  <2>5. (AllSent(U) => AllSent(U)') /\ (SizeIsTrue(U) => SizeIsTrue(U)')
    BY <1>1 DEF AllSent, SizeIsTrue, Sent, OnServer, InCopies
  <2>6. Scripted(U)'
    BY <1>1, <2>2, <2>5 DEF WInv, Scripted, PubSteps
  <2> QED
    BY <2>2, <2>4, <2>6 DEF WInv
<1> QED
  BY <1>2, <1>3

LEMMA FailsInPassingOfFile ==
    ASSUME NEW U, WInv(U), Unspoilt, Told(U), FailsInPassing(file)
    PROVE  WInv(U)'
<1>1. /\ Kernel /\ Busy(file) /\ (NoBase => Covers(U))'
      /\ UNCHANGED <<row, disk, owed, looked, handing, cloud, saved, theirs>>
  BY ExposedOrCovered DEF WInv, FailsInPassing
<1>2. inbox' \in Seq(Tickets)
  BY DEF WInv, WorldOK, FailsInPassing
<1>3. \/ Finishes(file, Failure("Io"))
      \/ /\ Finishes(file, Failure("Permanent"))
         /\ flow[file].step \in {"PubUpload", "PubConflict"}
  <2>1. Runs(file, flow[file].job.op)
    BY DEF Runs, FailsInPassing
  <2> QED
    BY <1>1, <2>1, StepOfJob DEF FailsInPassing
<1> QED
  BY <1>1, <1>2, <1>3, FailingKeeps

-----------------------------------------------------------------------------
(* Jobs of the file that work on the scratch file, the row and the record. *)

LEMMA DirStaysIdle ==
    ASSUME NEW U, WInv(U), Busy(file)
    PROVE  ~Busy(dir) /\ (flow'[dir] = flow[dir] => DirAlone')
  BY DEF WInv, DirAlone, Busy

LEMMA WriteBufferKeeps ==
    ASSUME NEW U, WInv(U), WriteBuffer
    PROVE  WInv(U)'
<1>1. /\ Kernel /\ WorldOK /\ Busy(file) /\ flow[file].step = "WriteBytes" /\ buffer[file].open
      /\ UNCHANGED <<row, owed, looked, handing, cloud, saved, theirs>>
  BY StepOfJob DEF WInv, WriteBuffer, Scripted
<1>2. inbox \in Seq(Tickets) /\ inbox' \in Seq(Tickets)
  BY <1>1 DEF WorldOK, WriteBuffer
<1>3. CASE ~(inbox # <<>> /\ disk.there)
  <2>1. Finishes(file, Failure("Io")) /\ disk' = disk
    BY <1>3 DEF WriteBuffer
  <2> QED
    BY <1>1, <1>2, <2>1, FailingKeeps
<1>4. CASE inbox # <<>> /\ disk.there
  <2>1. /\ Finishes(file, Success) /\ Success \in Answers /\ Success.kind = "Done"
        /\ disk' = Scratch(disk.bytes \cup {Head(inbox)})
    BY <1>4, WhatComesBack DEF WriteBuffer
  <2>2. /\ Kernel' /\ flow'[dir] = flow[dir] /\ FreshFile(flow'[file], buffer'[file])
        /\ buffer'[file] = [buffer[file] EXCEPT !.dirty = TRUE]
    BY <1>1, <2>1, WriteBytesDone
  <2>3. /\ buffer'[file].open /\ buffer'[file].dirty /\ buffer'[file].base = buffer[file].base
    BY <1>1, <2>2, FileIsBusy DEF Buffer
  <2>4. disk'.there /\ disk'.bytes = disk.bytes \cup {Head(inbox)} /\ Head(inbox) \in Tickets
    BY <1>2, <1>4, <2>1 DEF Scratch
  <2>5. WorldOK'
    BY <1>1, <1>2, <2>1, <2>4 DEF WorldOK, Scratch, Edits
  <2>6. DirAlone'
    BY <1>1, <2>2, DirStaysIdle
  <2>7. flow'[file].step # "PubRecord"
    BY <2>2 DEF FreshFile, IdleFlow
  <2>8. Numbers'
    BY <1>1, <2>3, <2>7 DEF WInv, Numbers
  <2>9. SizeIsTrue(U)' <=> SizeIsTrue(U)
    BY <1>1 DEF SizeIsTrue, OnServer
  <2>10. Owing(U)'
    BY <1>1, <2>3, <2>4, <2>9 DEF WInv, Owing
  <2>11. Scripted(U)'
    BY <2>2, <2>10, FreshKnowsNothing
  <2>12. \A v : (Holds(U, v) => Holds(U, v)') /\ (PastSent(U, v) => PastSent(U, v)')
    BY <1>1, <1>4, <2>4 DEF Holds, PastSent, Sent, OnServer, InCopies
  <2>13. Covers(U) => Covers(U)'
    BY <1>1, <1>4, <2>4 DEF Covers, Placed, OnServer
  <2>14. Bases(U)'
    BY <1>1, <2>3, <2>12, <2>13 DEF WInv, Bases
  <2>15. OursAreHere(U)' /\ TheirsAreHere(U)'
    BY <1>1, <2>4 DEF WInv, OursAreHere, TheirsAreHere, OnServer, InCopies
  <2> QED
    BY <2>2, <2>5, <2>6, <2>8, <2>10, <2>11, <2>14, <2>15 DEF WInv
<1> QED
  BY <1>3, <1>4

\* The local commit: what the buffer adds to its base is owed from here on.
LEMMA MarkPendingKeeps ==
    ASSUME NEW U, WInv(U), MarkPending
    PROVE  WInv(U)'
<1> DEFINE b == buffer[file]
<1>1. /\ Kernel /\ WorldOK /\ Busy(file) /\ flow[file].step = "PubCommit"
      /\ b.open /\ b.dirty /\ row.here /\ b \in Buffer
      /\ UNCHANGED <<disk, inbox, looked, handing, cloud, theirs>>
  BY StepOfJob, FileIsBusy DEF WInv, MarkPending, Scripted, PubSteps
<1>2. Finishes(file, Success) /\ Success \in Answers /\ Success.kind = "Done"
  BY WhatComesBack DEF MarkPending
<1>3. /\ Kernel' /\ buffer'[file] = buffer[file]
      /\ Onto(file, dir, "PubSize", "BufferSize", file, flow[file].node, flow[file].etag)
  BY <1>1, <1>2, PubCommitDone
<1>4. /\ flow'[dir] = flow[dir] /\ flow'[file].step = "PubSize"
      /\ flow'[file].node = flow[file].node
  BY <1>3 DEF Onto
<1>5. /\ owed'.state = "pending" /\ owed'.base = b.base
      /\ b.base \in Versions \cup {NoVersion}
      /\ owed' \in [state : {"no", "pending", "error"}, base : Versions \cup {NoVersion}]
  BY <1>1 DEF MarkPending, Buffer
<1>6. /\ row' \in [here : BOOLEAN, id : BOOLEAN, sized : BOOLEAN, etag : Versions \cup {NoVersion}]
      /\ row'.here /\ row'.id = row.id /\ row'.etag = row.etag
      /\ disk.there => (row'.sized <=> disk.bytes # {})
      /\ ~disk.there => row'.sized = row.sized
  BY <1>1 DEF MarkPending, WorldOK
<1>7. saved' = saved \cup (disk.bytes \ cloud.held[b.base])
  BY DEF MarkPending
<1>8. disk.bytes \subseteq Edits /\ saved \subseteq Edits
  BY <1>1 DEF WorldOK
<1> HIDE DEF b
<1>9. WorldOK'
  BY <1>1, <1>5, <1>6, <1>7, <1>8 DEF WorldOK
<1>10. DirAlone'
  BY <1>1, <1>4, DirStaysIdle
<1>11. Numbers'
  BY <1>1, <1>3, <1>4, <1>5, <1>6 DEF WInv, Numbers, b
<1>12. Scripted(U)'
  BY <1>1, <1>3, <1>4, <1>6 DEF WInv, Scripted, PubSteps, Placed, Owing, b
<1>13. OnServer' = OnServer /\ (\A e : Sent(e)' <=> Sent(e)) /\ (\A e : InCopies(e)' <=> InCopies(e))
  BY <1>1 DEF OnServer, Sent, InCopies
<1>14. \A v : Holds(U, v) => Holds(U, v)'
  BY <1>1, <1>13 DEF Holds
<1>15. PastSent(U, b.base)'
  BY <1>1, <1>3, <1>7, <1>13 DEF WInv, Bases, PastSent, b
<1>16. Covers(U) => Covers(U)'
  BY <1>1, <1>6, <1>13 DEF Covers, Placed
<1>17. Bases(U)'
  BY <1>1, <1>3, <1>4, <1>5, <1>14, <1>15, <1>16 DEF WInv, Bases, b
<1>18. OursAreHere(U)' /\ TheirsAreHere(U)'
  BY <1>1, <1>5, <1>7, <1>13 DEF WInv, OursAreHere, TheirsAreHere
<1>19. b.base = NoVersion => SizeIsTrue(U)'
  <2> SUFFICES ASSUME b.base = NoVersion
               PROVE  SizeIsTrue(U)'
    OBVIOUS
  <2>1. SizeIsTrue(U) /\ Covers(U)
    BY <1>1 DEF WInv, Owing, Bases, b
  <2>2. CASE ~Placed
    <3>1. row'.etag = NoVersion /\ cloud'.held[NoVersion] = {}
      BY <1>1, <1>6, <2>2 DEF WInv, Numbers, Placed
    <3> QED
      BY <3>1 DEF SizeIsTrue
  <2>3. CASE Placed /\ disk.there
    BY <1>1, <1>6, <1>13, <2>1, <2>3 DEF SizeIsTrue, Covers
  <2>4. CASE ~disk.there
    BY <1>1, <1>6, <1>13, <2>1, <2>4 DEF SizeIsTrue
  <2> QED
    BY <2>2, <2>3, <2>4
<1>20. Owing(U)'
  BY <1>1, <1>3, <1>5, <1>6, <1>19 DEF WInv, Owing, b
<1> QED
  BY <1>3, <1>9, <1>10, <1>11, <1>12, <1>17, <1>18, <1>20 DEF WInv

LEMMA ClearPendingKeeps ==
    ASSUME NEW U, WInv(U), ClearPending
    PROVE  WInv(U)'
<1>1. /\ Kernel /\ WorldOK /\ Busy(file) /\ flow[file].step = "PubClear"
      /\ buffer[file].open /\ AllSent(U) /\ SizeIsTrue(U)
      /\ UNCHANGED <<row, disk, inbox, looked, handing, cloud, saved, theirs>>
      /\ owed' = NoRecord
  BY StepOfJob DEF WInv, ClearPending, Scripted, PubSteps
<1>2. Finishes(file, Success) /\ Success \in Answers /\ Success.kind = "Done"
  BY WhatComesBack DEF ClearPending
<1>3. /\ Kernel' /\ buffer'[file] = buffer[file]
      /\ Onto(file, dir, "PubDiscard", "DiscardBuffer", file, flow[file].node, flow[file].etag)
  BY <1>1, <1>2, PubClearDone
<1>4. flow'[dir] = flow[dir] /\ flow'[file].step = "PubDiscard"
  BY <1>3 DEF Onto
<1>5. owed'.state = "no" /\ owed'.base = NoVersion
  BY <1>1 DEF NoRecord
<1>6. OnServer' = OnServer /\ (\A e : Sent(e)' <=> Sent(e)) /\ (\A e : InCopies(e)' <=> InCopies(e))
  BY <1>1 DEF OnServer, Sent, InCopies
<1>7. WorldOK'
  BY <1>1, <1>5 DEF WorldOK, NoRecord
<1>8. DirAlone'
  BY <1>1, <1>4, DirStaysIdle
<1>9. Numbers'
  <2>1. cloud.newest \in Nat
    BY <1>1, VersionsAreNumbers DEF WorldOK
  <2> QED
    BY <1>1, <1>3, <1>4, <1>5, <2>1, VersionsAreNumbers DEF WInv, Numbers
<1>10. SizeIsTrue(U)'
  BY <1>1, <1>6 DEF SizeIsTrue
<1>11. Scripted(U)'
  BY <1>1, <1>3, <1>4, <1>5, <1>10 DEF Scripted, PubSteps
<1>12. Owing(U)'
  BY <1>1, <1>3, <1>5, <1>10 DEF WInv, Owing
<1>13. \A v : (Holds(U, v) => Holds(U, v)') /\ (PastSent(U, v) => PastSent(U, v)')
  BY <1>1, <1>6 DEF Holds, PastSent
<1>14. Bases(U)'
  BY <1>1, <1>3, <1>4, <1>5, <1>13 DEF WInv, Bases
<1>15. OursAreHere(U)' /\ TheirsAreHere(U)'
  BY <1>1, <1>6 DEF WInv, AllSent, Sent, OursAreHere, TheirsAreHere
<1> QED
  BY <1>3, <1>7, <1>8, <1>9, <1>11, <1>12, <1>14, <1>15 DEF WInv

LEMMA SetUploadErrorKeeps ==
    ASSUME NEW U, WInv(U), SetUploadError
    PROVE  WInv(U)'
<1>1. /\ Kernel /\ WorldOK /\ Busy(file) /\ flow[file].step = "PubError"
      /\ buffer[file].open /\ buffer[file].dirty
      /\ UNCHANGED <<row, disk, inbox, looked, handing, cloud, saved, theirs>>
  BY StepOfJob DEF WInv, SetUploadError, Scripted, PubSteps
<1>2. Finishes(file, Success) /\ Success \in Answers /\ Success.kind = "Done"
  BY WhatComesBack DEF SetUploadError
<1>3. /\ Kernel' /\ buffer'[file] = buffer[file] /\ flow'[dir] = flow[dir]
      /\ FreshFile(flow'[file], buffer'[file])
  BY <1>1, <1>2, PubErrorDone
<1>4. flow'[file].step # "PubRecord"
  BY <1>3 DEF FreshFile, IdleFlow
<1>5. /\ owed' \in [state : {"no", "pending", "error"}, base : Versions \cup {NoVersion}]
      /\ owed'.state = "no" <=> owed.state = "no"
      /\ owed'.base = owed.base
  BY <1>1 DEF SetUploadError, WorldOK
<1>6. OnServer' = OnServer /\ (\A e : Sent(e)' <=> Sent(e)) /\ (\A e : InCopies(e)' <=> InCopies(e))
  BY <1>1 DEF OnServer, Sent, InCopies
<1>7. WorldOK'
  BY <1>1, <1>5 DEF WorldOK
<1>8. DirAlone'
  BY <1>1, <1>3, DirStaysIdle
<1>9. Numbers'
  BY <1>1, <1>3, <1>4, <1>5 DEF WInv, Numbers
<1>10. SizeIsTrue(U)' <=> SizeIsTrue(U)
  BY <1>1, <1>6 DEF SizeIsTrue
<1>11. Owing(U)'
  BY <1>1, <1>3, <1>5, <1>10 DEF WInv, Owing
<1>12. Scripted(U)'
  BY <1>3, <1>11, FreshKnowsNothing
<1>13. \A v : (Holds(U, v) => Holds(U, v)') /\ (PastSent(U, v) => PastSent(U, v)')
  BY <1>1, <1>6 DEF Holds, PastSent
<1>14. Covers(U) => Covers(U)'
  BY <1>1, <1>6 DEF Covers, Placed
<1>15. Bases(U)'
  BY <1>1, <1>3, <1>5, <1>13, <1>14 DEF WInv, Bases
<1>16. OursAreHere(U)' /\ TheirsAreHere(U)'
  BY <1>1, <1>5, <1>6 DEF WInv, OursAreHere, TheirsAreHere
<1> QED
  BY <1>3, <1>7, <1>8, <1>9, <1>11, <1>12, <1>15, <1>16 DEF WInv

LEMMA DiscardBufferKeeps ==
    ASSUME NEW U, WInv(U), DiscardBuffer
    PROVE  WInv(U)'
<1>1. /\ Kernel /\ WorldOK /\ Busy(file) /\ flow[file].step = "PubDiscard"
      /\ owed.state = "no" /\ SizeIsTrue(U)
      /\ UNCHANGED <<row, owed, inbox, looked, handing, cloud, saved, theirs>>
      /\ disk' = NoScratch
  BY StepOfJob DEF WInv, DiscardBuffer, Scripted
<1>2. Finishes(file, Success) /\ Success \in Answers /\ Success.kind = "Done"
  BY WhatComesBack DEF DiscardBuffer
<1>3. /\ Kernel' /\ flow'[dir] = flow[dir] /\ buffer'[file] = NoBuffer
      /\ FreshFile(flow'[file], buffer'[file])
  BY <1>1, <1>2, PubDiscardDone
<1>4. flow'[file].step # "PubRecord"
  BY <1>3 DEF FreshFile, IdleFlow
<1>5. ~buffer'[file].open /\ buffer'[file].base = NoVersion /\ ~disk'.there /\ disk'.bytes = {}
  BY <1>1, <1>3 DEF NoBuffer, NoScratch
<1>6. OnServer' = OnServer /\ (\A e : Sent(e)' <=> Sent(e)) /\ (\A e : InCopies(e)' <=> InCopies(e))
  BY <1>1 DEF OnServer, Sent, InCopies
<1>7. WorldOK'
  BY <1>1 DEF WorldOK, NoScratch
<1>8. DirAlone'
  BY <1>1, <1>3, DirStaysIdle
<1>9. Numbers'
  <2>1. cloud.newest \in Nat
    BY <1>1, VersionsAreNumbers DEF WorldOK
  <2> QED
    BY <1>1, <1>4, <1>5, <2>1, VersionsAreNumbers DEF WInv, Numbers
<1>10. SizeIsTrue(U)'
  BY <1>1, <1>6 DEF SizeIsTrue
<1>11. Owing(U)'
  BY <1>1, <1>5, <1>10 DEF Owing
<1>12. Scripted(U)'
  BY <1>3, <1>11, FreshKnowsNothing
<1>13. Bases(U)'
  BY <1>1, <1>5 DEF Bases
<1>14. OursAreHere(U)' /\ TheirsAreHere(U)'
  BY <1>1, <1>6 DEF WInv, OursAreHere, TheirsAreHere
<1> QED
  BY <1>3, <1>7, <1>8, <1>9, <1>11, <1>12, <1>13, <1>14 DEF WInv

LEMMA RecordVersionKeeps ==
    ASSUME NEW U, WInv(U), RecordVersion
    PROVE  WInv(U)'
<1> SUFFICES ASSUME NEW v, v = flow[file].etag
             PROVE  WInv(U)'
  OBVIOUS
<1>1. /\ Kernel /\ WorldOK /\ Busy(file) /\ flow[file].step = "PubRecord"
      /\ buffer[file].open /\ buffer[file].dirty /\ row.here /\ AllSent(U)
      /\ v # NoVersion /\ v <= cloud.newest
      /\ disk.there => \A e \in cloud.held[v] : e \in disk.bytes
      /\ UNCHANGED <<disk, owed, inbox, looked, handing, cloud, saved, theirs>>
  BY StepOfJob DEF WInv, RecordVersion, Scripted, PubSteps, Numbers
<1>2. Finishes(file, Success) /\ Success \in Answers /\ Success.kind = "Done"
  BY WhatComesBack DEF RecordVersion
<1>3. /\ Kernel' /\ buffer'[file] = [buffer[file] EXCEPT !.base = v]
      /\ Onto(file, dir, "PubStore", "StoreBlob", file, flow[file].node, v)
  BY <1>1, <1>2, PubRecordDone
<1>4. flow'[dir] = flow[dir] /\ flow'[file].step = "PubStore"
  BY <1>3 DEF Onto
<1>5. /\ buffer'[file].open /\ buffer'[file].dirty /\ buffer'[file].base = v
      /\ v \in Versions \cup {NoVersion}
  BY <1>1, <1>3, FileIsBusy DEF Buffer, Flow
<1>6. /\ row' \in [here : BOOLEAN, id : BOOLEAN, sized : BOOLEAN, etag : Versions \cup {NoVersion}]
      /\ row'.here /\ row'.etag = v /\ row'.id = row.id
      /\ row'.sized <=> cloud.held[v] # {}
  BY <1>1, <1>5 DEF RecordVersion, WorldOK
<1>7. OnServer' = OnServer /\ (\A e : Sent(e)' <=> Sent(e)) /\ (\A e : InCopies(e)' <=> InCopies(e))
  BY <1>1 DEF OnServer, Sent, InCopies
<1>8. WorldOK'
  BY <1>1, <1>6 DEF WorldOK
<1>9. DirAlone'
  BY <1>1, <1>4, DirStaysIdle
<1>10. Numbers'
  BY <1>1, <1>4, <1>5, <1>6 DEF WInv, Numbers
<1>11. SizeIsTrue(U)'
  BY <1>1, <1>6 DEF SizeIsTrue
<1>12. AllSent(U)'
  BY <1>1, <1>7 DEF AllSent
<1>13. Scripted(U)'
  BY <1>1, <1>4, <1>5, <1>6, <1>11, <1>12 DEF Scripted, PubSteps
<1>14. Owing(U)'
  BY <1>1, <1>5, <1>6, <1>11 DEF WInv, Owing
<1>15. \A u : (Holds(U, u) => Holds(U, u)') /\ (PastSent(U, u) => PastSent(U, u)')
  BY <1>1, <1>7 DEF Holds, PastSent
<1>16. Holds(U, v)' /\ PastSent(U, v)'
  BY <1>1, <1>7, <1>12 DEF Holds, PastSent, AllSent
<1>17. Bases(U)'
  BY <1>1, <1>5, <1>15, <1>16 DEF WInv, Bases
<1>18. OursAreHere(U)' /\ TheirsAreHere(U)'
  BY <1>1, <1>7 DEF WInv, OursAreHere, TheirsAreHere
<1> QED
  BY <1>3, <1>8, <1>9, <1>10, <1>13, <1>14, <1>17, <1>18 DEF WInv

\* A relist of a row that is there, of a server with the same versions: the row
\* gets the server's version, or goes and its record with it.
LEMMA RelistFacts ==
    ASSUME NEW U, WInv(U), Busy(file), row.here, Relists(row),
           cloud'.etag = cloud.etag, cloud'.held = cloud.held, cloud'.newest = cloud.newest
    PROVE  /\ row' \in [here : BOOLEAN, id : BOOLEAN, sized : BOOLEAN,
                        etag : Versions \cup {NoVersion}]
           /\ owed' = owed \/ owed' = NoRecord
           /\ ~row'.here => owed' = NoRecord
           /\ row'.etag <= cloud.newest /\ (row'.id => row'.etag # NoVersion)
           /\ SizeIsTrue(U)'
<1>1. /\ WorldOK /\ cloud.etag <= cloud.newest /\ row.etag <= cloud.newest
      /\ row.id => row.etag # NoVersion
      /\ cloud.held[NoVersion] = {}
  BY DEF WInv, Numbers
<1>2. /\ row' = Listed(row, cloud')
      /\ owed' = IF Vanishes(row, cloud') THEN NoRecord ELSE owed
  BY DirStaysIdle DEF Relists, Changing
<1>3. CASE cloud.etag # NoVersion
  <2>1. row' = [row EXCEPT !.id = TRUE, !.etag = cloud.etag, !.sized = cloud.held[cloud.etag] # {}]
    BY <1>2, <1>3 DEF Listed
  <2>2. owed' = owed
    BY <1>2, <1>3 DEF Vanishes
  <2>3. /\ row' \in [here : BOOLEAN, id : BOOLEAN, sized : BOOLEAN,
                     etag : Versions \cup {NoVersion}]
        /\ row'.here /\ row'.etag = cloud.etag /\ (row'.sized <=> cloud.held[cloud.etag] # {})
    BY <1>1, <2>1 DEF WorldOK
  <2>4. SizeIsTrue(U)'
    BY <2>3 DEF SizeIsTrue
  <2> QED
    BY <1>1, <1>3, <2>2, <2>3, <2>4
<1>4. CASE cloud.etag = NoVersion /\ row.id
  <2>1. row' = [row EXCEPT !.here = FALSE] /\ owed' = NoRecord
    BY <1>2, <1>4 DEF Listed, Vanishes
  <2>2. /\ row' \in [here : BOOLEAN, id : BOOLEAN, sized : BOOLEAN,
                     etag : Versions \cup {NoVersion}]
        /\ ~row'.here /\ row'.etag = row.etag /\ row'.id = row.id
    BY <1>1, <2>1 DEF WorldOK
  <2> QED
    BY <1>1, <2>1, <2>2 DEF SizeIsTrue
<1>5. CASE cloud.etag = NoVersion /\ ~row.id
  <2>1. row' = row /\ owed' = owed
    BY <1>2, <1>5 DEF Listed, Vanishes
  <2>2. OnServer' = {}
    BY <1>1, <1>5 DEF OnServer
  <2>3. SizeIsTrue(U)'
    BY <2>2 DEF SizeIsTrue
  <2> QED
    BY <1>1, <2>1, <2>3 DEF WorldOK
<1> QED
  BY <1>3, <1>4, <1>5

\* What the flow of a conflict or of a relist has in common on its way to
\* PubClear: everything is sent.
LEMMA ToPubClear ==
    ASSUME NEW U, WInv(U), Busy(file), Kernel', buffer'[file] = buffer[file],
           Onto(file, dir, "PubClear", "ClearPending", file, flow[file].node, flow[file].etag),
           buffer[file].open, buffer[file].dirty, AllSent(U)', SizeIsTrue(U)',
           UNCHANGED <<disk, inbox, looked, handing, saved, theirs>>,
           row' \in [here : BOOLEAN, id : BOOLEAN, sized : BOOLEAN,
                     etag : Versions \cup {NoVersion}],
           owed' = owed \/ owed' = NoRecord, ~row'.here => owed' = NoRecord
    PROVE  DirAlone' /\ Scripted(U)' /\ Owing(U)' /\ OursAreHere(U)'
<1>1. flow'[dir] = flow[dir] /\ flow'[file].step = "PubClear"
  BY DEF Onto
<1>2. NoRecord.state = "no"
  BY DEF NoRecord
<1>3. DirAlone'
  BY <1>1, DirStaysIdle
<1>4. Scripted(U)'
  BY <1>1 DEF Scripted, PubSteps
<1>5. Owing(U)'
  BY <1>2 DEF WInv, Owing
<1>6. OursAreHere(U)'
  BY DEF AllSent, Sent, OursAreHere
<1> QED
  BY <1>3, <1>4, <1>5, <1>6

LEMMA ListRemoteKeeps ==
    ASSUME NEW U, WInv(U), ListRemote
    PROVE  WInv(U)'
<1>1. /\ Kernel /\ WorldOK /\ Busy(file) /\ flow[file].step = "PubReload"
      /\ buffer[file].open /\ buffer[file].dirty /\ row.here /\ AllSent(U)
      /\ UNCHANGED <<disk, inbox, looked, handing, cloud, saved, theirs>>
      /\ Relists(row)
  BY StepOfJob DEF WInv, ListRemote, Scripted, PubSteps
<1>2. Finishes(file, Success) /\ Success \in Answers /\ Success.kind = "Done"
  BY WhatComesBack DEF ListRemote
<1>3. /\ Kernel' /\ buffer'[file] = buffer[file]
      /\ Onto(file, dir, "PubClear", "ClearPending", file, flow[file].node, flow[file].etag)
  BY <1>1, <1>2, PubReloadDone
<1>4. /\ row' \in [here : BOOLEAN, id : BOOLEAN, sized : BOOLEAN,
                   etag : Versions \cup {NoVersion}]
      /\ owed' = owed \/ owed' = NoRecord
      /\ ~row'.here => owed' = NoRecord
      /\ row'.etag <= cloud.newest /\ (row'.id => row'.etag # NoVersion)
      /\ SizeIsTrue(U)'
  BY <1>1, RelistFacts
<1>5. OnServer' = OnServer /\ (\A e : Sent(e)' <=> Sent(e)) /\ (\A e : InCopies(e)' <=> InCopies(e))
  BY <1>1 DEF OnServer, Sent, InCopies
<1>6. AllSent(U)'
  BY <1>1, <1>5 DEF AllSent
<1>7. DirAlone' /\ Scripted(U)' /\ Owing(U)' /\ OursAreHere(U)'
  BY <1>1, <1>3, <1>4, <1>6, ToPubClear
<1>8. WorldOK'
  BY <1>1, <1>4 DEF WorldOK, NoRecord
<1>9. flow'[file].step = "PubClear"
  BY <1>3 DEF Onto
<1>10. cloud.newest \in Nat /\ NoRecord.base = 0 /\ NoRecord.state = "no"
  BY <1>1, VersionsAreNumbers DEF WorldOK, NoRecord
<1>11. Numbers'
  BY <1>1, <1>3, <1>4, <1>9, <1>10 DEF WInv, Numbers
<1>12. \A v : (Holds(U, v) => Holds(U, v)') /\ (PastSent(U, v) => PastSent(U, v)')
  BY <1>1, <1>5 DEF Holds, PastSent
<1>13. Bases(U)'
  BY <1>1, <1>3, <1>4, <1>9, <1>10, <1>12 DEF WInv, Bases
<1>14. TheirsAreHere(U)'
  BY <1>1, <1>5 DEF WInv, TheirsAreHere
<1> QED
  BY <1>3, <1>7, <1>8, <1>11, <1>13, <1>14 DEF WInv

\* A buffer that was just filled with all the server still has of the version
\* it starts from.
LEMMA BufferOpened ==
    ASSUME NEW U, WInv(U), Busy(file), flow[file].step = "WritePrepare", Kernel', flow'[dir] = flow[dir],
           buffer'[file].open, ~buffer'[file].dirty, buffer'[file].base = row.etag,
           flow'[file].step = "WriteBytes",
           UNCHANGED <<row, owed, inbox, looked, handing, cloud, saved, theirs>>,
           NEW B \in SUBSET Edits, disk' = Scratch(B),
           \A e \in cloud.held[row.etag] \ U : e \in OnServer => e \in B
    PROVE  WInv(U)'
<1>1. WorldOK /\ ~buffer[file].open /\ owed.state = "no"
  BY DEF WInv, Scripted, Owing
<1>2. disk'.there /\ disk'.bytes = B
  BY DEF Scratch
<1>3. OnServer' = OnServer /\ (\A e : Sent(e)' <=> Sent(e)) /\ (\A e : InCopies(e)' <=> InCopies(e))
  BY DEF OnServer, Sent, InCopies
<1>4. WorldOK'
  BY <1>1 DEF WorldOK, Scratch
<1>5. DirAlone'
  BY DirStaysIdle
<1>6. Numbers'
  BY <1>1 DEF WInv, Numbers
<1>7. Scripted(U)'
  BY DEF Scripted, PubSteps
<1>8. SizeIsTrue(U)' <=> SizeIsTrue(U)
  BY <1>3 DEF SizeIsTrue
<1>9. Owing(U)'
  BY <1>1, <1>2, <1>8 DEF WInv, Owing
<1>10. OursAreHere(U)' /\ TheirsAreHere(U)' /\ AllSent(U)
  BY <1>1, <1>3 DEF WInv, OursAreHere, TheirsAreHere, AllSent, Sent
<1>11. Holds(U, row.etag)' /\ PastSent(U, row.etag)'
  BY <1>2, <1>3, <1>10 DEF Holds, PastSent, AllSent
<1>12. buffer'[file].base = NoVersion => Covers(U)'
  BY DEF WInv, Numbers, Covers, Placed
<1>13. Bases(U)'
  BY <1>1, <1>11, <1>12 DEF Bases
<1> QED
  BY <1>4, <1>5, <1>6, <1>7, <1>9, <1>10, <1>13 DEF WInv

LEMMA CreateBufferOfFile ==
    ASSUME NEW U, WInv(U), CreateBuffer(file)
    PROVE  WInv(U)'
<1>1. /\ Kernel /\ Busy(file) /\ flow[file].step = "WritePrepare"
      /\ flow[file].job.op = "CreateBuffer"
      /\ UNCHANGED <<row, owed, inbox, looked, handing, cloud, saved, theirs>>
      /\ disk' = Scratch({})
  BY StepOfJob DEF WInv, CreateBuffer, Runs
<1>2. row.here /\ ~row.sized /\ ~buffer[file].open /\ flow[file].node.etag = row.etag
  BY <1>1 DEF WInv, Scripted
<1>3. Finishes(file, Success) /\ Success \in Answers /\ Success.kind = "Done"
  BY WhatComesBack DEF CreateBuffer
<1>4. /\ Kernel' /\ flow'[dir] = flow[dir]
      /\ buffer'[file].open /\ ~buffer'[file].dirty /\ buffer'[file].base = row.etag
      /\ flow'[file].step = "WriteBytes"
  BY <1>1, <1>2, <1>3, WritePrepareDone
<1>5. \A e \in cloud.held[row.etag] \ U : e \notin OnServer
  BY <1>1, <1>2 DEF WInv, Owing, SizeIsTrue
<1> QED
  BY <1>1, <1>4, <1>5, BufferOpened

LEMMA HydrateBufferKeeps ==
    ASSUME NEW U, WInv(U), Unspoilt, HydrateBuffer
    PROVE  WInv(U)'
<1>1. /\ Kernel /\ WorldOK /\ Busy(file) /\ flow[file].step = "WritePrepare"
      /\ UNCHANGED <<row, owed, inbox, looked, handing, cloud, saved, theirs>>
      /\ Finishes(file, Success)
  BY StepOfJob DEF WInv, HydrateBuffer, Unspoilt
<1>2. PICK v \in {row.etag, cloud.etag} \ {NoVersion} : disk' = Scratch(cloud.held[v])
  BY DEF HydrateBuffer, Unspoilt
<1>3. flow[file].node.etag = row.etag
  BY <1>1 DEF WInv, Scripted
<1>4. Success \in Answers /\ Success.kind = "Done"
  BY WhatComesBack
<1>5. /\ Kernel' /\ flow'[dir] = flow[dir]
      /\ buffer'[file].open /\ ~buffer'[file].dirty /\ buffer'[file].base = row.etag
      /\ flow'[file].step = "WriteBytes"
  BY <1>1, <1>3, <1>4, WritePrepareDone
<1>6. cloud.held[v] \in SUBSET Edits
  BY <1>1, <1>2 DEF WorldOK
<1>7. \A e \in cloud.held[row.etag] \ U : e \in OnServer => e \in cloud.held[v]
  BY <1>2 DEF OnServer
<1> QED
  BY <1>1, <1>2, <1>5, <1>6, <1>7, BufferOpened

-----------------------------------------------------------------------------
(* What this side puts on the server holds what was there, and beside that *)
(* only what is in the scratch file.                                       *)

LEMMA OurPut ==
    ASSUME NEW U, WInv(U), CanPut, NEW X \in SUBSET Edits, cloud' = Put(X),
           \A e \in OnServer \ U : e \in X,
           \A e \in X : e \in OnServer \/ e \in disk.bytes,
           UNCHANGED <<disk, saved, theirs>>
    PROVE  /\ \A e : Sent(e) /\ e \notin U => Sent(e)'
           /\ TheirsAreHere(U)'
           /\ \A v \in Versions \cup {NoVersion} : v <= cloud.newest =>
                 (Holds(U, v) => Holds(U, v)') /\ (PastSent(U, v) => PastSent(U, v)')
<1>1. /\ OnServer' = X /\ \A e : InCopies(e)' <=> InCopies(e)
      /\ \A v \in Versions \cup {NoVersion} : v <= cloud.newest => cloud'.held[v] = cloud.held[v]
  BY PutFacts DEF WInv
<1>2. \A e : Sent(e) /\ e \notin U => Sent(e)'
  BY <1>1 DEF Sent
<1>3. TheirsAreHere(U)'
  BY <1>1 DEF WInv, TheirsAreHere
<1>4. ASSUME NEW v \in Versions \cup {NoVersion}, v <= cloud.newest
      PROVE  (Holds(U, v) => Holds(U, v)') /\ (PastSent(U, v) => PastSent(U, v)')
  <2>1. cloud'.held[v] = cloud.held[v]
    BY <1>1, <1>4
  <2>2. Holds(U, v) => Holds(U, v)'
    BY <1>1, <2>1 DEF Holds
  <2>3. PastSent(U, v) => PastSent(U, v)'
    BY <1>2, <2>1 DEF PastSent
  <2> QED
    BY <2>2, <2>3
<1> QED
  BY <1>2, <1>3, <1>4

\* The numbers after an upload of ours, whatever the flow made of it.
LEMMA NumbersAfterPut ==
    ASSUME NEW U, WInv(U), CanPut, NEW X \in SUBSET Edits, cloud' = Put(X),
           row' \in [here : BOOLEAN, id : BOOLEAN, sized : BOOLEAN,
                     etag : Versions \cup {NoVersion}],
           row'.etag <= cloud.newest + 1, row'.id => row'.etag # NoVersion,
           buffer'[file].base = buffer[file].base, buffer[file] \in Buffer,
           owed' = owed, looked' = looked,
           flow'[file].step = "PubRecord" => flow'[file].etag = cloud.newest + 1
    PROVE  Numbers'
<1>1. WorldOK /\ Numbers
  BY DEF WInv
<1>2. /\ cloud'.newest = cloud.newest + 1 /\ cloud'.etag = cloud.newest + 1
      /\ cloud'.held[NoVersion] = {}
  BY <1>1, PutFacts
<1>3. /\ cloud.newest \in Nat /\ owed.base \in Nat /\ looked.base \in Nat
      /\ buffer[file].base \in Nat
  <2>1. /\ cloud.newest \in Versions \cup {NoVersion} /\ owed.base \in Versions \cup {NoVersion}
        /\ looked.base \in Versions \cup {NoVersion}
        /\ buffer[file].base \in Versions \cup {NoVersion}
    BY <1>1 DEF WorldOK, Buffer
  <2> QED
    BY <2>1, VersionsAreNumbers
<1>4. /\ owed.base <= cloud.newest /\ looked.base <= cloud.newest
      /\ buffer[file].base <= cloud.newest
  BY <1>1 DEF Numbers
<1> QED
  BY <1>2, <1>3, <1>4 DEF Numbers

\* The preconditions do their work: an upload that is accepted overwrites
\* nothing it does not hold.
LEMMA AcceptedUploads ==
    ASSUME NEW U, WInv(U), Busy(file), flow[file].step = "PubUpload", row.here, disk.there,
           Accepts(Precondition(flow[file].node, buffer[file]))
    PROVE  \A e \in OnServer \ U : e \in disk.bytes
<1> DEFINE b == buffer[file]
           n == flow[file].node
<1>1. /\ b.open /\ ("materialised" \in n.is => Placed)
      /\ Holds(U, b.base) /\ (b.base = NoVersion => Covers(U))
      /\ cloud.held[NoVersion] = {}
  BY DEF WInv, Scripted, PubSteps, Bases, Numbers
<1>2. CASE "materialised" \notin n.is
  <2>1. Precondition(n, b) = "MustNotExist"
    BY <1>2 DEF Precondition
  <2>2. cloud.etag = NoVersion
    BY <2>1 DEF Accepts
  <2> QED
    BY <1>1, <2>2 DEF OnServer
<1>3. CASE "materialised" \in n.is /\ b.base = NoVersion
  BY <1>1, <1>3 DEF Covers
<1>4. CASE "materialised" \in n.is /\ b.base # NoVersion
  <2>1. Precondition(n, b) = "Match"
    BY <1>4 DEF Precondition
  <2>2. cloud.etag = b.base
    BY <2>1 DEF Accepts
  <2> QED
    BY <1>1, <2>2 DEF OnServer, Holds
<1> QED
  BY <1>2, <1>3, <1>4

LEMMA UploadKeeps ==
    ASSUME NEW U, WInv(U), Upload
    PROVE  WInv(U)'
<1> DEFINE pre == Precondition(flow[file].node, buffer[file])
<1>1. /\ Kernel /\ WorldOK /\ Numbers /\ Busy(file) /\ flow[file].step = "PubUpload"
      /\ buffer[file].open /\ buffer[file].dirty /\ row.here /\ buffer[file] \in Buffer
      /\ row.sized \/ disk.bytes = {}
      /\ UNCHANGED <<row, disk, owed, inbox, looked, handing, saved, theirs>>
  BY StepOfJob, FileIsBusy DEF WInv, Upload, Scripted, PubSteps
<1>2. inbox' \in Seq(Tickets) /\ disk.bytes \in SUBSET Edits
  BY <1>1 DEF WorldOK
<1>3. CASE /\ ~row.here \/ ~disk.there
           /\ Finishes(file, Failure("Io")) /\ UNCHANGED cloud
  BY <1>1, <1>2, <1>3, FailingKeeps
<1>4. CASE /\ Finishes(file, Came("Rejected", NoNode, NoVersion, "None"))
           /\ UNCHANGED cloud
  <2>1. /\ Kernel' /\ buffer'[file] = buffer[file]
        /\ Onto(file, dir, "PubConflict", "ResolveConflict", file, flow[file].node,
                flow[file].etag)
    BY <1>1, <1>4, WhatComesBack, PubUploadRejected
  <2>2. flow'[dir] = flow[dir] /\ flow'[file].step = "PubConflict"
    BY <2>1 DEF Onto
  <2>3. /\ WorldOK' /\ DirAlone' /\ Numbers' /\ Owing(U)' /\ Bases(U)'
        /\ OursAreHere(U)' /\ TheirsAreHere(U)'
    BY <1>1, <1>2, <1>4, <2>1, <2>2, NothingHappens
  <2>4. Scripted(U)'
    BY <1>1, <2>1, <2>2 DEF Scripted, PubSteps
  <2> QED
    BY <2>1, <2>3, <2>4 DEF WInv
<1>5. CASE /\ disk.there /\ Accepts(pre) /\ CanPut /\ cloud' = Put(disk.bytes)
           /\ \/ Finishes(file, Came("Uploaded", NoNode, cloud.newest + 1, "None"))
              \/ Finishes(file, Failure("Io"))
  <2>1. \A e \in OnServer \ U : e \in disk.bytes
    BY <1>1, <1>5, AcceptedUploads
  <2>2. /\ \A e : Sent(e) /\ e \notin U => Sent(e)'
        /\ TheirsAreHere(U)'
        /\ \A v \in Versions \cup {NoVersion} : v <= cloud.newest =>
              (Holds(U, v) => Holds(U, v)') /\ (PastSent(U, v) => PastSent(U, v)')
    BY <1>1, <1>2, <1>5, <2>1, OurPut
  <2>3. /\ cloud' \in [etag : Versions \cup {NoVersion}, newest : Versions \cup {NoVersion},
                       held : [Versions \cup {NoVersion} -> SUBSET Edits],
                       copies : SUBSET SUBSET Edits]
        /\ cloud.newest + 1 \in Versions
        /\ cloud'.held[cloud.newest + 1] = disk.bytes /\ OnServer' = disk.bytes
        /\ \A e : InCopies(e)' <=> InCopies(e)
    BY <1>1, <1>2, <1>5, PutFacts
  <2>4. AllSent(U)'
    BY <1>1, <2>1, <2>3 DEF WInv, OursAreHere, AllSent, Sent
  <2>5. /\ Kernel' /\ buffer'[file] = buffer[file] /\ flow'[dir] = flow[dir]
        /\ \/ FreshFile(flow'[file], buffer'[file]) /\ flow'[file].step # "PubRecord"
           \/ flow'[file].step = "PubRecord" /\ flow'[file].etag = cloud.newest + 1
    <3>1. CASE Finishes(file, Failure("Io"))
      <4>1. /\ Kernel' /\ buffer'[file] = buffer[file] /\ flow'[dir] = flow[dir]
            /\ FreshFile(flow'[file], buffer'[file])
        BY <1>1, <3>1, WhatComesBack, FileFails
      <4> QED
        BY <4>1 DEF FreshFile, IdleFlow
    <3>2. CASE Finishes(file, Came("Uploaded", NoNode, cloud.newest + 1, "None"))
      <4>1. /\ Kernel' /\ buffer'[file] = buffer[file]
            /\ Onto(file, dir, "PubRecord", "RecordVersion", file, flow[file].node,
                    cloud.newest + 1)
        BY <1>1, <2>3, <3>2, WhatComesBack, PubUploadLands
      <4> QED
        BY <4>1 DEF Onto
    <3> QED
      BY <1>5, <3>1, <3>2
  <2>6. WorldOK'
    BY <1>1, <2>3 DEF WorldOK
  <2>7. DirAlone'
    BY <1>1, <2>5, DirStaysIdle
  <2>8. /\ row' \in [here : BOOLEAN, id : BOOLEAN, sized : BOOLEAN,
                     etag : Versions \cup {NoVersion}]
        /\ row'.etag <= cloud.newest + 1 /\ (row'.id => row'.etag # NoVersion)
    <3>1. row.etag \in Nat /\ cloud.newest \in Nat /\ row.etag <= cloud.newest
      BY <1>1, VersionsAreNumbers DEF WorldOK, Numbers
    <3> QED
      BY <1>1, <3>1 DEF WorldOK, Numbers
  <2>9. Numbers'
    BY <1>1, <1>2, <1>5, <2>5, <2>8, NumbersAfterPut
  <2>10. SizeIsTrue(U)'
    BY <1>1, <2>3 DEF SizeIsTrue
  <2>11. Owing(U)'
    BY <1>1, <2>5, <2>10 DEF WInv, Owing
  <2>12. Scripted(U)'
    <3>1. CASE flow'[file].step = "PubRecord" /\ flow'[file].etag = cloud.newest + 1
      <4>1. cloud.newest + 1 # NoVersion
        BY <2>3, VersionsAreNumbers
      <4>2. \A e \in cloud'.held[flow'[file].etag] : e \in disk'.bytes
        BY <1>1, <2>3, <3>1
      <4> QED
        BY <1>1, <2>4, <2>5, <3>1, <4>1, <4>2 DEF Scripted, PubSteps
    <3> QED
      BY <2>5, <2>11, <3>1, FreshKnowsNothing
  <2>13. Covers(U)'
    BY <1>1, <2>3 DEF Covers
  <2>14. Bases(U)'
    <3>1. /\ buffer[file].base \in Versions \cup {NoVersion} /\ buffer[file].base <= cloud.newest
          /\ owed.base \in Versions \cup {NoVersion} /\ owed.base <= cloud.newest
      BY <1>1 DEF Buffer, WorldOK, Numbers
    <3>2. /\ Holds(U, buffer[file].base) /\ PastSent(U, buffer[file].base)
          /\ owed.state # "no" => Holds(U, owed.base) /\ PastSent(U, owed.base)
      BY <1>1 DEF WInv, Bases
    <3> SUFFICES ASSUME NEW v, v = buffer[file].base, NEW u, u = owed.base
                 PROVE  Bases(U)'
      OBVIOUS
    <3>3. /\ Holds(U, v)' /\ PastSent(U, v)' /\ (owed.state # "no" => Holds(U, u)' /\ PastSent(U, u)')
      BY <2>2, <3>1, <3>2
    <3>4. buffer'[file].base = v /\ owed'.base = u /\ owed'.state = owed.state
      BY <1>1, <2>5
    <3> QED
      BY <2>13, <3>3, <3>4 DEF Bases
  <2>15. OursAreHere(U)'
    BY <2>4 DEF AllSent, Sent, OursAreHere
  <2> QED
    BY <2>2, <2>5, <2>6, <2>7, <2>9, <2>11, <2>12, <2>14, <2>15 DEF WInv
<1> QED
  BY <1>1, <1>3, <1>4, <1>5 DEF Upload

-----------------------------------------------------------------------------
(* The conflict sub-script.                                                *)

CloudOK == cloud \in [etag : Versions \cup {NoVersion}, newest : Versions \cup {NoVersion},
                      held : [Versions \cup {NoVersion} -> SUBSET Edits],
                      copies : SUBSET SUBSET Edits]
RowOK == row \in [here : BOOLEAN, id : BOOLEAN, sized : BOOLEAN,
                  etag : Versions \cup {NoVersion}]

\* What the bases promise outlives a step.
Outlives(U) == \A v \in Versions \cup {NoVersion} : v <= cloud.newest =>
               (Holds(U, v) => Holds(U, v)') /\ (PastSent(U, v) => PastSent(U, v)')

LEMMA BasesOutlive ==
    ASSUME NEW U, WInv(U), Outlives(U), buffer[file] \in Buffer, buffer'[file] = buffer[file],
           owed' = owed \/ owed' = NoRecord
    PROVE  /\ buffer'[file].open => Holds(U, buffer[file].base)' /\ PastSent(U, buffer[file].base)'
           /\ owed'.state # "no" => Holds(U, owed.base)' /\ PastSent(U, owed.base)'
<1>1. /\ buffer[file].base \in Versions \cup {NoVersion} /\ buffer[file].base <= cloud.newest
      /\ owed.base \in Versions \cup {NoVersion} /\ owed.base <= cloud.newest
      /\ buffer[file].open => Holds(U, buffer[file].base) /\ PastSent(U, buffer[file].base)
      /\ owed.state # "no" => Holds(U, owed.base) /\ PastSent(U, owed.base)
  BY DEF WInv, Buffer, WorldOK, Numbers, Bases
<1>2. owed'.state # "no" => owed' = owed
  BY DEF NoRecord
<1> SUFFICES ASSUME NEW v, v = buffer[file].base, NEW u, u = owed.base
             PROVE  /\ buffer'[file].open => Holds(U, v)' /\ PastSent(U, v)'
                    /\ owed'.state # "no" => Holds(U, u)' /\ PastSent(U, u)'
  BY <1>2
<1>3. (Holds(U, v) => Holds(U, v)') /\ (PastSent(U, v) => PastSent(U, v)')
  BY <1>1 DEF Outlives
<1>4. (Holds(U, u) => Holds(U, u)') /\ (PastSent(U, u) => PastSent(U, u)')
  BY <1>1 DEF Outlives
<1> QED
  BY <1>1, <1>2, <1>3, <1>4

LEMMA ConflictSettled ==
    ASSUME NEW U, WInv(U), Busy(file), flow[file].step = "PubConflict", Finishes(file, Success),
           UNCHANGED <<disk, inbox, looked, handing, saved, theirs>>,
           RowOK', owed' = owed \/ owed' = NoRecord, ~row'.here => owed' = NoRecord, CloudOK',
           cloud'.newest \in Nat, cloud'.newest >= cloud.newest, cloud'.held[NoVersion] = {},
           cloud'.etag <= cloud'.newest, row'.etag <= cloud'.newest,
           row'.id => row'.etag # NoVersion,
           AllSent(U)', SizeIsTrue(U)', TheirsAreHere(U)', Outlives(U)
    PROVE  WInv(U)'
<1>1. /\ Kernel /\ WorldOK /\ Numbers /\ buffer[file].open /\ buffer[file].dirty
      /\ buffer[file] \in Buffer
  BY FileIsBusy DEF WInv, Scripted, PubSteps
<1>2. /\ Kernel' /\ buffer'[file] = buffer[file]
      /\ Onto(file, dir, "PubClear", "ClearPending", file, flow[file].node, flow[file].etag)
  BY <1>1, WhatComesBack, PubConflictDone
<1>3. flow'[file].step = "PubClear"
  BY <1>2 DEF Onto
<1>4. DirAlone' /\ Scripted(U)' /\ Owing(U)' /\ OursAreHere(U)'
  BY <1>1, <1>2, ToPubClear DEF RowOK
<1>5. WorldOK'
  BY <1>1 DEF WorldOK, RowOK, CloudOK, NoRecord
<1>6. Numbers'
  <2>1. /\ cloud.newest \in Nat /\ owed.base \in Nat /\ looked.base \in Nat
        /\ buffer[file].base \in Nat /\ NoRecord.base = 0
    <3>1. /\ cloud.newest \in Versions \cup {NoVersion} /\ owed.base \in Versions \cup {NoVersion}
          /\ looked.base \in Versions \cup {NoVersion}
          /\ buffer[file].base \in Versions \cup {NoVersion}
      BY <1>1 DEF WorldOK, Buffer
    <3> QED
      BY <3>1, VersionsAreNumbers DEF NoRecord
  <2>2. owed'.base = owed.base \/ owed'.base = 0
    BY <2>1
  <2> QED
    BY <1>1, <1>2, <1>3, <2>1, <2>2 DEF Numbers
<1>7. Bases(U)'
  <2>1. /\ buffer'[file].open => Holds(U, buffer[file].base)' /\ PastSent(U, buffer[file].base)'
        /\ owed'.state # "no" => Holds(U, owed.base)' /\ PastSent(U, owed.base)'
    BY <1>1, <1>2, BasesOutlive
  <2> QED
    BY <1>1, <1>2, <1>3, <2>1 DEF Bases
<1> QED
  BY <1>2, <1>4, <1>5, <1>6, <1>7 DEF WInv

LEMMA ConflictFails ==
    ASSUME NEW U, WInv(U), Busy(file), flow[file].step = "PubConflict", Finishes(file, Failure("Io")),
           UNCHANGED <<row, owed, disk, inbox, looked, handing, saved, theirs>>, CloudOK',
           cloud'.newest \in Nat, cloud'.newest >= cloud.newest, cloud'.held[NoVersion] = {},
           cloud'.etag <= cloud'.newest, (NoBase => Covers(U))',
           AllSent(U)', SizeIsTrue(U) => SizeIsTrue(U)', TheirsAreHere(U)', Outlives(U)
    PROVE  WInv(U)'
<1>1. /\ Kernel /\ WorldOK /\ Numbers /\ buffer[file].open /\ buffer[file].dirty
      /\ buffer[file] \in Buffer
  BY FileIsBusy DEF WInv, Scripted, PubSteps
<1>2. /\ Kernel' /\ buffer'[file] = buffer[file] /\ flow'[dir] = flow[dir]
      /\ FreshFile(flow'[file], buffer'[file])
  BY <1>1, WhatComesBack, FileFails
<1>3. flow'[file].step # "PubRecord"
  BY <1>2 DEF FreshFile, IdleFlow
<1>4. WorldOK'
  BY <1>1 DEF WorldOK, CloudOK
<1>5. Numbers'
  <2>1. /\ cloud.newest \in Nat /\ owed.base \in Nat /\ looked.base \in Nat
        /\ buffer[file].base \in Nat /\ row.etag \in Nat
    <3>1. /\ cloud.newest \in Versions \cup {NoVersion} /\ owed.base \in Versions \cup {NoVersion}
          /\ looked.base \in Versions \cup {NoVersion} /\ row.etag \in Versions \cup {NoVersion}
          /\ buffer[file].base \in Versions \cup {NoVersion}
      BY <1>1 DEF WorldOK, Buffer
    <3> QED
      BY <3>1, VersionsAreNumbers
  <2> QED
    BY <1>1, <1>2, <1>3, <2>1 DEF Numbers
<1>6. DirAlone'
  BY <1>2, DirStaysIdle
<1>7. Owing(U)'
  BY <1>1, <1>2 DEF WInv, Owing
<1>8. Scripted(U)'
  BY <1>2, <1>7, FreshKnowsNothing
<1>9. OursAreHere(U)'
  BY DEF AllSent, Sent, OursAreHere
<1>10. Bases(U)'
  <2>1. /\ buffer'[file].open => Holds(U, buffer[file].base)' /\ PastSent(U, buffer[file].base)'
        /\ owed'.state # "no" => Holds(U, owed.base)' /\ PastSent(U, owed.base)'
    BY <1>1, <1>2, BasesOutlive
  <2> QED
    BY <1>1, <1>2, <2>1 DEF Bases, NoBase
<1> QED
  BY <1>2, <1>4, <1>5, <1>6, <1>7, <1>8, <1>9, <1>10 DEF WInv

\* A merge keeps all the server has, and all the scratch file has beside what
\* it started from.
LEMMA MergedKeeps ==
    ASSUME NEW U, WInv(U), Busy(file), flow[file].step = "PubConflict", disk.there
    PROVE  /\ Merged \in SUBSET Edits
           /\ \A e \in OnServer \ U : e \in Merged
           /\ \A e \in Merged : e \in OnServer \/ e \in disk.bytes
           /\ \A e \in saved \ U : Sent(e) \/ e \in Merged
<1>1. /\ Holds(U, buffer[file].base) /\ PastSent(U, buffer[file].base) /\ WorldOK
      /\ cloud.etag \in Versions \cup {NoVersion}
  BY DEF WInv, Scripted, PubSteps, Bases, WorldOK
<1>2. OnServer \subseteq Edits /\ disk.bytes \subseteq Edits
  BY <1>1 DEF OnServer, WorldOK
<1>3. \A e : e \in Merged <=> \/ e \in OnServer /\ e \in disk.bytes
                              \/ /\ e \in OnServer \/ e \in disk.bytes
                                 /\ e \notin cloud.held[buffer[file].base]
  BY DEF Merged
<1>4. Merged \in SUBSET Edits
  BY <1>2, <1>3
<1>5. \A e \in OnServer \ U : e \in Merged
  BY <1>1, <1>3 DEF Holds
<1>6. \A e \in saved \ U : Sent(e) \/ e \in Merged
  <2>1. \A e \in saved \ U : Sent(e) \/ e \in disk.bytes
    BY DEF WInv, OursAreHere, Sent
  <2> QED
    BY <1>1, <1>3, <2>1 DEF PastSent
<1> QED
  BY <1>3, <1>4, <1>5, <1>6

\* What an upload of the sub-script does to the server.
LEMMA ConflictPut ==
    ASSUME NEW U, WInv(U), CanPut, NEW X \in SUBSET Edits, cloud' = Put(X),
           \A e \in OnServer \ U : e \in X,
           \A e \in X : e \in OnServer \/ e \in disk.bytes,
           \A e \in saved \ U : Sent(e) \/ e \in X,
           UNCHANGED <<disk, saved, theirs>>
    PROVE  /\ CloudOK' /\ cloud'.newest = cloud.newest + 1 /\ cloud'.etag = cloud.newest + 1
           /\ cloud.newest \in Nat /\ cloud'.newest \in Nat /\ cloud'.newest >= cloud.newest
           /\ cloud.newest + 1 \in Versions /\ cloud.newest + 1 # NoVersion
           /\ cloud'.held[NoVersion] = {} /\ cloud'.held[cloud.newest + 1] = X /\ OnServer' = X
           /\ AllSent(U)' /\ TheirsAreHere(U)' /\ Outlives(U)
<1>1. WorldOK /\ Numbers
  BY DEF WInv
<1>2. /\ CloudOK' /\ cloud'.newest = cloud.newest + 1 /\ cloud'.etag = cloud.newest + 1
      /\ cloud.newest + 1 \in Versions
      /\ cloud'.held[NoVersion] = {} /\ cloud'.held[cloud.newest + 1] = X /\ OnServer' = X
      /\ \A e : InCopies(e)' <=> InCopies(e)
      /\ \A v \in Versions \cup {NoVersion} : v <= cloud.newest => cloud'.held[v] = cloud.held[v]
  BY <1>1, PutFacts DEF CloudOK
<1>3. cloud.newest \in Nat /\ cloud.newest + 1 # NoVersion
  BY <1>1, <1>2, VersionsAreNumbers DEF WorldOK
<1>4. TheirsAreHere(U)' /\ Outlives(U) /\ \A e : Sent(e) /\ e \notin U => Sent(e)'
  BY OurPut DEF Outlives
<1>5. AllSent(U)'
  BY <1>2, <1>4 DEF AllSent, Sent
<1> QED
  BY <1>2, <1>3, <1>4, <1>5

\* The server as it is, but for another conflicted copy at most.
LEMMA SameVersions ==
    ASSUME NEW U, WInv(U), CloudOK', cloud'.etag = cloud.etag, cloud'.newest = cloud.newest,
           cloud'.held = cloud.held, cloud.copies \subseteq cloud'.copies,
           UNCHANGED <<disk, saved, theirs>>
    PROVE  /\ cloud.newest \in Nat /\ cloud'.newest \in Nat /\ cloud'.newest >= cloud.newest
           /\ cloud'.held[NoVersion] = {} /\ cloud'.etag <= cloud'.newest
           /\ OnServer' = OnServer /\ (\A e : Sent(e) => Sent(e)')
           /\ TheirsAreHere(U)' /\ Outlives(U)
<1>1. WorldOK /\ Numbers
  BY DEF WInv
<1>2. cloud.newest \in Nat
  BY <1>1, VersionsAreNumbers DEF WorldOK
<1>3. OnServer' = OnServer /\ \A e : InCopies(e) => InCopies(e)'
  BY DEF OnServer, InCopies
<1>4. \A e : Sent(e) => Sent(e)'
  BY <1>3 DEF Sent
<1>5. TheirsAreHere(U)'
  BY <1>3 DEF WInv, TheirsAreHere
<1>6. Outlives(U)
  BY <1>3, <1>4 DEF Outlives, Holds, PastSent
<1> QED
  BY <1>1, <1>2, <1>3, <1>4, <1>5, <1>6 DEF Numbers

\* The row adopts the version that holds the scratch file's bytes, and a relist
\* finds the same.
LEMMA AdoptingFacts ==
    ASSUME NEW U, WInv(U), Busy(file), row.here, CloudOK', cloud'.etag # NoVersion, disk' = disk,
           OnServer' = disk.bytes,
           \/ Relists(Adopting(cloud'.etag))
           \/ row' = Adopting(cloud'.etag) /\ UNCHANGED owed
    PROVE  /\ RowOK' /\ row'.here /\ row'.etag = cloud'.etag /\ owed' = owed
           /\ SizeIsTrue(U)'
<1>1. row \in [here : BOOLEAN, id : BOOLEAN, sized : BOOLEAN, etag : Versions \cup {NoVersion}]
      /\ cloud'.etag \in Versions \cup {NoVersion}
  BY DEF WInv, WorldOK, CloudOK
<1> DEFINE r == Adopting(cloud'.etag)
<1>2. /\ r \in [here : BOOLEAN, id : BOOLEAN, sized : BOOLEAN, etag : Versions \cup {NoVersion}]
      /\ r.here /\ r.etag = cloud'.etag /\ (r.sized <=> disk.bytes # {})
  BY <1>1 DEF Adopting
<1> HIDE DEF r
<1>3. CASE row' = r /\ owed' = owed
  BY <1>2, <1>3 DEF RowOK, SizeIsTrue
<1>4. CASE Relists(r)
  <2>1. /\ row' = Listed(r, cloud')
        /\ owed' = IF Vanishes(r, cloud') THEN NoRecord ELSE owed
    BY <1>4, DirStaysIdle DEF Relists, Changing
  <2>2. /\ row' = [r EXCEPT !.id = TRUE, !.etag = cloud'.etag,
                            !.sized = cloud'.held[cloud'.etag] # {}]
        /\ owed' = owed
    BY <1>2, <2>1 DEF Listed, Vanishes
  <2>3. cloud'.held[cloud'.etag] = disk.bytes
    BY DEF OnServer
  <2>4. /\ row' \in [here : BOOLEAN, id : BOOLEAN, sized : BOOLEAN, etag : Versions \cup {NoVersion}]
        /\ row'.here /\ row'.etag = cloud'.etag /\ (row'.sized <=> disk.bytes # {})
    BY <1>1, <1>2, <2>2, <2>3
  <2> QED
    BY <2>2, <2>4 DEF RowOK, SizeIsTrue
<1> QED
  BY <1>3, <1>4 DEF r

LEMMA SettlesKeeps ==
    ASSUME NEW U, WInv(U), Busy(file), flow[file].step = "PubConflict", row.here, disk.there, Settles,
           UNCHANGED <<disk, inbox, looked, handing, saved, theirs>>
    PROVE  WInv(U)'
<1>1. WorldOK /\ disk.bytes \in SUBSET Edits /\ CloudOK
  BY DEF WInv, WorldOK, CloudOK
<1>2. Finishes(file, Success)
  BY DEF Settles
<1>3. \A e \in saved \ U : Sent(e) \/ e \in disk.bytes
  BY DEF WInv, OursAreHere, Sent
<1>4. CASE EmptyOfOurs /\ CanPut /\ cloud' = Put(disk.bytes)
  <2>1. \A e \in OnServer \ U : e \in disk.bytes
    BY <1>4 DEF EmptyOfOurs
  <2>2. /\ CloudOK' /\ cloud'.newest = cloud.newest + 1 /\ cloud'.etag = cloud.newest + 1
        /\ cloud.newest \in Nat /\ cloud'.newest \in Nat /\ cloud'.newest >= cloud.newest
        /\ cloud.newest + 1 # NoVersion
        /\ cloud'.held[NoVersion] = {} /\ OnServer' = disk.bytes
        /\ AllSent(U)' /\ TheirsAreHere(U)' /\ Outlives(U)
    BY <1>1, <1>3, <1>4, <2>1, ConflictPut
  <2>3. /\ RowOK' /\ row'.here /\ row'.etag = cloud'.etag /\ owed' = owed /\ SizeIsTrue(U)'
    BY <2>2, AdoptingFacts DEF Settles
  <2> QED
    BY <1>2, <2>2, <2>3, ConflictSettled
<1>5. CASE SameBytes /\ UNCHANGED cloud
  <2>1. CloudOK' /\ cloud'.etag # NoVersion /\ OnServer = disk.bytes
    BY <1>1, <1>5 DEF SameBytes, CloudOK
  <2>2. /\ cloud'.newest \in Nat /\ cloud'.newest >= cloud.newest
        /\ cloud'.held[NoVersion] = {} /\ cloud'.etag <= cloud'.newest
        /\ OnServer' = OnServer /\ (\A e : Sent(e) => Sent(e)')
        /\ TheirsAreHere(U)' /\ Outlives(U)
    BY <1>5, <2>1, SameVersions
  <2>3. /\ RowOK' /\ row'.here /\ row'.etag = cloud'.etag /\ owed' = owed /\ SizeIsTrue(U)'
    BY <2>1, <2>2, AdoptingFacts DEF Settles
  <2>4. AllSent(U)'
    BY <1>3, <2>1, <2>2 DEF AllSent, Sent
  <2> QED
    BY <1>2, <2>1, <2>2, <2>3, <2>4, ConflictSettled
<1> QED
  BY <1>4, <1>5 DEF Settles

LEMMA MergesKeeps ==
    ASSUME NEW U, WInv(U), Busy(file), flow[file].step = "PubConflict", row.here, disk.there, Merges,
           UNCHANGED <<disk, inbox, looked, handing, saved, theirs>>
    PROVE  WInv(U)'
<1>1. /\ Merged \in SUBSET Edits
      /\ \A e \in OnServer \ U : e \in Merged
      /\ \A e \in Merged : e \in OnServer \/ e \in disk.bytes
      /\ \A e \in saved \ U : Sent(e) \/ e \in Merged
  BY MergedKeeps
<1>2. /\ CanPut /\ cloud' = Put(Merged) /\ Finishes(file, Success) /\ owed' = owed
      /\ row' = [row EXCEPT !.etag = cloud.newest + 1, !.sized = Merged # {}]
  BY DEF Merges
<1> SUFFICES ASSUME NEW X, X = Merged
             PROVE  WInv(U)'
  OBVIOUS
<1>3. /\ CloudOK' /\ cloud'.newest = cloud.newest + 1 /\ cloud'.etag = cloud.newest + 1
      /\ cloud.newest \in Nat /\ cloud'.newest \in Nat /\ cloud'.newest >= cloud.newest
      /\ cloud.newest + 1 \in Versions /\ cloud.newest + 1 # NoVersion
      /\ cloud'.held[NoVersion] = {} /\ cloud'.held[cloud.newest + 1] = X /\ OnServer' = X
      /\ AllSent(U)' /\ TheirsAreHere(U)' /\ Outlives(U)
  BY <1>1, <1>2, ConflictPut
<1>4. /\ RowOK' /\ row'.here /\ row'.etag = cloud.newest + 1 /\ (row'.sized <=> X # {})
  BY <1>2, <1>3 DEF WInv, WorldOK, RowOK
<1>5. SizeIsTrue(U)'
  BY <1>3, <1>4 DEF SizeIsTrue
<1> QED
  BY <1>2, <1>3, <1>4, <1>5, ConflictSettled

LEMMA LandsUnansweredKeeps ==
    ASSUME NEW U, WInv(U), Unspoilt, Told(U), Busy(file), flow[file].step = "PubConflict", row.here, disk.there,
           LandsUnanswered, UNCHANGED <<disk, inbox, looked, handing, saved, theirs>>
    PROVE  WInv(U)'
<1>1. /\ CanPut /\ Finishes(file, Failure("Io")) /\ UNCHANGED <<row, owed>>
      /\ (NoBase => Covers(U))' /\ (row.sized \/ disk.bytes = {})
  BY ExposedOrCovered DEF LandsUnanswered, WInv, Scripted
<1>2. PICK X \in SUBSET Edits :
         /\ cloud' = Put(X)
         /\ \A e \in OnServer \ U : e \in X
         /\ \A e \in X : e \in OnServer \/ e \in disk.bytes
         /\ \A e \in saved \ U : Sent(e) \/ e \in X
  <2>1. CASE EmptyOfOurs /\ cloud' = Put(disk.bytes)
    <3>1. disk.bytes \in SUBSET Edits /\ \A e \in saved \ U : Sent(e) \/ e \in disk.bytes
      BY DEF WInv, WorldOK, OursAreHere, Sent
    <3>2. \A e \in OnServer \ U : e \in disk.bytes
      BY <2>1 DEF EmptyOfOurs
    <3> QED
      BY <2>1, <3>1, <3>2
  <2>2. CASE cloud' = Put(Merged)
    BY <2>2, MergedKeeps
  <2> QED
    BY <2>1, <2>2 DEF LandsUnanswered
<1>3. /\ CloudOK' /\ cloud'.newest = cloud.newest + 1 /\ cloud'.etag = cloud.newest + 1
      /\ cloud.newest \in Nat /\ cloud'.newest \in Nat /\ cloud'.newest >= cloud.newest
      /\ cloud'.held[NoVersion] = {} /\ OnServer' = X
      /\ AllSent(U)' /\ TheirsAreHere(U)' /\ Outlives(U)
  BY <1>1, <1>2, ConflictPut
<1>4. SizeIsTrue(U) => SizeIsTrue(U)'
  <2>1. row.etag \in Versions \cup {NoVersion} /\ row.etag <= cloud.newest
    BY DEF WInv, WorldOK, Numbers
  <2>2. cloud'.held[row.etag] = cloud.held[row.etag]
    BY <1>1, <1>2, <2>1, PutFacts DEF WInv
  <2> QED
    BY <1>1, <1>2, <1>3, <2>2 DEF SizeIsTrue
<1> QED
  BY <1>1, <1>3, <1>4, ConflictFails

LEMMA CopiesKeeps ==
    ASSUME NEW U, WInv(U), Unspoilt, Told(U), Busy(file), flow[file].step = "PubConflict", row.here, disk.there,
           Copies, UNCHANGED <<disk, inbox, looked, handing, saved, theirs>>
    PROVE  WInv(U)'
<1>1. /\ cloud \in [etag : Versions \cup {NoVersion}, newest : Versions \cup {NoVersion},
                    held : [Versions \cup {NoVersion} -> SUBSET Edits],
                    copies : SUBSET SUBSET Edits]
      /\ disk.bytes \in SUBSET Edits
      /\ cloud' = [cloud EXCEPT !.copies = @ \cup {disk.bytes}]
  BY DEF WInv, WorldOK, Copies
<1>2. /\ CloudOK' /\ cloud'.etag = cloud.etag /\ cloud'.newest = cloud.newest
      /\ cloud'.held = cloud.held /\ cloud'.copies = cloud.copies \cup {disk.bytes}
  BY <1>1 DEF CloudOK
<1>3. /\ cloud.newest \in Nat /\ cloud'.newest \in Nat /\ cloud'.newest >= cloud.newest
      /\ cloud'.held[NoVersion] = {} /\ cloud'.etag <= cloud'.newest
      /\ OnServer' = OnServer /\ (\A e : Sent(e) => Sent(e)')
      /\ TheirsAreHere(U)' /\ Outlives(U)
  BY <1>2, SameVersions
<1>4. AllSent(U)'
  <2>1. \A e \in disk.bytes : InCopies(e)'
    BY <1>2 DEF InCopies
  <2>2. \A e \in saved \ U : Sent(e) \/ e \in disk.bytes
    BY DEF WInv, OursAreHere, Sent
  <2> QED
    BY <1>3, <2>1, <2>2 DEF AllSent, Sent
<1>5. CASE Relists(row) /\ Finishes(file, Success)
  <2>1. /\ RowOK' /\ (owed' = owed \/ owed' = NoRecord) /\ (~row'.here => owed' = NoRecord)
        /\ row'.etag <= cloud.newest /\ (row'.id => row'.etag # NoVersion)
        /\ SizeIsTrue(U)'
    BY <1>2, <1>5, RelistFacts DEF RowOK
  <2> QED
    BY <1>2, <1>3, <1>4, <1>5, <2>1, ConflictSettled
<1>6. CASE Finishes(file, Failure("Io")) /\ UNCHANGED <<row, owed>>
  <2>1. (NoBase => Covers(U))'
    BY <1>6, ExposedOrCovered
  <2>2. SizeIsTrue(U) => SizeIsTrue(U)'
    BY <1>2, <1>3, <1>6 DEF SizeIsTrue
  <2> QED
    BY <1>2, <1>3, <1>4, <1>6, <2>1, <2>2, ConflictFails
<1> QED
  BY <1>5, <1>6 DEF Copies

LEMMA ResolveConflictKeeps ==
    ASSUME NEW U, WInv(U), Unspoilt, Told(U), ResolveConflict
    PROVE  WInv(U)'
<1>1. /\ Kernel /\ Busy(file) /\ flow[file].step = "PubConflict"
      /\ UNCHANGED <<disk, inbox, looked, handing, saved, theirs>>
  BY StepOfJob DEF WInv, ResolveConflict
<1>2. CASE /\ ~row.here \/ ~disk.there
           /\ Finishes(file, Failure("Io"))
           /\ UNCHANGED <<row, owed, cloud>>
  <2>1. inbox' \in Seq(Tickets)
    BY <1>1 DEF WInv, WorldOK
  <2> QED
    BY <1>1, <1>2, <2>1, FailingKeeps
<1>3. CASE row.here /\ disk.there /\ (Settles \/ Merges \/ LandsUnanswered \/ Copies)
  BY <1>1, <1>3, SettlesKeeps, MergesKeeps, LandsUnansweredKeeps, CopiesKeeps
<1> QED
  BY <1>2, <1>3 DEF ResolveConflict

-----------------------------------------------------------------------------
(* The jobs of a creation.                                                 *)

\* What a creation may rely on.
LEMMA CreatesAlone ==
    ASSUME NEW U, WInv(U), Busy(dir)
    PROVE  /\ Kernel /\ WorldOK /\ ~Busy(file) /\ handing = {} /\ looked = NoRecord
           /\ owed.state = "no" /\ flow[file].step = "Idle" /\ AllSent(U) /\ SizeIsTrue(U)
           /\ ~buffer[file].open => disk = NoScratch
           /\ flow[dir].step \in {"MatInsert", "MatLookup", "MatBuffer"}
           /\ flow[dir].step = "MatInsert" => row.here \/ ~buffer[file].open
           /\ flow[dir].step \in {"MatLookup", "MatBuffer"} =>
                 row.here /\ ~Placed /\ ~buffer[file].open /\ ~row.sized
<1>1. /\ Kernel /\ WorldOK /\ ~Busy(file) /\ handing = {} /\ looked = NoRecord
      /\ owed.state = "no" /\ flow[file].step = "Idle"
      /\ flow[dir].step = "MatInsert" => row.here \/ ~buffer[file].open
      /\ flow[dir].step \in {"MatLookup", "MatBuffer"} =>
            row.here /\ ~Placed /\ ~buffer[file].open /\ ~row.sized
  BY DEF WInv, DirAlone, Busy
<1>2. flow[dir].step \in {"MatInsert", "MatLookup", "MatBuffer"}
  BY <1>1, DirIsBusy
<1>3. SizeIsTrue(U) /\ (~buffer[file].open => disk = NoScratch)
  BY <1>1 DEF WInv, Owing
<1>4. AllSent(U)
  BY <1>1 DEF WInv, OursAreHere, AllSent, Sent
<1> QED
  BY <1>1, <1>2, <1>3, <1>4

\* A step of the creation that leaves the world as it is.
LEMMA DirGoesOn ==
    ASSUME NEW U, WInv(U), Busy(dir), Kernel', flow'[file] = flow[file], buffer'[file] = buffer[file],
           UNCHANGED <<row, disk, owed, looked, handing, cloud, saved, theirs>>,
           inbox' \in Seq(Tickets),
           \/ FreshDir(flow'[dir])
           \/ /\ flow'[dir].step \in {"MatLookup", "MatBuffer"}
              /\ row.here /\ ~Placed /\ ~buffer[file].open /\ ~row.sized
    PROVE  WInv(U)'
<1>1. WorldOK'
  BY DEF WInv, WorldOK
<1>2. DirAlone'
  <2>1. flow'[dir].step \in {"Idle", "MatInsert"} \/ /\ row.here /\ ~Placed /\ ~row.sized
                                                     /\ ~buffer[file].open
                                                     /\ flow'[dir].step # "MatInsert"
    BY DEF FreshDir, IdleFlow
  <2>2. flow'[dir].step = "MatInsert" => row.here \/ ~buffer[file].open
    BY <2>1, CreatesAlone
  <2> QED
    BY <2>1, <2>2, CreatesAlone DEF DirAlone, Busy, Placed
<1>3. Numbers'
  BY DEF WInv, Numbers
<1>4. OnServer' = OnServer /\ (\A e : Sent(e)' <=> Sent(e)) /\ (\A e : InCopies(e)' <=> InCopies(e))
  BY DEF OnServer, Sent, InCopies
<1>5. (SizeIsTrue(U)' <=> SizeIsTrue(U)) /\ (AllSent(U)' <=> AllSent(U)) /\ (Placed' <=> Placed)
  BY <1>4 DEF SizeIsTrue, AllSent, Placed
<1>6. Owing(U)'
  BY <1>5 DEF WInv, Owing, NoRecord, NoScratch, Busy
<1>7. Scripted(U)'
  BY CreatesAlone DEF Scripted, PubSteps
<1>8. \A v : (Holds(U, v) => Holds(U, v)') /\ (PastSent(U, v) => PastSent(U, v)')
  BY <1>4 DEF Holds, PastSent
<1>9. Covers(U) => Covers(U)'
  BY <1>4, <1>5 DEF Covers
<1>10. Bases(U)'
  BY <1>8, <1>9 DEF WInv, Bases
<1>11. OursAreHere(U)' /\ TheirsAreHere(U)'
  BY <1>4 DEF WInv, OursAreHere, TheirsAreHere
<1> QED
  BY <1>1, <1>2, <1>3, <1>6, <1>7, <1>10, <1>11 DEF WInv

LEMMA ReadsRowOfDir ==
    ASSUME NEW U, WInv(U), ReadsRow(dir)
    PROVE  WInv(U)'
<1> DEFINE c == Came("Node", Presented, NoVersion, "None")
<1>1. /\ Busy(dir) /\ Finishes(dir, c)
      /\ flow[dir].job.op \in {"ReadNode", "ReadChild"}
      /\ UNCHANGED <<row, disk, owed, inbox, looked, handing, cloud, saved, theirs>>
  BY DEF ReadsRow, Runs, world
<1>2. Kernel /\ WorldOK /\ inbox' \in Seq(Tickets)
  BY <1>1 DEF WInv, WorldOK
<1>3. flow[dir].step = "MatLookup"
  BY <1>1, <1>2, DirIsBusy DEF Job
<1>4. row.here /\ ~Placed /\ ~buffer[file].open /\ ~row.sized
  BY <1>1, <1>3, CreatesAlone
<1>5. /\ c \in Answers /\ c.kind = "Node" /\ c.node = Presented
      /\ "found" \in Presented.is => Presented.id = file /\ Presented.etag = NoVersion
  BY <1>2, <1>4, WhatIsPresented DEF Placed
<1> HIDE DEF c
<1>6. /\ Kernel' /\ buffer'[file] = buffer[file] /\ flow'[file] = flow[file]
      /\ FreshDir(flow'[dir]) \/ flow'[dir].step = "MatBuffer"
  BY <1>1, <1>2, <1>3, <1>5, MatLookupFinds
<1> QED
  BY <1>1, <1>2, <1>4, <1>6, DirGoesOn

LEMMA FailsInPassingOfDir ==
    ASSUME NEW U, WInv(U), FailsInPassing(dir)
    PROVE  WInv(U)'
<1>1. /\ Busy(dir) /\ UNCHANGED <<row, disk, owed, looked, handing, cloud, saved, theirs>>
      /\ Kernel /\ inbox' \in Seq(Tickets)
  BY DEF WInv, WorldOK, FailsInPassing
<1>2. PICK why \in {"Io", "Permanent"} : Finishes(dir, Failure(why))
  BY DEF FailsInPassing
<1>3. /\ Kernel' /\ buffer'[file] = buffer[file] /\ flow'[file] = flow[file]
      /\ FreshDir(flow'[dir])
  BY <1>1, <1>2, WhatComesBack, DirFails
<1> QED
  BY <1>1, <1>3, DirGoesOn

LEMMA InsertNodeKeeps ==
    ASSUME NEW U, WInv(U), NEW o \in Objects, InsertNode(o)
    PROVE  WInv(U)'
<1>1. Runs(o, "InsertNode") /\ Kernel
  BY DEF InsertNode, WInv
<1>2. o = dir
  <2>1. o # file
    BY <1>1, StepOfJob
  <2> QED
    BY <2>1, TwoObjects
<1>3. Busy(dir) /\ flow[dir].step = "MatInsert"
  BY <1>1, <1>2, DirIsBusy DEF Runs, Job
<1>4. /\ UNCHANGED <<disk, owed, inbox, looked, handing, cloud, saved, theirs>>
      /\ inbox' \in Seq(Tickets)
  BY DEF InsertNode, WInv, WorldOK
<1>5. CASE row.here
  <2>1. Finishes(dir, Failure("Io")) /\ row' = row
    BY <1>2, <1>5 DEF InsertNode
  <2>2. /\ Kernel' /\ buffer'[file] = buffer[file] /\ flow'[file] = flow[file]
        /\ FreshDir(flow'[dir])
    BY <1>1, <1>3, <2>1, WhatComesBack, DirFails
  <2> QED
    BY <1>3, <1>4, <2>1, <2>2, DirGoesOn
<1>6. CASE ~row.here
  <2>1. /\ Finishes(dir, Success) /\ Success \in Answers /\ Success.kind = "Done"
        /\ row' = [here |-> TRUE, id |-> FALSE, sized |-> FALSE, etag |-> NoVersion]
    BY <1>2, <1>6, WhatComesBack DEF InsertNode
  <2>2. /\ row'.here /\ ~row'.id /\ ~row'.sized /\ row'.etag = NoVersion
    BY <2>1
  <2>3. /\ Kernel' /\ buffer'[file] = buffer[file] /\ flow'[file] = flow[file]
        /\ flow'[dir].step = "MatLookup"
    BY <1>1, <1>3, <2>1, MatInsertDone
  <2>4. /\ WorldOK /\ ~Busy(file) /\ handing = {} /\ looked = NoRecord
        /\ owed.state = "no" /\ flow[file].step = "Idle" /\ AllSent(U)
        /\ ~buffer[file].open /\ disk = NoScratch
    BY <1>3, <1>6, CreatesAlone
  <2>5. WorldOK'
    BY <1>4, <2>1, <2>4 DEF WorldOK
  <2>6. ~Placed'
    BY <2>2 DEF Placed
  <2>7. DirAlone'
    BY <1>4, <2>2, <2>3, <2>4, <2>6 DEF DirAlone, Busy
  <2>8. cloud.held[NoVersion] = {} /\ cloud.newest \in Nat
    BY <2>4, VersionsAreNumbers DEF WInv, Numbers, WorldOK
  <2>9. Numbers'
    BY <1>4, <2>2, <2>3, <2>8, VersionsAreNumbers DEF WInv, Numbers
  <2>10. SizeIsTrue(U)'
    BY <1>4, <2>2, <2>8 DEF SizeIsTrue
  <2>11. Owing(U)'
    BY <1>4, <2>3, <2>4, <2>10 DEF WInv, Owing
  <2>12. Scripted(U)'
    BY <2>3, <2>4 DEF Scripted, PubSteps
  <2>13. Bases(U)'
    BY <1>4, <2>3, <2>4 DEF Bases
  <2>14. OursAreHere(U)' /\ TheirsAreHere(U)'
    BY <1>4 DEF WInv, OursAreHere, TheirsAreHere, OnServer, InCopies
  <2> QED
    BY <2>3, <2>5, <2>7, <2>9, <2>11, <2>12, <2>13, <2>14 DEF WInv
<1> QED
  BY <1>5, <1>6

LEMMA CreateBufferOfDir ==
    ASSUME NEW U, WInv(U), CreateBuffer(dir)
    PROVE  WInv(U)'
<1>1. /\ Busy(dir) /\ flow[dir].job.op = "CreateBuffer" /\ Kernel
      /\ UNCHANGED <<row, owed, inbox, looked, handing, cloud, saved, theirs>>
      /\ disk' = Scratch({})
  BY DEF WInv, CreateBuffer, Runs
<1>2. flow[dir].step = "MatBuffer"
  BY <1>1, DirIsBusy DEF Job
<1>3. Finishes(dir, Success) /\ Success \in Answers /\ Success.kind = "Done"
  BY WhatComesBack DEF CreateBuffer
<1>4. /\ Kernel' /\ flow'[file] = flow[file] /\ FreshDir(flow'[dir])
      /\ buffer'[file].open /\ buffer'[file].dirty /\ buffer'[file].base = NoVersion
  BY <1>1, <1>2, <1>3, MatBufferDone
<1>5. /\ WorldOK /\ ~Busy(file) /\ handing = {} /\ looked = NoRecord
      /\ owed.state = "no" /\ flow[file].step = "Idle" /\ AllSent(U) /\ SizeIsTrue(U)
      /\ row.here /\ ~Placed
  BY <1>1, <1>2, CreatesAlone
<1>6. disk'.there /\ disk'.bytes = {}
  BY <1>1 DEF Scratch
<1>7. OnServer' = OnServer /\ (\A e : Sent(e)' <=> Sent(e)) /\ (\A e : InCopies(e)' <=> InCopies(e))
  BY <1>1 DEF OnServer, Sent, InCopies
<1>8. WorldOK'
  BY <1>1, <1>5 DEF WorldOK, Scratch
<1>9. DirAlone'
  <2>1. flow'[dir].step \in {"Idle", "MatInsert"}
    BY <1>4 DEF FreshDir, IdleFlow
  <2> QED
    BY <1>1, <1>4, <1>5, <2>1 DEF DirAlone, Busy
<1>10. cloud.held[NoVersion] = {} /\ cloud.newest \in Nat
  BY <1>5, VersionsAreNumbers DEF WInv, Numbers, WorldOK
<1>11. Numbers'
  BY <1>1, <1>4, <1>10, VersionsAreNumbers DEF WInv, Numbers
<1>12. SizeIsTrue(U)'
  BY <1>1, <1>5, <1>7 DEF SizeIsTrue
<1>13. Owing(U)'
  BY <1>1, <1>4, <1>5, <1>6, <1>12 DEF Owing
<1>14. Scripted(U)'
  BY <1>4, <1>5 DEF Scripted, PubSteps
<1>15. Holds(U, NoVersion)' /\ PastSent(U, NoVersion)'
  BY <1>1, <1>10 DEF Holds, PastSent
<1>16. Covers(U)'
  BY <1>1, <1>5 DEF Covers, Placed
<1>17. Bases(U)'
  BY <1>1, <1>4, <1>5, <1>15, <1>16 DEF Bases
<1>18. OursAreHere(U)' /\ TheirsAreHere(U)'
  BY <1>1, <1>5, <1>7 DEF WInv, OursAreHere, TheirsAreHere
<1> QED
  BY <1>4, <1>8, <1>9, <1>11, <1>13, <1>14, <1>17, <1>18 DEF WInv

-----------------------------------------------------------------------------
(* Callers.                                                                *)

LEMMA MachineStays ==
    ASSUME Kernel, UNCHANGED vars
    PROVE  /\ Kernel' /\ flow' = flow /\ buffer' = buffer
           /\ Busy(file)' <=> Busy(file)
           /\ Busy(dir)' <=> Busy(dir)
<1>1. IInv'
  BY DEF Kernel, IInv, RestOK, vars
<1> QED
  BY <1>1 DEF Kernel, vars, Busy

LEMMA HandsBytesKeeps ==
    ASSUME NEW U, WInv(U), Unspoilt, NEW t \in Tickets, HandsBytes(t)
    PROVE  WInv(U)'
<1>1. /\ Kernel /\ WorldOK /\ Known /\ ~OverOwed
      /\ UNCHANGED <<vars, row, disk, owed, cloud, looked, saved, theirs>>
      /\ inbox' = Append(inbox, t) /\ handing' = handing \cup {t}
  BY DEF WInv, HandsBytes, MayWrite, Unspoilt
<1>2. /\ Kernel' /\ flow' = flow /\ buffer' = buffer
      /\ Busy(file)' <=> Busy(file)
      /\ Busy(dir)' <=> Busy(dir)
  BY <1>1, MachineStays
<1>3. ~Busy(dir)
  BY <1>1, DirIsBusy DEF Known, DirAsk
<1>4. buffer[file].open \/ owed.state = "no"
  BY <1>1 DEF OverOwed
<1>5. inbox' \in Seq(Tickets) /\ handing' \subseteq Tickets
  BY <1>1 DEF WorldOK
<1>6. WorldOK'
  BY <1>1, <1>5 DEF WorldOK
<1>7. DirAlone'
  BY <1>2, <1>3 DEF DirAlone
<1>8. Numbers'
  BY <1>1, <1>2 DEF WInv, Numbers
<1>9. OnServer' = OnServer /\ (\A e : Sent(e)' <=> Sent(e)) /\ (\A e : InCopies(e)' <=> InCopies(e))
  BY <1>1 DEF OnServer, Sent, InCopies
<1>10. (SizeIsTrue(U)' <=> SizeIsTrue(U)) /\ (AllSent(U)' <=> AllSent(U)) /\ (Placed' <=> Placed)
  BY <1>1, <1>9 DEF SizeIsTrue, AllSent, Placed
<1>11. Owing(U)'
  BY <1>1, <1>2, <1>4, <1>10 DEF WInv, Owing, NoScratch
<1>12. Scripted(U)'
  BY <1>1, <1>2, <1>10 DEF WInv, Scripted
<1>13. \A v : (Holds(U, v) => Holds(U, v)') /\ (PastSent(U, v) => PastSent(U, v)')
  BY <1>1, <1>9 DEF Holds, PastSent
<1>14. Covers(U) => Covers(U)'
  BY <1>1, <1>9, <1>10 DEF Covers
<1>15. Bases(U)'
  BY <1>1, <1>2, <1>13, <1>14 DEF WInv, Bases
<1>16. OursAreHere(U)' /\ TheirsAreHere(U)'
  BY <1>1, <1>9 DEF WInv, OursAreHere, TheirsAreHere
<1> QED
  BY <1>2, <1>6, <1>7, <1>8, <1>11, <1>12, <1>15, <1>16 DEF WInv

\* Requests that meet something queue behind it; the others start.
LEMMA Arriving ==
    ASSUME Kernel, NEW x \in Objects, NEW y \in Objects \ {x}, NEW r \in Request, Arrives(x, r),
           x = file => FileAsk(r.intent), x = dir => DirAsk(r.intent)
    PROVE  /\ flow'[y] = flow[y] /\ queue'[y] = queue[y]
           /\ \/ flow'[x] = flow[x] /\ queue'[x] = queue[x]
              \/ /\ flow'[x] = flow[x] /\ Busy(x)
                 /\ queue'[x] = Append(queue[x], r)
              \/ /\ ~Busy(x) /\ queue'[x] = queue[x] /\ ~AtOnce(r.intent, buffer[x])
                 /\ flow'[x] = Start(x, r.intent, r.id, buffer[x])
<1>1. /\ flow = [o \in Objects |-> flow[o]] /\ queue = [o \in Objects |-> queue[o]]
  BY DEF Kernel, IInv, RestOK
<1>2. r.intent.kind \in {"Write", "Publish", "Materialise"}
  BY TwoObjects DEF FileAsk, DirAsk
<1>3. Collision(flow[x], r.intent, buffer[x]) = "Queue"
  BY <1>2 DEF Collision
<1>4. Begins(x, r) \/ IsDoneAtOnce(x, r) \/ Queues(x, r)
  BY <1>2, <1>3 DEF Arrives, ReadsBeside, Joins, Aborts, Skips, Collides
<1>5. CASE Begins(x, r)
  BY <1>1, <1>5 DEF Begins
<1>6. CASE IsDoneAtOnce(x, r)
  BY <1>6 DEF IsDoneAtOnce
<1>7. CASE Queues(x, r)
  <2>1. flow' = flow /\ queue' = [queue EXCEPT ![x] = Append(@, r)] /\ Busy(x)
    BY <1>7 DEF Queues, Collides
  <2> QED
    BY <1>1, <2>1
<1> QED
  BY <1>4, <1>5, <1>6, <1>7

LEMMA QueuedAsks ==
    ASSUME NEW q \in Seq(Request), NEW r \in Request
    PROVE  /\ (\A k \in DOMAIN q : FileAsk(q[k].intent)) /\ FileAsk(r.intent) =>
                 \A k \in DOMAIN Append(q, r) : FileAsk(Append(q, r)[k].intent)
           /\ (\A k \in DOMAIN q : DirAsk(q[k].intent)) /\ DirAsk(r.intent) =>
                 \A k \in DOMAIN Append(q, r) : DirAsk(Append(q, r)[k].intent)
<1>1. \A k \in DOMAIN Append(q, r) :
         \/ k \in DOMAIN q /\ Append(q, r)[k] = q[k]
         \/ Append(q, r)[k] = r
  OBVIOUS
<1> QED
  BY <1>1

LEMMA SendsKernel ==
    ASSUME Kernel, Unspoilt, NEW t \in Tickets, NEW a \in Asks, Receives(t, a)
    PROVE  /\ Kernel' /\ buffer' = buffer
           /\ a.on = file => /\ flow'[dir] = flow[dir] /\ FileAsk(a.intent)
                             /\ \/ flow'[file] = flow[file]
                                \/ /\ ~Busy(file) /\ ~AtOnce(a.intent, buffer[file])
                                   /\ FreshFile(flow'[file], buffer[file])
           /\ a.on = dir => /\ flow'[file] = flow[file] /\ DirAsk(a.intent)
                            /\ \/ flow'[dir] = flow[dir]
                               \/ ~Busy(dir) /\ FreshDir(flow'[dir])
<1> DEFINE r == [id |-> t, intent |-> a.intent]
<1>1. Arrives(a.on, r) /\ UNCHANGED <<buffer, posted, abandoned, unsent>>
  BY DEF Receives
<1>2. /\ (a.on = file /\ FileAsk(a.intent)) \/ (a.on = dir /\ DirAsk(a.intent))
      /\ r \in Request /\ r.intent = a.intent
  BY AsksAssumption DEF Unspoilt, Request
<1>3. IInv'
  BY SubmitKeeps DEF Kernel, Submit
<1>4. queue[file] \in Seq(Request) /\ queue[dir] \in Seq(Request)
  BY TwoObjects DEF Kernel, IInv, Healthy
<1> HIDE DEF r
<1>5. CASE a.on = file /\ FileAsk(a.intent)
  <2>1. /\ flow'[dir] = flow[dir] /\ queue'[dir] = queue[dir]
        /\ \/ flow'[file] = flow[file] /\ queue'[file] = queue[file]
           \/ /\ flow'[file] = flow[file] /\ Busy(file)
              /\ queue'[file] = Append(queue[file], r)
           \/ /\ ~Busy(file) /\ queue'[file] = queue[file] /\ ~AtOnce(r.intent, buffer[file])
              /\ flow'[file] = Start(file, r.intent, r.id, buffer[file])
    BY <1>1, <1>2, <1>5, Arriving, TwoObjects
  <2>2. /\ ~AtOnce(r.intent, buffer[file]) => FreshFile(Start(file, r.intent, r.id, buffer[file]), buffer[file])
        /\ \A k \in DOMAIN Append(queue[file], r) : FileAsk(Append(queue[file], r)[k].intent)
    BY <1>2, <1>4, <1>5, StartingAFlow, QueuedAsks DEF Kernel
  <2>3. \A f, b : FreshFile(f, b) => FileFlow(f)
    BY FreshFlows
  <2>4. Kernel'
    BY <1>2, <1>3, <2>1, <2>2, <2>3 DEF Kernel
  <2> QED
    BY <1>1, <1>2, <1>5, <2>1, <2>2, <2>4, TwoObjects
<1>6. CASE a.on = dir /\ DirAsk(a.intent)
  <2>1. /\ flow'[file] = flow[file] /\ queue'[file] = queue[file]
        /\ \/ flow'[dir] = flow[dir] /\ queue'[dir] = queue[dir]
           \/ /\ flow'[dir] = flow[dir] /\ Busy(dir)
              /\ queue'[dir] = Append(queue[dir], r)
           \/ /\ ~Busy(dir) /\ queue'[dir] = queue[dir] /\ ~AtOnce(r.intent, buffer[dir])
              /\ flow'[dir] = Start(dir, r.intent, r.id, buffer[dir])
    BY <1>1, <1>2, <1>6, Arriving, TwoObjects
  <2>2. /\ FreshDir(Start(dir, r.intent, r.id, buffer[dir]))
        /\ \A k \in DOMAIN Append(queue[dir], r) : DirAsk(Append(queue[dir], r)[k].intent)
    BY <1>2, <1>4, <1>6, StartingAFlow, QueuedAsks DEF Kernel
  <2>3. \A f : FreshDir(f) => DirFlow(f)
    BY FreshFlows
  <2>4. Kernel'
    BY <1>2, <1>3, <2>1, <2>2, <2>3 DEF Kernel
  <2> QED
    BY <1>1, <1>2, <1>6, <2>1, <2>2, <2>4, TwoObjects
<1> QED
  BY <1>2, <1>5, <1>6

LEMMA SendsSays ==
    ASSUME Unspoilt, NEW t \in Tickets, NEW a \in Asks, Sends(t, a)
    PROVE  /\ Receives(t, a)
           /\ handing' = handing \ {t}
           /\ UNCHANGED <<row, disk, owed, inbox, cloud>>
           /\ UNCHANGED <<looked, saved, theirs>>
           /\ a.intent.kind = "Write" => t \in handing
           /\ a.intent.kind = "Materialise" => ~row.here /\ ~buffer[file].open
           /\ a.intent.kind = "Materialise" => Unused
           /\ a.intent.kind \notin {"Write", "Materialise"} => Known
  BY ZenonT(20) DEF Sends, world, Unspoilt

LEMMA SendsKeeps ==
    ASSUME NEW U, WInv(U), Unspoilt, NEW t \in Tickets, NEW a \in Asks, Sends(t, a)
    PROVE  WInv(U)'
<1>1. /\ Kernel /\ WorldOK /\ handing' = handing \ {t}
      /\ UNCHANGED <<row, disk, owed, inbox, cloud, looked, saved, theirs>>
  BY SendsSays DEF WInv
<1>0. /\ a.intent.kind = "Write" => t \in handing
      /\ a.intent.kind = "Materialise" => ~row.here /\ ~buffer[file].open
      /\ a.intent.kind = "Materialise" => Unused
      /\ a.intent.kind \notin {"Write", "Materialise"} => Known
  BY SendsSays
<1>2. /\ Kernel' /\ buffer' = buffer
      /\ a.on = file => /\ flow'[dir] = flow[dir] /\ FileAsk(a.intent)
                        /\ \/ flow'[file] = flow[file]
                           \/ /\ ~Busy(file) /\ ~AtOnce(a.intent, buffer[file])
                              /\ FreshFile(flow'[file], buffer[file])
      /\ a.on = dir => /\ flow'[file] = flow[file] /\ DirAsk(a.intent)
                       /\ \/ flow'[dir] = flow[dir]
                          \/ ~Busy(dir) /\ FreshDir(flow'[dir])
      /\ a.on \in {file, dir}
  BY <1>1, SendsSays, SendsKernel, TwoObjects, AsksAssumption
<1>3. a.on = file => ~Busy(dir)
  <2> SUFFICES ASSUME a.on = file, Busy(dir)
               PROVE  FALSE
    OBVIOUS
  <2>1. handing = {} /\ flow[dir].intent.kind = "Materialise"
    BY <1>1, DirIsBusy DEF WInv, DirAlone, DirAsk
  <2>2. a.intent.kind \in {"Write", "Publish"}
    BY <1>2 DEF FileAsk
  <2> QED
    BY <1>0, <2>1, <2>2 DEF Known
<1>4. a.on = dir => /\ ~row.here /\ ~buffer[file].open
                    /\ ~Busy(file) /\ handing = {} /\ looked = NoRecord
  BY <1>0, <1>2 DEF Unused, Unspoilt, DirAsk
<1>5. WorldOK'
  BY <1>1 DEF WorldOK
<1>6. OnServer' = OnServer /\ (\A e : Sent(e)' <=> Sent(e)) /\ (\A e : InCopies(e)' <=> InCopies(e))
  BY <1>1 DEF OnServer, Sent, InCopies
<1>7. (SizeIsTrue(U)' <=> SizeIsTrue(U)) /\ (AllSent(U)' <=> AllSent(U)) /\ (Placed' <=> Placed)
  BY <1>1, <1>6 DEF SizeIsTrue, AllSent, Placed
<1>8. \A v : (Holds(U, v) => Holds(U, v)') /\ (PastSent(U, v) => PastSent(U, v)')
  BY <1>1, <1>6 DEF Holds, PastSent
<1>9. Covers(U) => Covers(U)'
  BY <1>1, <1>6, <1>7 DEF Covers
<1>10. OursAreHere(U)' /\ TheirsAreHere(U)'
  BY <1>1, <1>6 DEF WInv, OursAreHere, TheirsAreHere
<1>11. \/ flow'[file] = flow[file]
       \/ /\ a.on = file /\ ~Busy(file) /\ ~AtOnce(a.intent, buffer[file])
          /\ FreshFile(flow'[file], buffer[file])
  BY <1>2
<1>12. flow'[file].step = "PubRecord" => flow'[file] = flow[file]
  BY <1>11 DEF FreshFile, IdleFlow
<1>13. Numbers'
  BY <1>1, <1>2, <1>12 DEF WInv, Numbers
<1>14. Bases(U)'
  <2>1. flow'[file].step \notin {"PubClear", "PubDiscard"} =>
            flow[file].step \notin {"PubClear", "PubDiscard"}
    BY <1>11 DEF Busy
  <2> QED
    BY <1>1, <1>2, <1>8, <1>9, <2>1 DEF WInv, Bases
<1>15. DirAlone'
  <2>1. CASE a.on = file
    BY <1>2, <1>3, <2>1 DEF DirAlone, Busy
  <2>2. CASE a.on = dir
    <3>1. owed.state = "no"
      BY <1>4, <2>2 DEF WInv, Owing
    <3>2. flow'[dir] = flow[dir] \/ flow'[dir].step \in {"Idle", "MatInsert"}
      BY <1>2, <2>2 DEF FreshDir, IdleFlow
    <3> QED
      BY <1>1, <1>2, <1>4, <1>7, <2>2, <3>1, <3>2 DEF WInv, DirAlone, Busy
  <2> QED
    BY <1>2, <2>1, <2>2
<1>16. Owing(U)'
  <2>1. ~buffer[file].open /\ owed.state # "no" => ~Busy(file)' /\ handing' = {}
    <3> SUFFICES ASSUME ~buffer[file].open, owed.state # "no"
                 PROVE  ~Busy(file)' /\ handing' = {}
      OBVIOUS
    <3>1. ~Busy(file) /\ handing = {} /\ row.here
      BY DEF WInv, Owing
    <3>2. a.on # dir
      BY <1>4, <3>1
    <3>3. a.intent.kind # "Write"
      BY <1>0, <3>1
    <3>4. AtOnce(a.intent, buffer[file])
      BY <1>2, <3>2, <3>3 DEF FileAsk, AtOnce
    <3> QED
      BY <1>1, <1>11, <3>1, <3>4 DEF Busy
  <2> QED
    BY <1>1, <1>2, <1>7, <2>1 DEF WInv, Owing
<1>17. Scripted(U)'
  <2>1. CASE flow'[file] = flow[file]
    BY <1>1, <1>2, <1>7, <2>1 DEF WInv, Scripted
  <2>2. CASE FreshFile(flow'[file], buffer[file])
    BY <1>2, <1>16, <2>2, FreshKnowsNothing
  <2> QED
    BY <1>11, <2>1, <2>2
<1> QED
  BY <1>2, <1>5, <1>10, <1>13, <1>14, <1>15, <1>16, <1>17 DEF WInv

-----------------------------------------------------------------------------
(* The uploader.                                                           *)

\* An idle flow is the idle flow, and scratch that is not there is none.
LEMMA Idleness ==
    ASSUME NEW U, WInv(U)
    PROVE  /\ ~Busy(file) => flow[file] = IdleFlow /\ flow[file].step = "Idle"
           /\ ~disk.there => disk.bytes = {} /\ disk = NoScratch
<1>1. ~Busy(file) => flow[file] = IdleFlow
  BY DEF WInv, Kernel, FileFlow, InWrite, InPublish, Busy
<1>2. disk \in [there : BOOLEAN, bytes : SUBSET Edits] /\ (~disk.there => disk.bytes = {})
  BY DEF WInv, WorldOK, Owing
<1>3. disk = [there |-> disk.there, bytes |-> disk.bytes] /\ disk.there \in BOOLEAN
  BY <1>2
<1>4. ~disk.there => disk = NoScratch
  BY <1>2, <1>3 DEF NoScratch
<1> QED
  BY <1>1, <1>2, <1>4 DEF Busy

LEMMA UploaderReadsKeeps ==
    ASSUME NEW U, WInv(U), UploaderReads
    PROVE  WInv(U)'
<1>1. /\ Kernel /\ WorldOK /\ UNCHANGED vars /\ looked' = owed /\ owed.state = "pending"
      /\ UNCHANGED <<row, disk, owed, inbox, handing, cloud, saved, theirs>>
  BY DEF WInv, UploaderReads, world
<1>2. /\ Kernel' /\ flow' = flow /\ buffer' = buffer
      /\ Busy(file)' <=> Busy(file)
      /\ Busy(dir)' <=> Busy(dir)
  BY <1>1, MachineStays
<1>3. WorldOK'
  BY <1>1 DEF WorldOK
<1>4. ~Busy(dir)
  BY <1>1 DEF WInv, DirAlone
<1>5. DirAlone'
  BY <1>2, <1>4 DEF DirAlone
<1>6. Numbers'
  BY <1>1, <1>2 DEF WInv, Numbers
<1>7. OnServer' = OnServer /\ (\A e : Sent(e)' <=> Sent(e)) /\ (\A e : InCopies(e)' <=> InCopies(e))
  BY <1>1 DEF OnServer, Sent, InCopies
<1>8. (SizeIsTrue(U)' <=> SizeIsTrue(U)) /\ (AllSent(U)' <=> AllSent(U)) /\ (Placed' <=> Placed)
  BY <1>1, <1>7 DEF SizeIsTrue, AllSent, Placed
<1>9. Owing(U)'
  BY <1>1, <1>2, <1>8 DEF WInv, Owing, NoScratch
<1>10. Scripted(U)'
  BY <1>1, <1>2, <1>8 DEF WInv, Scripted
<1>11. \A v : (Holds(U, v) => Holds(U, v)') /\ (PastSent(U, v) => PastSent(U, v)')
  BY <1>1, <1>7 DEF Holds, PastSent
<1>12. Covers(U) => Covers(U)'
  BY <1>1, <1>7, <1>8 DEF Covers
<1>13. Bases(U)'
  BY <1>1, <1>2, <1>11, <1>12 DEF WInv, Bases
<1>14. OursAreHere(U)' /\ TheirsAreHere(U)'
  BY <1>1, <1>7 DEF WInv, OursAreHere, TheirsAreHere
<1> QED
  BY <1>2, <1>3, <1>5, <1>6, <1>9, <1>10, <1>13, <1>14 DEF WInv

\* A record whose bytes are gone owes nothing that is not sent.
LEMMA UploaderResolvesKeeps ==
    ASSUME NEW U, WInv(U), UploaderResolves
    PROVE  WInv(U)'
<1>1. /\ Kernel /\ WorldOK /\ UNCHANGED vars /\ looked = NoRecord /\ looked' = looked
      /\ owed.state = "pending" /\ row.here /\ ~disk.there
      /\ UNCHANGED <<row, disk, inbox, handing, cloud, saved, theirs>>
  BY DEF WInv, UploaderResolves, Owing
<1>2. \/ owed' = NoRecord /\ owed.base = NoVersion
      \/ owed' = [owed EXCEPT !.state = "error"]
  BY <1>1 DEF UploaderResolves, Landed
<1>3. /\ owed' \in [state : {"no", "pending", "error"}, base : Versions \cup {NoVersion}]
      /\ owed'.base = owed.base
      /\ owed'.state = "no" => owed.base = NoVersion
  BY <1>1, <1>2 DEF WorldOK, NoRecord
<1>4. /\ Kernel' /\ flow' = flow /\ buffer' = buffer
      /\ Busy(file)' <=> Busy(file)
      /\ Busy(dir)' <=> Busy(dir)
  BY <1>1, MachineStays
<1>5. disk.bytes = {} /\ disk = NoScratch
  BY <1>1, Idleness
<1>6. WorldOK'
  BY <1>1, <1>3 DEF WorldOK
<1>7. DirAlone'
  BY <1>1, <1>4 DEF WInv, DirAlone
<1>8. Numbers'
  BY <1>1, <1>3, <1>4 DEF WInv, Numbers
<1>9. OnServer' = OnServer /\ (\A e : Sent(e)' <=> Sent(e)) /\ (\A e : InCopies(e)' <=> InCopies(e))
  BY <1>1 DEF OnServer, Sent, InCopies
<1>10. (SizeIsTrue(U)' <=> SizeIsTrue(U)) /\ (AllSent(U)' <=> AllSent(U)) /\ (Placed' <=> Placed)
  BY <1>1, <1>9 DEF SizeIsTrue, AllSent, Placed
<1>11. owed'.state = "no" => SizeIsTrue(U)
  BY <1>3 DEF WInv, Owing
<1>12. Owing(U)'
  BY <1>1, <1>3, <1>4, <1>5, <1>10, <1>11 DEF WInv, Owing
<1>13. flow[file].step # "PubDiscard"
  BY <1>1 DEF WInv, Scripted
<1>14. Scripted(U)'
  BY <1>1, <1>4, <1>10, <1>13 DEF WInv, Scripted
<1>15. \A v : Holds(U, v)' /\ PastSent(U, v)'
  BY <1>1 DEF Holds, PastSent
<1>16. Covers(U)'
  BY <1>1 DEF Covers
<1>17. Bases(U)'
  BY <1>15, <1>16 DEF Bases
<1>18. OursAreHere(U)' /\ TheirsAreHere(U)'
  BY <1>1, <1>5, <1>9 DEF WInv, OursAreHere, TheirsAreHere
<1> QED
  BY <1>4, <1>6, <1>7, <1>8, <1>12, <1>14, <1>17, <1>18 DEF WInv

\* The machine takes up an upload that is owed.
LEMMA ResumeKernel ==
    ASSUME NEW U, WInv(U), looked # NoRecord, ~Busy(file),
           buffer' = [buffer EXCEPT ![file] = ResumedBuffer],
           flow' = [flow EXCEPT ![file] = Start(file, Publishing, Nobody, ResumedBuffer)],
           UNCHANGED <<queue, beside, posted, reply, abandoned, unsent>>
    PROVE  /\ Kernel' /\ flow'[dir] = flow[dir]
           /\ buffer'[file] = ResumedBuffer
           /\ ResumedBuffer.open
           /\ FreshFile(flow'[file], buffer'[file])
           /\ buffer[file].open => ResumedBuffer = buffer[file]
           /\ ~buffer[file].open => ResumedBuffer.dirty /\ ResumedBuffer.base = looked.base
<1> DEFINE b == ResumedBuffer
           g == Start(file, Publishing, Nobody, b)
<1>1. /\ IInv /\ RestOK /\ looked.base \in Versions \cup {NoVersion}
      /\ Healthy(flow[dir], queue[dir]) /\ Healthy(flow[file], queue[file])
      /\ buffer[file] \in Buffer
  BY TwoObjects DEF WInv, Kernel, IInv, WorldOK, RestOK
<1>2. /\ b \in Buffer /\ b.open
      /\ buffer[file].open => b = buffer[file]
      /\ ~buffer[file].open => b.dirty /\ b.base = looked.base
  BY <1>1 DEF ResumedBuffer, NoBuffer, Buffer
<1>3. Publishing \in Intent /\ FileAsk(Publishing)
  BY DEF Publishing, NoIntent, Intent, Kinds, FileAsk
<1> HIDE DEF b
<1>4. FreshFile(g, b)
  BY <1>2, <1>3, StartingAFlow DEF AtOnce
<1>5. Healthy(g, queue[file])
  BY <1>1, <1>2, <1>3, TwoObjects, StartIsHealthy DEF Healthy
<1> HIDE DEF g
<1>6. buffer' = [buffer EXCEPT ![file] = b] /\ flow' = [flow EXCEPT ![file] = g]
  BY DEF b, g
<1>7. flow'[file] = g /\ flow'[dir] = flow[dir] /\ buffer'[file] = b
  BY <1>1, <1>6, TwoObjects DEF RestOK
<1>8. flow' = [o \in Objects |-> flow'[o]]
  BY <1>1, <1>6 DEF RestOK
<1>9. RestOK'
  <2>1. buffer' \in [Objects -> Buffer]
    BY <1>1, <1>2, <1>6 DEF RestOK
  <2>2. queue' = [o \in Objects |-> queue'[o]]
    BY <1>1 DEF RestOK
  <2> QED
    BY <1>1, <1>8, <2>1, <2>2 DEF RestOK
<1>10. IInv'
  BY <1>1, <1>5, <1>7, <1>9, TwoObjects DEF IInv
<1>11. FileFlow(flow'[file])
  BY <1>4, <1>7, FreshFlows
<1>12. Kernel'
  BY <1>7, <1>10, <1>11 DEF WInv, Kernel
<1> QED
  BY <1>2, <1>4, <1>7, <1>12 DEF b

LEMMA ResumeKeeps ==
    ASSUME NEW U, WInv(U), Resume
    PROVE  WInv(U)'
<1>1. /\ Kernel /\ WorldOK /\ looked # NoRecord /\ looked' = NoRecord
      /\ UNCHANGED <<row, disk, owed, inbox, handing, cloud, saved, theirs>>
      /\ UNCHANGED <<queue, beside, posted, reply, abandoned, unsent>>
  BY DEF WInv, Resume, world
<1>2. ~Busy(dir)
  BY <1>1 DEF WInv, DirAlone
<1>3. NoRecord.base = NoVersion /\ NoRecord.state = "no" /\ NoVersion = 0
      /\ cloud.newest \in Nat
  BY <1>1, VersionsAreNumbers DEF NoRecord, WorldOK
<1>4. WorldOK'
  BY <1>1, <1>3 DEF WorldOK, NoRecord
<1>5. OnServer' = OnServer /\ (\A e : Sent(e)' <=> Sent(e)) /\ (\A e : InCopies(e)' <=> InCopies(e))
  BY <1>1 DEF OnServer, Sent, InCopies
<1>6. (SizeIsTrue(U)' <=> SizeIsTrue(U)) /\ (AllSent(U)' <=> AllSent(U)) /\ (Placed' <=> Placed)
  BY <1>1, <1>5 DEF SizeIsTrue, AllSent, Placed
<1>7. \A v : (Holds(U, v) => Holds(U, v)') /\ (PastSent(U, v) => PastSent(U, v)')
  BY <1>1, <1>5 DEF Holds, PastSent
<1>8. Covers(U) => Covers(U)'
  BY <1>1, <1>5, <1>6 DEF Covers
<1>9. OursAreHere(U)' /\ TheirsAreHere(U)'
  BY <1>1, <1>5 DEF WInv, OursAreHere, TheirsAreHere
<1>10. CASE Resumable
  <2> DEFINE b == ResumedBuffer
  <2>1. /\ buffer' = [buffer EXCEPT ![file] = ResumedBuffer]
        /\ flow' = [flow EXCEPT ![file] = Start(file, Publishing, Nobody, ResumedBuffer)]
        /\ ~Busy(file)
    BY <1>10 DEF Resume, Resumable
  <2>2. /\ Kernel' /\ flow'[dir] = flow[dir] /\ buffer'[file] = b /\ b.open
        /\ FreshFile(flow'[file], buffer'[file])
        /\ buffer[file].open => b = buffer[file]
        /\ ~buffer[file].open => b.dirty /\ b.base = looked.base
    BY <1>1, <2>1, ResumeKernel
  <2> HIDE DEF b
  <2>3. flow[file].step = "Idle"
    BY <2>1, Idleness
  <2>4. DirAlone'
    BY <1>2, <2>2 DEF DirAlone, Busy
  <2>5. ~buffer[file].open /\ owed.state # "no" => b.base = owed.base
    BY <1>1, <2>2 DEF WInv, Owing
  <2>6. ~buffer[file].open /\ owed.state = "no" => ~disk.there
    BY DEF WInv, Owing, NoScratch
  <2>7. Owing(U)'
    BY <1>1, <1>6, <2>2, <2>5 DEF WInv, Owing
  <2>8. Scripted(U)' /\ flow'[file].step # "PubRecord"
    BY <2>2, <2>7, FreshKnowsNothing
  <2>9. b.base <= cloud.newest
    BY <2>2 DEF WInv, Numbers
  <2>10. Numbers'
    BY <1>1, <1>3, <2>2, <2>8, <2>9 DEF WInv, Numbers
  <2>11. Holds(U, b.base) /\ PastSent(U, b.base)
    <3>1. CASE buffer[file].open
      BY <2>2, <3>1 DEF WInv, Bases
    <3>2. CASE ~buffer[file].open /\ owed.state # "no"
      BY <2>5, <3>2 DEF WInv, Bases
    <3>3. CASE ~buffer[file].open /\ owed.state = "no"
      BY <2>6, <3>3 DEF Holds, PastSent
    <3> QED
      BY <3>1, <3>2, <3>3, <1>1 DEF WorldOK
  <2>12. b.base = NoVersion => Covers(U)
    <3>1. CASE buffer[file].open
      BY <2>2, <2>3, <3>1 DEF WInv, Bases
    <3>2. CASE ~buffer[file].open /\ owed.state # "no"
      BY <2>5, <3>2 DEF WInv, Bases
    <3>3. CASE ~buffer[file].open /\ owed.state = "no"
      BY <2>6, <3>3 DEF Covers
    <3> QED
      BY <3>1, <3>2, <3>3, <1>1 DEF WorldOK
  <2> SUFFICES ASSUME NEW v, v = b.base
               PROVE  WInv(U)'
    OBVIOUS
  <2>13. Holds(U, v)' /\ PastSent(U, v)' /\ buffer'[file].base = v
    BY <1>7, <2>2, <2>11
  <2>14. Bases(U)'
    BY <1>1, <1>7, <1>8, <2>2, <2>12, <2>13 DEF WInv, Bases
  <2> QED
    BY <1>4, <1>9, <2>2, <2>4, <2>7, <2>8, <2>10, <2>14 DEF WInv
<1>11. CASE ~Resumable
  <2>1. UNCHANGED vars
    BY <1>1, <1>11 DEF Resume, vars
  <2>2. /\ Kernel' /\ flow' = flow /\ buffer' = buffer
        /\ Busy(file)' <=> Busy(file)
        /\ Busy(dir)' <=> Busy(dir)
    BY <1>1, <2>1, MachineStays
  <2>3. DirAlone'
    BY <1>2, <2>2 DEF DirAlone
  <2>4. Numbers'
    BY <1>1, <1>3, <2>2 DEF WInv, Numbers
  <2>5. Owing(U)'
    BY <1>1, <1>6, <2>2 DEF WInv, Owing, NoScratch
  <2>6. Scripted(U)'
    BY <1>1, <1>6, <2>2 DEF WInv, Scripted
  <2>7. Bases(U)'
    BY <1>1, <1>7, <1>8, <2>2 DEF WInv, Bases
  <2> QED
    BY <1>4, <1>9, <2>2, <2>3, <2>4, <2>5, <2>6, <2>7 DEF WInv
<1> QED
  BY <1>10, <1>11

-----------------------------------------------------------------------------
(* The rest of the world.                                                  *)

\* Every flow here changes something, and keeps listings away.
LEMMA NothingChanges ==
    ASSUME NEW U, WInv(U)
    PROVE  (~Changing(file) => ~Busy(file)) /\ (~Changing(dir) => ~Busy(dir))
<1>1. Kernel
  BY DEF WInv
<1>2. Busy(file) => Changing(file)
  BY <1>1, FileIsBusy DEF Changing, ChangesState, FileAsk
<1>3. Busy(dir) => Changing(dir)
  BY <1>1, DirIsBusy DEF Changing, ChangesState, DirAsk
<1> QED
  BY <1>2, <1>3

LEMMA WalkKeeps ==
    ASSUME NEW U, WInv(U), Unspoilt, Told(U), Walk
    PROVE  WInv(U)'
<1>1. /\ Kernel /\ WorldOK /\ UNCHANGED vars /\ ~Busy(file) /\ ~Busy(dir) /\ row.here
      /\ UNCHANGED <<disk, inbox, looked, handing, cloud, saved, theirs>>
      /\ row' = Listed(row, cloud) /\ row' # row
      /\ owed' = IF Vanishes(row, cloud) THEN NoRecord ELSE owed
  BY NothingChanges DEF WInv, Walk
<1>2. Vanishes(row, cloud) => ~InHand
  BY ZenonT(20) DEF Walk, Unspoilt
<1>3. (NoBase => Covers(U))'
  BY ExposedOrCovered DEF Walk
<1>4. /\ Kernel' /\ flow' = flow /\ buffer' = buffer
      /\ Busy(file)' <=> Busy(file)
      /\ Busy(dir)' <=> Busy(dir)
  BY <1>1, MachineStays
<1>5. /\ flow[file].step = "Idle" /\ NoRecord.state = "no" /\ NoRecord.base = NoVersion
      /\ NoVersion = 0 /\ cloud.newest \in Nat
  BY <1>1, Idleness, VersionsAreNumbers DEF NoRecord, WorldOK
<1>6. /\ RowOK' /\ row'.etag <= cloud.newest /\ (row'.id => row'.etag # NoVersion)
      /\ SizeIsTrue(U)'
      /\ \/ owed' = owed /\ row'.here
         \/ owed' = NoRecord /\ ~InHand
  <2>1. CASE cloud.etag # NoVersion
    <3>1. row' = [row EXCEPT !.id = TRUE, !.etag = cloud.etag, !.sized = cloud.held[cloud.etag] # {}]
      BY <1>1, <2>1 DEF Listed
    <3>2. owed' = owed
      BY <1>1, <2>1 DEF Vanishes
    <3>3. /\ RowOK' /\ row'.here /\ row'.etag = cloud.etag
          /\ row'.sized <=> cloud.held[cloud.etag] # {}
      BY <1>1, <3>1 DEF WorldOK, RowOK
    <3>4. SizeIsTrue(U)'
      BY <1>1, <3>3 DEF SizeIsTrue
    <3> QED
      BY <1>1, <2>1, <3>2, <3>3, <3>4 DEF WInv, Numbers
  <2>2. CASE cloud.etag = NoVersion /\ row.id
    <3>1. row' = [row EXCEPT !.here = FALSE] /\ owed' = NoRecord /\ ~InHand
      BY <1>1, <1>2, <2>2 DEF Listed, Vanishes
    <3>2. RowOK' /\ ~row'.here /\ row'.etag = row.etag /\ row'.id = row.id
      BY <1>1, <3>1 DEF WorldOK, RowOK
    <3> QED
      BY <1>1, <3>1, <3>2 DEF WInv, Numbers, SizeIsTrue
  <2>3. CASE cloud.etag = NoVersion /\ ~row.id
    BY <1>1, <2>3 DEF Listed, Vanishes
  <2> QED
    BY <2>1, <2>2, <2>3
<1>7. WorldOK'
  BY <1>1, <1>6 DEF WorldOK, RowOK, NoRecord
<1>8. DirAlone' /\ Scripted(U)'
  BY <1>1, <1>4, <1>5 DEF DirAlone, Scripted, PubSteps
<1>9. Numbers'
  BY <1>1, <1>4, <1>5, <1>6 DEF WInv, Numbers
<1>10. OnServer' = OnServer /\ (\A e : Sent(e)' <=> Sent(e)) /\ (\A e : InCopies(e)' <=> InCopies(e))
  BY <1>1 DEF OnServer, Sent, InCopies
<1>11. \A v : (Holds(U, v) => Holds(U, v)') /\ (PastSent(U, v) => PastSent(U, v)')
  BY <1>1, <1>10 DEF Holds, PastSent
<1>12. CASE owed' = owed /\ row'.here
  <2>1. Owing(U)'
    BY <1>1, <1>4, <1>6, <1>12 DEF WInv, Owing, NoScratch
  <2>2. Bases(U)'
    BY <1>1, <1>3, <1>4, <1>11, <1>12 DEF WInv, Bases, NoBase
  <2>3. OursAreHere(U)' /\ TheirsAreHere(U)'
    BY <1>1, <1>10, <1>12 DEF WInv, OursAreHere, TheirsAreHere
  <2> QED
    BY <1>4, <1>7, <1>8, <1>9, <2>1, <2>2, <2>3 DEF WInv
<1>13. CASE owed' = NoRecord /\ ~InHand
  <2>1. ~buffer[file].open /\ owed.state = "no"
    BY <1>13 DEF InHand
  <2>2. Owing(U)'
    BY <1>1, <1>4, <1>5, <1>6, <1>13, <2>1 DEF WInv, Owing, NoScratch
  <2>3. Bases(U)'
    BY <1>1, <1>4, <1>5, <1>13, <2>1 DEF Bases
  <2>4. OursAreHere(U)' /\ TheirsAreHere(U)'
    BY <1>1, <1>10, <2>1 DEF WInv, OursAreHere, TheirsAreHere
  <2> QED
    BY <1>4, <1>7, <1>8, <1>9, <2>2, <2>3, <2>4 DEF WInv
<1> QED
  BY <1>6, <1>12, <1>13

\* An edit of somebody else is in no version yet, so no base promises it.
LEMMA ForeignSaveKeeps ==
    ASSUME NEW U, WInv(U), Unspoilt, Told(U), ForeignSave
    PROVE  WInv(U)'
<1> DEFINE new == Foreign \ UNION {cloud.held[v] : v \in Versions}
           n == NextOf(new)
           X == OnServer \cup {n}
<1>1. /\ Kernel /\ WorldOK /\ Numbers /\ UNCHANGED vars /\ CanPut
      /\ UNCHANGED <<row, disk, owed, inbox, looked, handing, saved>>
  BY DEF WInv, ForeignSave
<1>2. new # {} /\ theirs' = theirs \cup {n} /\ cloud' = Put(X)
  BY DEF ForeignSave
<1>3. n \in Foreign /\ \A v \in Versions : n \notin cloud.held[v]
  <2>1. n \in new
    BY <1>2 DEF NextOf
  <2> QED
    BY <2>1
<1> HIDE DEF n, new
<1>4. (NoBase => Covers(U))'
  BY ExposedOrCovered DEF ForeignSave
<1>5. \A v \in Versions \cup {NoVersion} : n \notin cloud.held[v]
  BY <1>1, <1>3 DEF Numbers
<1>6. /\ row.etag \in Versions \cup {NoVersion} /\ cloud.etag \in Versions \cup {NoVersion}
      /\ owed.base \in Versions \cup {NoVersion}
      /\ buffer[file].base \in Versions \cup {NoVersion}
      /\ looked.base \in Versions \cup {NoVersion}
      /\ flow[file].etag \in Versions \cup {NoVersion}
  BY <1>1, TwoObjects DEF WorldOK, Kernel, IInv, RestOK, Healthy, Flow, Buffer
<1>7. X \in SUBSET Edits /\ n \notin OnServer
  BY <1>1, <1>3, <1>5, <1>6 DEF WorldOK, OnServer, Edits
<1>8. /\ CloudOK' /\ cloud'.newest = cloud.newest + 1 /\ cloud'.etag = cloud.newest + 1
      /\ \A v \in Versions \cup {NoVersion} : v <= cloud.newest => cloud'.held[v] = cloud.held[v]
      /\ cloud'.held[NoVersion] = {} /\ OnServer' = X
      /\ \A e : InCopies(e)' <=> InCopies(e)
  BY <1>1, <1>2, <1>7, PutFacts DEF CloudOK
<1>9. \A e : e \in X <=> e \in OnServer \/ e = n
  OBVIOUS
<1> HIDE DEF X
<1>10. /\ Kernel' /\ flow' = flow /\ buffer' = buffer
       /\ Busy(file)' <=> Busy(file)
       /\ Busy(dir)' <=> Busy(dir)
  BY <1>1, MachineStays
<1>11. WorldOK'
  BY <1>1, <1>2, <1>3, <1>8 DEF WorldOK, CloudOK, Edits
<1>12. (Placed' <=> Placed) /\ \A e : Sent(e) => Sent(e)'
  BY <1>1, <1>8, <1>9 DEF Placed, Sent
<1>13. DirAlone'
  BY <1>1, <1>10, <1>12 DEF WInv, DirAlone
<1>14. /\ cloud.newest \in Nat /\ row.etag \in Nat /\ owed.base \in Nat
       /\ buffer[file].base \in Nat /\ looked.base \in Nat /\ flow[file].etag \in Nat
  BY <1>1, <1>6, VersionsAreNumbers DEF WorldOK
<1>15. Numbers'
  BY <1>1, <1>8, <1>10, <1>14 DEF Numbers
<1>16. cloud'.held[row.etag] = cloud.held[row.etag]
  BY <1>1, <1>6, <1>8 DEF Numbers
<1>17. SizeIsTrue(U) => SizeIsTrue(U)'
  BY <1>1, <1>5, <1>6, <1>8, <1>9, <1>16 DEF SizeIsTrue
<1>18. AllSent(U) => AllSent(U)'
  BY <1>1, <1>12 DEF AllSent
<1>19. flow[file].step = "PubRecord" => cloud'.held[flow[file].etag] = cloud.held[flow[file].etag]
  BY <1>1, <1>6, <1>8 DEF Numbers
<1>20. Scripted(U)'
  BY <1>1, <1>10, <1>12, <1>17, <1>18, <1>19 DEF WInv, Scripted
<1>21. Owing(U)'
  BY <1>1, <1>10, <1>17 DEF WInv, Owing, NoScratch
<1>22. \A v \in Versions \cup {NoVersion} : v <= cloud.newest =>
          (Holds(U, v) => Holds(U, v)') /\ (PastSent(U, v) => PastSent(U, v)')
  BY <1>1, <1>5, <1>8, <1>9, <1>12 DEF Holds, PastSent
<1>23. Outlives(U)
  BY <1>22 DEF Outlives
<1>24. buffer[file] \in Buffer
  BY <1>1, TwoObjects DEF Kernel, IInv, RestOK
<1>25. /\ buffer'[file].open => Holds(U, buffer[file].base)' /\ PastSent(U, buffer[file].base)'
       /\ owed'.state # "no" => Holds(U, owed.base)' /\ PastSent(U, owed.base)'
  BY <1>1, <1>10, <1>23, <1>24, BasesOutlive
<1>26. Bases(U)'
  BY <1>4, <1>25 DEF Bases, NoBase
<1>27. OursAreHere(U)'
  BY <1>1, <1>8, <1>9 DEF WInv, OursAreHere
<1>28. TheirsAreHere(U)'
  BY <1>2, <1>8, <1>9 DEF WInv, TheirsAreHere
<1> QED
  BY <1>10, <1>11, <1>13, <1>15, <1>20, <1>21, <1>26, <1>27, <1>28 DEF WInv

LEMMA ForeignDeleteKeeps ==
    ASSUME NEW U, WInv(U), Unspoilt, ForeignDelete
    PROVE  WInv(U)'
<1>1. /\ Kernel /\ WorldOK /\ Numbers /\ UNCHANGED vars
      /\ UNCHANGED <<row, disk, owed, inbox, looked, handing>>
      /\ cloud' = [cloud EXCEPT !.etag = NoVersion]
      /\ saved' = saved \ OnServer /\ theirs' = theirs \ OnServer
  BY DEF WInv, ForeignDelete
<1>2. ~InHand
  BY ZenonT(20) DEF ForeignDelete, Unspoilt
<1>3. ~Busy(file) /\ handing = {} /\ ~buffer[file].open /\ owed.state = "no"
  BY <1>2 DEF InHand
<1>4. /\ Kernel' /\ flow' = flow /\ buffer' = buffer
      /\ Busy(file)' <=> Busy(file)
      /\ Busy(dir)' <=> Busy(dir)
  BY <1>1, MachineStays
<1>5. /\ CloudOK' /\ cloud'.etag = NoVersion /\ cloud'.newest = cloud.newest
      /\ cloud'.held = cloud.held /\ cloud'.copies = cloud.copies
  BY <1>1 DEF WorldOK, CloudOK
<1>6. OnServer' = {} /\ (\A e : InCopies(e)' <=> InCopies(e))
  BY <1>1, <1>5 DEF OnServer, InCopies, Numbers
<1>7. flow[file].step = "Idle" /\ NoVersion = 0 /\ cloud.newest \in Nat
  BY <1>1, <1>3, Idleness, VersionsAreNumbers DEF WorldOK
<1>8. WorldOK'
  BY <1>1, <1>5 DEF WorldOK, CloudOK
<1>9. Placed' <=> Placed
  BY <1>1 DEF Placed
<1>10. DirAlone'
  BY <1>1, <1>4, <1>9 DEF WInv, DirAlone
<1>11. Scripted(U)'
  BY <1>4, <1>7 DEF Scripted, PubSteps
<1>12. Numbers'
  BY <1>1, <1>4, <1>5, <1>7 DEF Numbers
<1>13. SizeIsTrue(U)'
  BY <1>6 DEF SizeIsTrue
<1>14. Owing(U)'
  BY <1>1, <1>3, <1>4, <1>13 DEF WInv, Owing, NoScratch
<1>15. Bases(U)'
  BY <1>1, <1>3, <1>4 DEF Bases
<1>16. OursAreHere(U)' /\ TheirsAreHere(U)'
  BY <1>1, <1>3, <1>6 DEF WInv, OursAreHere, TheirsAreHere
<1> QED
  BY <1>4, <1>8, <1>10, <1>11, <1>12, <1>14, <1>15, <1>16 DEF WInv

LEMMA ScratchLostKeeps ==
    ASSUME NEW U, WInv(U), Unspoilt, ScratchLost
    PROVE  WInv(U)'
<1>1. /\ Kernel /\ WorldOK /\ UNCHANGED vars /\ disk' = NoScratch
      /\ UNCHANGED <<row, owed, inbox, looked, handing, cloud, saved, theirs>>
  BY DEF WInv, ScratchLost
<1>2. disk.bytes \subseteq OnServer
  BY ZenonT(20) DEF ScratchLost, Unspoilt
<1>3. ~disk'.there /\ disk'.bytes = {}
  BY <1>1 DEF NoScratch
<1>4. /\ Kernel' /\ flow' = flow /\ buffer' = buffer
      /\ Busy(file)' <=> Busy(file)
      /\ Busy(dir)' <=> Busy(dir)
  BY <1>1, MachineStays
<1>5. WorldOK'
  BY <1>1 DEF WorldOK, NoScratch
<1>6. OnServer' = OnServer /\ (\A e : Sent(e)' <=> Sent(e)) /\ (\A e : InCopies(e)' <=> InCopies(e))
  BY <1>1 DEF OnServer, Sent, InCopies
<1>7. (SizeIsTrue(U)' <=> SizeIsTrue(U)) /\ (AllSent(U)' <=> AllSent(U)) /\ (Placed' <=> Placed)
  BY <1>1, <1>6 DEF SizeIsTrue, AllSent, Placed
<1>8. DirAlone'
  BY <1>1, <1>4, <1>7 DEF WInv, DirAlone
<1>9. Numbers'
  BY <1>1, <1>4 DEF WInv, Numbers
<1>10. Owing(U)'
  BY <1>1, <1>3, <1>4, <1>7 DEF WInv, Owing
<1>11. Scripted(U)'
  BY <1>1, <1>3, <1>4, <1>7 DEF WInv, Scripted
<1>12. Bases(U)'
  BY <1>3 DEF Bases, Holds, PastSent, Covers
<1>13. OursAreHere(U)' /\ TheirsAreHere(U)'
  BY <1>1, <1>2, <1>6 DEF WInv, OursAreHere, TheirsAreHere
<1> QED
  BY <1>4, <1>5, <1>8, <1>9, <1>10, <1>11, <1>12, <1>13 DEF WInv

LEMMA CrashKernel ==
    ASSUME NEW U, WInv(U), Crash
    PROVE  /\ Kernel' /\ flow'[file] = IdleFlow /\ flow'[dir] = IdleFlow
           /\ buffer'[file] = NoBuffer
<1>1. /\ IInv /\ RestOK /\ handing \subseteq Tickets
  BY DEF WInv, Kernel, IInv, WorldOK
<1>2. /\ flow' = [o \in Objects |-> IdleFlow] /\ queue' = [o \in Objects |-> <<>>]
      /\ buffer' = [o \in Objects |-> NoBuffer]
      /\ beside' = {} /\ posted' = <<>> /\ unsent' = {} /\ abandoned' = abandoned
      /\ reply' = Answered(handing \cup {t \in Tickets : reply[t] = "open"}, "Io")
  BY DEF Crash
<1>3. reply' \in [Tickets -> {"new", "open"} \cup Outcomes]
  BY <1>1, <1>2 DEF Answered, RestOK, Outcomes, Failures
<1>4. NoBuffer \in Buffer
  BY DEF NoBuffer, Buffer
<1>5. RestOK'
  BY <1>1, <1>2, <1>3, <1>4 DEF RestOK
<1>6. \A o \in Objects : flow'[o] = IdleFlow /\ queue'[o] = <<>> /\ buffer'[o] = NoBuffer
  BY <1>2
<1>7. ASSUME NEW o \in Objects
      PROVE  Healthy(flow'[o], queue'[o])
  BY <1>6, IdleIsHealthy
<1>8. IInv'
  BY <1>5, <1>7 DEF IInv
<1>9. FileFlow(IdleFlow) /\ DirFlow(IdleFlow)
  BY FreshFlows DEF FreshFile, FreshDir
<1>10. Kernel'
  BY <1>6, <1>8, <1>9, TwoObjects DEF Kernel
<1> QED
  BY <1>6, <1>10, TwoObjects

\* What start-up keeps is what is still owed.
LEMMA CrashKeeps ==
    ASSUME NEW U, WInv(U), Unspoilt, Told(U), Crash
    PROVE  WInv(U)'
<1>1. /\ Kernel /\ WorldOK /\ inbox' = <<>> /\ handing' = {} /\ looked' = NoRecord
      /\ disk' = (IF owed.state # "no" THEN disk ELSE NoScratch)
      /\ row' = RowAtStart
      /\ UNCHANGED <<owed, cloud, saved, theirs>>
  BY DEF WInv, Crash, ScratchAtStart
<1>2. (NoBase => Covers(U))'
  BY ExposedOrCovered DEF Crash
<1>3. /\ Kernel' /\ flow'[file] = IdleFlow /\ flow'[dir] = IdleFlow
      /\ buffer'[file] = NoBuffer
  BY CrashKernel
<1>4. /\ flow'[file].step = "Idle" /\ flow'[dir].step = "Idle"
      /\ buffer'[file].open = FALSE /\ buffer'[file].base = NoVersion
      /\ NoRecord.base = NoVersion /\ NoRecord.state = "no"
      /\ NoScratch.there = FALSE /\ NoScratch.bytes = {}
  BY <1>3 DEF IdleFlow, NoBuffer, NoRecord, NoScratch
<1>5. /\ RowOK' /\ row'.id = row.id /\ row'.etag = row.etag /\ row'.sized = row.sized
      /\ row'.here => row.here
      /\ owed.state # "no" => row'.here = row.here
  BY <1>1 DEF RowAtStart, WorldOK, RowOK
<1>6. WorldOK'
  BY <1>1, <1>5 DEF WorldOK, RowOK, NoScratch, NoRecord
<1>7. ~Busy(file)' /\ ~Busy(dir)'
  BY <1>4 DEF Busy
<1>8. DirAlone' /\ Scripted(U)'
  BY <1>4, <1>7 DEF DirAlone, Scripted, PubSteps
<1>9. NoVersion = 0 /\ cloud.newest \in Nat
  BY <1>1, VersionsAreNumbers DEF WorldOK
<1>10. Numbers'
  BY <1>1, <1>4, <1>5, <1>9 DEF WInv, Numbers
<1>11. OnServer' = OnServer /\ (\A e : Sent(e)' <=> Sent(e)) /\ (\A e : InCopies(e)' <=> InCopies(e))
  BY <1>1 DEF OnServer, Sent, InCopies
<1>12. SizeIsTrue(U) => SizeIsTrue(U)'
  BY <1>1, <1>5, <1>11 DEF SizeIsTrue
<1>13. Owing(U)'
  BY <1>1, <1>4, <1>5, <1>7, <1>12 DEF WInv, Owing
<1>14. owed.state # "no" => \A v : (Holds(U, v) => Holds(U, v)') /\ (PastSent(U, v) => PastSent(U, v)')
  BY <1>1, <1>11 DEF Holds, PastSent
<1>15. Bases(U)'
  BY <1>1, <1>2, <1>4, <1>14 DEF WInv, Bases, NoBase
<1>16. OursAreHere(U)' /\ TheirsAreHere(U)'
  BY <1>1, <1>11 DEF WInv, OursAreHere, TheirsAreHere
<1> QED
  BY <1>3, <1>6, <1>8, <1>10, <1>13, <1>15, <1>16 DEF WInv

LEMMA StandsStill ==
    ASSUME NEW U, WInv(U), UNCHANGED wvars
    PROVE  WInv(U)'
<1>1. /\ Kernel /\ UNCHANGED vars
      /\ UNCHANGED <<row, disk, owed, inbox, cloud, looked, handing, saved, theirs>>
  BY DEF WInv, wvars, world
<1>2. /\ Kernel' /\ flow' = flow /\ buffer' = buffer
      /\ Busy(file)' <=> Busy(file)
      /\ Busy(dir)' <=> Busy(dir)
  BY <1>1, MachineStays
<1>3. WorldOK'
  BY <1>1 DEF WInv, WorldOK
<1>4. OnServer' = OnServer /\ (\A e : Sent(e)' <=> Sent(e)) /\ (\A e : InCopies(e)' <=> InCopies(e))
  BY <1>1 DEF OnServer, Sent, InCopies
<1>5. (SizeIsTrue(U)' <=> SizeIsTrue(U)) /\ (AllSent(U)' <=> AllSent(U)) /\ (Placed' <=> Placed)
  BY <1>1, <1>4 DEF SizeIsTrue, AllSent, Placed
<1>6. DirAlone'
  BY <1>1, <1>2, <1>5 DEF WInv, DirAlone
<1>7. Numbers'
  BY <1>1, <1>2 DEF WInv, Numbers
<1>8. Owing(U)'
  BY <1>1, <1>2, <1>5 DEF WInv, Owing, NoScratch
<1>9. Scripted(U)'
  BY <1>1, <1>2, <1>5 DEF WInv, Scripted
<1>10. \A v : (Holds(U, v) => Holds(U, v)') /\ (PastSent(U, v) => PastSent(U, v)')
  BY <1>1, <1>4 DEF Holds, PastSent
<1>11. Covers(U) => Covers(U)'
  BY <1>1, <1>4, <1>5 DEF Covers
<1>12. Bases(U)'
  BY <1>1, <1>2, <1>10, <1>11 DEF WInv, Bases
<1>13. OursAreHere(U)' /\ TheirsAreHere(U)'
  BY <1>1, <1>4 DEF WInv, OursAreHere, TheirsAreHere
<1> QED
  BY <1>2, <1>3, <1>6, <1>7, <1>8, <1>9, <1>12, <1>13 DEF WInv

-----------------------------------------------------------------------------
(* The invariant, and what it says.                                        *)

LEMMA WInvAtFirst ==
    ASSUME NEW U, WInit
    PROVE  WInv(U)
<1>1. Init /\ IInv
  BY InitIInv DEF WInit
<1>2. PICK first \in {{}, {NextOf(Foreign)}} :
          LET v == Cardinality(first) IN
             /\ row = [here |-> v = 1, id |-> v = 1, sized |-> v = 1, etag |-> v]
             /\ cloud = [etag |-> v, newest |-> v, copies |-> {},
                         held |-> [e \in Versions \cup {NoVersion} |-> IF e = 1 THEN first ELSE {}]]
             /\ theirs = first
  BY DEF WInit
<1>3. /\ disk = NoScratch /\ owed = NoRecord /\ looked = NoRecord
      /\ inbox = <<>> /\ handing = {} /\ saved = {}
  BY DEF WInit
<1> DEFINE v == Cardinality(first)
<1>4. NextOf(Foreign) \in Foreign
  BY WorldAssumption DEF NextOf
<1>5. first \subseteq Foreign /\ ((v = 0 /\ first = {}) \/ v = 1)
  BY <1>2, <1>4, FS_EmptySet, FS_Singleton
<1>6. NoVersion = 0 /\ 1 \in Versions
  BY WorldAssumption, FS_CardinalityType
<1>7. v \in Versions \cup {NoVersion} /\ v \in {0, 1}
  BY <1>5, <1>6
<1>8. /\ row = [here |-> v = 1, id |-> v = 1, sized |-> v = 1, etag |-> v]
      /\ cloud = [etag |-> v, newest |-> v, copies |-> {},
                  held |-> [e \in Versions \cup {NoVersion} |-> IF e = 1 THEN first ELSE {}]]
      /\ theirs = first
  BY <1>2
<1> HIDE DEF v
<1>9. /\ RowOK /\ row.here = (v = 1) /\ row.id = (v = 1) /\ row.sized = (v = 1) /\ row.etag = v
  BY <1>7, <1>8 DEF RowOK
<1>10. [e \in Versions \cup {NoVersion} |-> IF e = 1 THEN first ELSE {}]
          \in [Versions \cup {NoVersion} -> SUBSET Edits]
  BY <1>5 DEF Edits
<1>11. /\ CloudOK /\ cloud.etag = v /\ cloud.newest = v /\ cloud.copies = {}
       /\ cloud.held[NoVersion] = {} /\ cloud.held[v] = first
  BY <1>5, <1>6, <1>7, <1>8, <1>10 DEF CloudOK
<1>12. WorldOK
  BY <1>3, <1>5, <1>8, <1>9, <1>11 DEF WorldOK, RowOK, CloudOK, NoScratch, NoRecord, Edits
<1>13. /\ flow[file] = IdleFlow /\ flow[dir] = IdleFlow /\ buffer[file] = NoBuffer
       /\ queue[file] = <<>> /\ queue[dir] = <<>>
  BY <1>1, TwoObjects DEF Init
<1>14. /\ flow[file].step = "Idle" /\ flow[dir].step = "Idle" /\ ~buffer[file].open
       /\ buffer[file].base = NoVersion
  BY <1>13 DEF IdleFlow, NoBuffer
<1>15. FileFlow(IdleFlow) /\ DirFlow(IdleFlow)
  BY FreshFlows DEF FreshFile, FreshDir
<1>16. Kernel
  BY <1>1, <1>13, <1>15 DEF Kernel
<1>17. DirAlone /\ Scripted(U)
  BY <1>14 DEF DirAlone, Scripted, PubSteps, Busy
<1>18. Numbers
  <2>1. row.id => v = 1
    BY <1>9
  <2>2. v \in Nat /\ 0 <= v /\ v <= v
    BY <1>7
  <2>3. owed.base = 0 /\ looked.base = 0
    BY <1>3, <1>6 DEF NoRecord
  <2>4. flow[file].step # "PubRecord"
    BY <1>14
  <2> QED
    BY <1>6, <1>9, <1>11, <1>14, <2>1, <2>2, <2>3, <2>4 DEF Numbers
<1>19. Owing(U)
  BY <1>3, <1>9, <1>14 DEF Owing, NoScratch, NoRecord, SizeIsTrue
<1>20. Bases(U)
  BY <1>3, <1>14 DEF Bases, NoRecord
<1>21. OursAreHere(U) /\ TheirsAreHere(U)
  BY <1>3, <1>8, <1>11 DEF OursAreHere, TheirsAreHere, OnServer
<1> QED
  BY <1>12, <1>16, <1>17, <1>18, <1>19, <1>20, <1>21 DEF WInv

LEMMA WorksKeeps ==
    ASSUME NEW U, WInv(U), Unspoilt, Told(U), NEW o \in Objects, Works(o)
    PROVE  WInv(U)'
<1>1. CASE ReadsRow(o)
  BY <1>1, ReadsRowOfFile, ReadsRowOfDir, TwoObjects
<1>2. CASE InsertNode(o)
  BY <1>2, InsertNodeKeeps
<1>3. CASE CreateBuffer(o)
  BY <1>3, CreateBufferOfFile, CreateBufferOfDir, TwoObjects
<1>4. CASE FailsInPassing(o)
  BY <1>4, FailsInPassingOfFile, FailsInPassingOfDir, TwoObjects
<1>5. CASE \/ HydrateBuffer \/ WriteBuffer \/ MarkPending \/ BufferSize
           \/ Upload \/ ListRemote \/ ResolveConflict \/ RecordVersion
           \/ StoreBlob \/ ClearPending \/ SetUploadError \/ DiscardBuffer
  BY <1>5, HydrateBufferKeeps, WriteBufferKeeps, MarkPendingKeeps, BufferSizeKeeps,
     UploadKeeps, ListRemoteKeeps, ResolveConflictKeeps, RecordVersionKeeps,
     StoreBlobKeeps, ClearPendingKeeps, SetUploadErrorKeeps, DiscardBufferKeeps
<1> QED
  BY <1>1, <1>2, <1>3, <1>4, <1>5 DEF Works

LEMMA ActsKeep ==
    ASSUME NEW U, WInv(U), Unspoilt, Acts \/ UNCHANGED wvars, Told(U)
    PROVE  WInv(U)'
<1>1. ASSUME NEW t \in Tickets, HandsBytes(t)
      PROVE  WInv(U)'
  BY <1>1, HandsBytesKeeps
<1>2. ASSUME NEW t \in Tickets, NEW a \in Asks, Sends(t, a)
      PROVE  WInv(U)'
  BY <1>2, SendsKeeps
<1>3. ASSUME NEW o \in Objects, Works(o)
      PROVE  WInv(U)'
  BY <1>3, WorksKeeps
<1>4. CASE UploaderReads \/ UploaderResolves \/ Resume
  BY <1>4, UploaderReadsKeeps, UploaderResolvesKeeps, ResumeKeeps
<1>5. CASE Walk \/ ForeignSave \/ ForeignDelete \/ ScratchLost \/ Crash
  BY <1>5, WalkKeeps, ForeignSaveKeeps, ForeignDeleteKeeps, ScratchLostKeeps, CrashKeeps
<1>6. CASE WRest \/ UNCHANGED wvars
  BY <1>6, StandsStill DEF WRest
<1> QED
  BY <1>1, <1>2, <1>3, <1>4, <1>5, <1>6 DEF Acts

\* The less counts, the less is said.
LEMMA MoreIsUncounted ==
    ASSUME NEW U, NEW V, U \subseteq V, WInv(U)
    PROVE  WInv(V)
<1>1. AllSent(U) => AllSent(V)
  BY DEF AllSent
<1>2. SizeIsTrue(U) => SizeIsTrue(V)
  BY DEF SizeIsTrue
<1>3. \A v : (Holds(U, v) => Holds(V, v)) /\ (PastSent(U, v) => PastSent(V, v))
  BY DEF Holds, PastSent
<1>4. Covers(U) => Covers(V)
  BY DEF Covers
<1>5. Scripted(V)
  BY <1>1, <1>2 DEF WInv, Scripted
<1>6. Owing(V)
  BY <1>2 DEF WInv, Owing
<1>7. Bases(V)
  BY <1>3, <1>4 DEF WInv, Bases
<1>8. OursAreHere(V) /\ TheirsAreHere(V)
  BY DEF WInv, OursAreHere, TheirsAreHere
<1> QED
  BY <1>5, <1>6, <1>7, <1>8 DEF WInv

\* A step keeps the invariant beside all that was exposed before it or is now.
LEMMA WInvIsInductive ==
    ASSUME WInv(unseen), Unspoilt, [WNext]_wvars
    PROVE  WInv(unseen)'
<1>1. PICK U : U = unseen'
  OBVIOUS
<1>2. unseen \subseteq U
  BY <1>1 DEF WNext, Tells, wvars
<1>3. WInv(U)
  BY <1>2, MoreIsUncounted
<1>4. CASE WNext
  <2>1. Acts /\ Told(U)
    BY <1>1, <1>4 DEF WNext, Tells, Told
  <2>2. WInv(U)'
    BY <1>3, <2>1, ActsKeep
  <2> QED
    BY <1>1, <2>2
<1>5. CASE UNCHANGED wvars
  <2>1. WInv(U)'
    BY <1>3, <1>5, StandsStill
  <2> QED
    BY <1>1, <2>1
<1> QED
  BY <1>4, <1>5

\* Of each version that a buffer calls its base, the scratch file has what the
\* server still has; so of the server's version it has everything that counts.
LEMMA WInvSaysSo ==
    ASSUME WInv(unseen)
    PROVE  SavedIsSomewhere /\ TheirsAreKept /\ BaseIsInTheBuffer
<1>1. BaseIsInTheBuffer
  BY DEF WInv, Bases, Holds, OnServer, BaseIsInTheBuffer
<1> QED
  BY <1>1 DEF WInv, OursAreHere, TheirsAreHere, SavedIsSomewhere, TheirsAreKept

LEMMA WInvHolds ==
    ASSUME Unspoilt
    PROVE  WSpec => []WInv(unseen)
<1>1. WInit => WInv(unseen)
  BY WInvAtFirst
<1>2. WInv(unseen) /\ [WNext]_wvars => WInv(unseen)'
  BY WInvIsInductive
<1> QED
  BY <1>1, <1>2, PTL DEF WSpec

\* An edit whose flush was answered (script.rs publish_next: the local commit
\* answers, the upload comes later) is never lost, whatever the conflict
\* resolution, the uploader, the listings, other people and crashes do in
\* between: it is on the server, in a conflicted copy, or in a scratch file that
\* pending_uploads owes to the server.
THEOREM SavedIsNeverLost ==
    ASSUME Unspoilt
    PROVE  WSpec => []SavedIsSomewhere
<1>1. WInv(unseen) => SavedIsSomewhere
  BY WInvSaysSo
<1>2. WSpec => []WInv(unseen)
  BY WInvHolds
<1> QED
  BY <1>1, <1>2, PTL

\* What other people saved is never overwritten by an upload, a merge or a
\* settled conflict of ours (provider.rs upload_if, run_conflict_resolution)
\* that had not seen it: it is on the server or in a conflicted copy.
THEOREM TheirsAreNeverOverwritten ==
    ASSUME Unspoilt
    PROVE  WSpec => []TheirsAreKept
<1>1. WInv(unseen) => TheirsAreKept
  BY WInvSaysSo
<1>2. WSpec => []WInv(unseen)
  BY WInvHolds
<1> QED
  BY <1>1, <1>2, PTL

\* Whenever the base version of a buffer (registry.rs OpenBuffer) is the version
\* the server has, the scratch file holds what that version holds: so the
\* If-Match of an upload (script.rs precondition_for) tells the truth, whether
\* the base came from a row, from an upload or from the durable record.
THEOREM BasesTellTheTruth ==
    ASSUME Unspoilt
    PROVE  WSpec => []BaseIsInTheBuffer
<1>1. WInv(unseen) => BaseIsInTheBuffer
  BY WInvSaysSo
<1>2. WSpec => []WInv(unseen)
  BY WInvHolds
<1> QED
  BY <1>1, <1>2, PTL

=============================================================================
