--------------------------- MODULE MachineProofs ----------------------------
(***************************************************************************)
(* Theorems about Machine, for every set of objects, tickets, rows and     *)
(* requests.                                                               *)
(***************************************************************************)
EXTENDS Machine, SequenceTheorems, WellFoundedInduction, TLAPS

-----------------------------------------------------------------------------
(* What a script may return. A flow that goes on has a job out; one that is *)
(* handed over is parked with none; one that failed says why, and does not  *)
(* blame its caller; and only `abort` makes a flow give up.                 *)

Sound(m) ==
    /\ m \in Move
    /\ m.then \in {"Do", "AnswerThen"} => m.job.op \in Ops /\ m.step # "Handover"
    /\ m.then = "Handoff" => m.step = "Handover" /\ m.job = NoJob
    /\ m.then = "Fail" => m.why \in Failures \ {"Interrupted"}
    /\ m.then # "Abandoned"

LEMMA DoIsSound ==
    ASSUME NEW f \in Flow, NEW step \in Steps \ {"Handover"}, NEW op \in Ops,
           NEW on \in Objects \cup {NoObject}
    PROVE  Sound(Do(f, step, op, on))
  BY DEF Sound, Do, Go, Move, Flow, Job, Jobs

LEMMA AnswerThenIsSound ==
    ASSUME NEW f \in Flow, NEW step \in Steps \ {"Handover"}, NEW op \in Ops,
           NEW on \in Objects \cup {NoObject}
    PROVE  Sound(Go("AnswerThen", f, step, Job(op, on), "None"))
  BY DEF Sound, Go, Move, Flow, Job, Jobs

LEMMA HandoffIsSound ==
    ASSUME NEW f \in Flow
    PROVE  Sound(Go("Handoff", f, "Handover", NoJob, "None"))
  BY DEF Sound, Go, Move, Flow, Job, Jobs, NoJob, Steps

LEMMA FinishIsSound ==
    ASSUME NEW f \in Flow, f.step \in Steps
    PROVE  Sound(Finish(f))
  BY DEF Sound, Finish, Go, Move, Flow, NoJob, Job, Jobs

LEMMA FailIsSound ==
    ASSUME NEW f \in Flow, f.step \in Steps, NEW why \in Failures \ {"Interrupted"}
    PROVE  Sound(Fail(f, why))
  BY DEF Sound, Fail, Go, Move, Flow, NoJob, Job, Jobs

LEMMA KnowingType ==
    ASSUME NEW f \in Flow, NEW n \in Node
    PROVE  /\ Knowing(f, n) \in Flow
           /\ Knowing(f, n).step = f.step
           /\ Knowing(f, n).intent = f.intent
           /\ Knowing(f, n).node = n
  BY DEF Knowing, Flow

\* The scripts, one by one.
LEMMA FetchIsSound ==
    ASSUME NEW o \in Objects, NEW f \in Flow, f.step \in Steps,
           NEW c \in Completion, NEW b \in Buffer
    PROVE  Sound(FetchNext(o, f, c, b))
<1>1. FetchSource(b, c.node) \in Ops
  BY DEF FetchSource, Ops
<1>2. {"FetchBytes"} \subseteq Steps \ {"Handover"}
  BY DEF Steps
<1>3. {"NotFound", "WrongKind", "Stale"} \subseteq Failures \ {"Interrupted"}
  BY DEF Failures
<1>4. c.node \in Node
  BY DEF Completion
<1> QED
  BY <1>1, <1>2, <1>3, <1>4, DoIsSound, FinishIsSound, FailIsSound, KnowingType
  DEF FetchNext

LEMMA WriteIsSound ==
    ASSUME NEW o \in Objects, NEW f \in Flow, f.step \in Steps,
           NEW c \in Completion, NEW b \in Buffer
    PROVE  Sound(WriteNext(o, f, c, b))
<1>1. {"WriteBuffer", "HydrateBuffer", "CreateBuffer"} \subseteq Ops
  BY DEF Ops
<1>2. {"WriteBytes", "WritePrepare"} \subseteq Steps \ {"Handover"}
  BY DEF Steps
<1>3. {"NotFound", "WrongKind", "NotWritable"} \subseteq Failures \ {"Interrupted"}
  BY DEF Failures
<1>4. c.node \in Node
  BY DEF Completion
<1> QED
  BY <1>1, <1>2, <1>3, <1>4, DoIsSound, FinishIsSound, FailIsSound, KnowingType
  DEF WriteNext

LEMMA ExecOrFinalIsSound ==
    ASSUME NEW o \in Objects, NEW f \in Flow
    PROVE  Sound(ExecOrFinal(o, f)) /\ Sound(MtimeOnwards(o, f))
<1>1. {"RecordExec", "ReadNode", "RecordMtime"} \subseteq Ops
  BY DEF Ops
<1>2. {"AttrExec", "AttrFinal", "AttrMtime"} \subseteq Steps \ {"Handover"}
  BY DEF Steps
<1>3. Sound(ExecOrFinal(o, f))
  BY <1>1, <1>2, DoIsSound DEF ExecOrFinal
<1> QED
  BY <1>1, <1>2, <1>3, DoIsSound DEF MtimeOnwards

LEMMA SetAttrIsSound ==
    ASSUME NEW o \in Objects, NEW f \in Flow, f.step \in Steps,
           NEW c \in Completion, NEW b \in Buffer
    PROVE  Sound(SetAttrNext(o, f, c, b))
<1>1. {"TruncateBuffer", "CreateBuffer", "HydrateBuffer", "ReadNode"} \subseteq Ops
  BY DEF Ops
<1>2. {"AttrPrepare", "AttrTruncate", "AttrFinal"} \subseteq Steps \ {"Handover"}
  BY DEF Steps
<1>3. {"NotFound", "WrongKind", "NotWritable"} \subseteq Failures \ {"Interrupted"}
  BY DEF Failures
<1>4. c.node \in Node
  BY DEF Completion
<1> QED
  BY <1>1, <1>2, <1>3, <1>4, DoIsSound, FinishIsSound, FailIsSound, KnowingType,
     ExecOrFinalIsSound
  DEF SetAttrNext

LEMMA LookIsSound ==
    ASSUME NEW o \in Objects, NEW f \in Flow, f.step \in Steps,
           NEW c \in Completion, NEW b \in Buffer
    PROVE  Sound(LookNext(o, f, c))
<1>1. {"ReadChild", "ListRemote"} \subseteq Ops
  BY DEF Ops
<1>2. {"LookChild", "LookRemote"} \subseteq Steps \ {"Handover"}
  BY DEF Steps
<1>3. {"NotFound", "WrongKind"} \subseteq Failures \ {"Interrupted"}
  BY DEF Failures
<1>4. c.node \in Node
  BY DEF Completion
<1> QED
  BY <1>1, <1>2, <1>3, <1>4, DoIsSound, FinishIsSound, FailIsSound, KnowingType
  DEF LookNext, NotADirectory

LEMMA EnumerateIsSound ==
    ASSUME NEW o \in Objects, NEW f \in Flow, f.step \in Steps,
           NEW c \in Completion, NEW b \in Buffer
    PROVE  Sound(EnumerateNext(o, f, c))
<1>1. {"ReadChildren", "ListRemote"} \subseteq Ops
  BY DEF Ops
<1>2. {"EnumChildren", "EnumRemote"} \subseteq Steps \ {"Handover"}
  BY DEF Steps
<1>3. {"NotFound", "WrongKind"} \subseteq Failures \ {"Interrupted"}
  BY DEF Failures
<1>4. c.node \in Node
  BY DEF Completion
<1>5. [c.node EXCEPT !.is = @ \ {"listing_stale"}] \in Node
  BY <1>4 DEF Node
<1>6. Sound(Do(Knowing(f, [c.node EXCEPT !.is = @ \ {"listing_stale"}]),
               "EnumRemote", "ListRemote", o))
  BY <1>1, <1>2, <1>5, DoIsSound, KnowingType
<1>7. /\ Sound(Do(Knowing(f, c.node), "EnumChildren", "ReadChildren", o))
      /\ Sound(Do(f, "EnumChildren", "ReadChildren", o))
      /\ Sound(Fail(Knowing(f, c.node), NotADirectory(c.node)))
      /\ Sound(Finish(f))
  BY <1>1, <1>2, <1>3, <1>4, DoIsSound, FailIsSound, FinishIsSound, KnowingType
  DEF NotADirectory
<1> QED
  BY <1>6, <1>7 DEF EnumerateNext

LEMMA MaterialiseIsSound ==
    ASSUME NEW o \in Objects, NEW f \in Flow, f.step \in Steps,
           NEW c \in Completion, NEW b \in Buffer
    PROVE  Sound(MaterialiseNext(o, f, c))
<1>1. {"ReadChild", "ListRemote", "CreateBuffer"} \subseteq Ops
  BY DEF Ops
<1>2. {"MatLookup", "MatList", "MatBuffer"} \subseteq Steps \ {"Handover"}
  BY DEF Steps
<1>3. {"Io"} \subseteq Failures \ {"Interrupted"}
  BY DEF Failures
<1>4. c.node \in Node
  BY DEF Completion
<1>5. c.node.id \in Objects \cup {NoObject}
  BY <1>4 DEF Node
<1> QED
  BY <1>5, <1>1, <1>2, <1>3, <1>4, DoIsSound, FinishIsSound, FailIsSound, KnowingType
  DEF MaterialiseNext

LEMMA PublishIsSound ==
    ASSUME NEW o \in Objects, NEW f \in Flow, f.step \in Steps,
           NEW c \in Completion, NEW b \in Buffer
    PROVE  Sound(PublishNext(o, f, c))
<1>1. {"MarkPending", "DiscardBuffer", "BufferSize", "Upload", "RecordVersion", "ResolveConflict", "StoreBlob", "ClearPending", "ListRemote"} \subseteq Ops
  BY DEF Ops
<1>2. {"PubCommit", "PubDiscard", "PubSize", "PubUpload", "PubRecord", "PubConflict", "PubStore", "PubClear", "PubReload"} \subseteq Steps \ {"Handover"}
  BY DEF Steps
<1>3. {"Io"} \subseteq Failures \ {"Interrupted"}
  BY DEF Failures
<1>4. c.node \in Node
  BY DEF Completion
<1>5. [f EXCEPT !.etag = c.etag] \in Flow
  BY DEF Flow, Completion
<1>6. f.node.parent \in Objects \cup {NoObject}
  BY DEF Flow, Node
<1> QED
  BY <1>5, <1>6, <1>1, <1>2, <1>3, <1>4, DoIsSound, FinishIsSound, FailIsSound, KnowingType,
     AnswerThenIsSound
  DEF PublishNext

LEMMA RemoveIsSound ==
    ASSUME NEW o \in Objects, NEW f \in Flow, f.step \in Steps,
           NEW c \in Completion, NEW b \in Buffer
    PROVE  Sound(RemoveNext(o, f, c))
<1>1. {"DeleteRemote", "DiscardBuffer", "RemoveRows"} \subseteq Ops
  BY DEF Ops
<1>2. {"RemRemote", "RemBuffer", "RemRows"} \subseteq Steps \ {"Handover"}
  BY DEF Steps
<1>3. {"NotFound"} \subseteq Failures \ {"Interrupted"}
  BY DEF Failures
<1>4. c.node \in Node
  BY DEF Completion
<1>5. f.node.id \in Objects \cup {NoObject}
  BY DEF Flow, Node
<1> QED
  BY <1>5, <1>1, <1>2, <1>3, <1>4, DoIsSound, FinishIsSound, FailIsSound, KnowingType,
     HandoffIsSound
  DEF RemoveNext

LEMMA MoveIsSound ==
    ASSUME NEW o \in Objects, NEW f \in Flow, f.step \in Steps,
           NEW c \in Completion, NEW b \in Buffer
    PROVE  Sound(MoveNext(o, f, c))
<1>1. {"MoveRemote", "MoveRows"} \subseteq Ops
  BY DEF Ops
<1>2. {"MovRemote", "MovRows"} \subseteq Steps \ {"Handover"}
  BY DEF Steps
<1>3. {"NotFound"} \subseteq Failures \ {"Interrupted"}
  BY DEF Failures
<1>4. c.node \in Node
  BY DEF Completion
<1> QED
  BY <1>1, <1>2, <1>3, <1>4, DoIsSound, FinishIsSound, FailIsSound, KnowingType,
     HandoffIsSound
  DEF MoveNext

LEMMA RefreshIsSound ==
    ASSUME NEW o \in Objects, NEW f \in Flow, f.step \in Steps, NEW c \in Completion
    PROVE  Sound(RefreshNext(o, f, c))
<1>1. "HydrateCache" \in Ops /\ "RefHydrate" \in Steps \ {"Handover"}
  BY DEF Ops, Steps
<1> QED
  BY <1>1, DoIsSound, FinishIsSound DEF RefreshNext

\* A worker never reports "interrupted"; nor, then, does a script that was not
\* given up.
LEMMA AdvanceIsSound ==
    ASSUME NEW o \in Objects, NEW f \in Flow, f.step \in Steps,
           NEW c \in Completion, NEW b \in Buffer,
           c.kind = "Failed" => c.why \in Failures \ {"Interrupted"}
    PROVE  /\ f.abort => Advance(o, f, c, b) = Go("Abandoned", f, f.step, NoJob, "Interrupted")
           /\ ~f.abort => Sound(Advance(o, f, c, b))
           /\ Advance(o, f, c, b) \in Move
<1>1. CASE f.abort
  <2>1. Go("Abandoned", f, f.step, NoJob, "Interrupted") \in Move
    BY DEF Go, Move, Flow, Failures, NoJob, Job, Jobs
  <2> QED
    BY <1>1, <2>1 DEF Advance
<1>2. CASE ~f.abort /\ c.kind = "Failed"
  <2>1. {"RemoveRows", "SetUploadError"} \subseteq Ops
    BY DEF Ops
  <2>2. {"FetchPrune", "PubError"} \subseteq Steps \ {"Handover"}
    BY DEF Steps
  <2>3. Sound(AfterFailure(o, f, c.why))
    BY <1>2, <2>1, <2>2, DoIsSound, FailIsSound DEF AfterFailure
  <2> QED
    BY <1>2, <2>3 DEF Advance, Sound
<1>3. CASE ~f.abort /\ c.kind # "Failed"
  <2>1. Sound(AfterSuccess(o, f, c, b))
    BY FetchIsSound, WriteIsSound, SetAttrIsSound, MaterialiseIsSound, PublishIsSound,
       RemoveIsSound, MoveIsSound, RefreshIsSound, EnumerateIsSound, LookIsSound,
       FinishIsSound
    DEF AfterSuccess
  <2> QED
    BY <1>3, <2>1 DEF Advance, Sound
<1> QED
  BY <1>1, <1>2, <1>3

-----------------------------------------------------------------------------
(* Flows, buffers and completions.                                         *)

LEMMA MovedType ==
    ASSUME NEW f \in Flow, NEW m \in Move
    PROVE  /\ Moved(f, m) \in Flow
           /\ Moved(f, m).intent = f.intent
           /\ Moved(f, m).waiters = f.waiters
           /\ Moved(f, m).abort = f.abort
           /\ Moved(f, m).step = m.step
           /\ Moved(f, m).job = m.job
           /\ Moved(f, m).node = m.node
  BY DEF Moved, Flow, Move

\* A flow has work out: it is neither idle nor parked.
Working(f) == f.step \in Steps \ {"Handover"} /\ f.job.op \in Ops

LEMMA OpensWithType ==
    ASSUME NEW i \in Intent, NEW b \in Buffer
    PROVE  /\ OpensWith(i, b)[1] \in Steps \ {"Handover"}
           /\ OpensWith(i, b)[2] \in Ops
  BY DEF OpensWith, Steps, Ops

LEMMA StartType ==
    ASSUME NEW o \in Objects, NEW i \in Intent, NEW w \in Tickets \cup {Nobody},
           NEW b \in Buffer
    PROVE  Start(o, i, w, b) \in Flow /\ Working(Start(o, i, w, b))
<1>1. NoNode \in Node
  BY DEF NoNode, Node
<1> QED
  BY <1>1, OpensWithType DEF Start, Flow, Working, Job, Jobs

LEMMA IdleFlowType == IdleFlow \in Flow
  BY DEF IdleFlow, Flow, NoIntent, Intent, Kinds, NoJob, Job, Jobs, NoNode, Node

LEMMA BufferAfterType ==
    ASSUME NEW f \in Flow, NEW b \in Buffer
    PROVE  BufferAfter(f, b) \in Buffer
<1>1. Opened(f) \in Buffer
  BY DEF Opened, Flow, Node, Buffer
<1>2. NoBuffer \in Buffer
  BY DEF NoBuffer, Buffer
<1>3. /\ [b EXCEPT !.dirty = TRUE] \in Buffer
      /\ [b EXCEPT !.mtime = TRUE] \in Buffer
      /\ [b EXCEPT !.base = f.etag] \in Buffer
  BY DEF Buffer, Flow
<1> QED
  BY <1>1, <1>2, <1>3 DEF BufferAfter

LEMMA MayFailType ==
    ASSUME NEW op
    PROVE  MayFail(op) \subseteq Failures \ {"Interrupted"}
  BY DEF MayFail, Failures

\* What any worker may answer, of this world or another.
Answers == {c \in Completion : c.kind = "Failed" => c.why \in Failures \ {"Interrupted"}}

LEMMA CompletionsType ==
    ASSUME NEW f \in Flow, NEW c \in Completions(f)
    PROVE  /\ c \in Completion
           /\ c.kind = "Failed" => c.why \in Failures \ {"Interrupted"}
<1>1. NoNode \in Node
  BY DEF NoNode, Node
<1>2. Rows \subseteq Node
  BY RowsAssumption
<1>3. CASE c \in {Came("Failed", NoNode, NoVersion, why) : why \in MayFail(f.job.op)}
  BY <1>1, <1>3, MayFailType DEF Came, Completion
<1>4. ASSUME NEW n \in Node, c = Came("Node", n, NoVersion, "None")
      PROVE  c \in Completion /\ c.kind # "Failed"
  BY <1>4 DEF Came, Completion
<1>5. Children(f, f.job.on) \subseteq Node
  BY <1>2 DEF Children
<1>6. CASE \E e \in Versions \cup {NoVersion} : c = Came("Uploaded", NoNode, e, "None")
  BY <1>1, <1>6 DEF Came, Completion
<1>7. CASE c \in {Came("Rejected", NoNode, NoVersion, "None"),
                  Came("Done", NoNode, NoVersion, "None")}
  BY <1>1, <1>7 DEF Came, Completion
<1> QED
  BY <1>1, <1>2, <1>3, <1>4, <1>5, <1>6, <1>7 DEF Completions

-----------------------------------------------------------------------------
(* Releasing an object. The least queued request that needs a job exists    *)
(* if any does.                                                             *)

LEMMA LeastOfNaturals ==
    ASSUME NEW S \in SUBSET Nat, S # {}
    PROVE  \E k \in S : \A j \in S : k <= j
<1> DEFINE less == {ss \in Nat \X Nat : ss[1] < ss[2]}
<1>1. IsWellFoundedOn(less, Nat)
  BY NatLessThanWellFounded, Zenon DEF OpToRel
<1> HIDE DEF less
<1>2. \E k \in S : \A j \in S : ~(<<j, k>> \in less)
  BY <1>1, WFMin, Zenon
<1>3. \A j, k \in Nat : j < k => <<j, k>> \in less
  BY DEF less
<1>4. PICK k \in S : \A j \in S : <<j, k>> \notin less
  BY <1>2
<1>5. \A j \in S : j \in Nat /\ k \in Nat
  OBVIOUS
<1>6. ASSUME NEW j \in S
      PROVE  k <= j
  <2>1. ~(j < k)
    BY <1>3, <1>4, <1>5
  <2> QED
    BY <2>1, <1>5
<1> QED
  BY <1>6
LEMMA NextUpIsLeast ==
    ASSUME TypeOK, NEW o \in Objects, NEW b \in Buffer, NeedsAJob(o, b) # {}
    PROVE  /\ NextUp(o, b) \in NeedsAJob(o, b)
           /\ NextUp(o, b) \in 1..Len(queue[o])
           /\ \A j \in NeedsAJob(o, b) : NextUp(o, b) <= j
<1>1. queue[o] \in Seq(Request)
  BY DEF TypeOK
<1>2. NeedsAJob(o, b) \subseteq 1..Len(queue[o])
  BY <1>1 DEF NeedsAJob
<1>3. NeedsAJob(o, b) \in SUBSET Nat
  BY <1>1, <1>2
<1>4. \E k \in NeedsAJob(o, b) : \A j \in NeedsAJob(o, b) : k <= j
  BY <1>3, LeastOfNaturals
<1> QED
  BY <1>2, <1>4 DEF NextUp

\* What an object is left with when its flow ends: nothing at all, or work.
LEMMA ReleasedType ==
    ASSUME TypeOK, NEW o \in Objects, NEW b \in Buffer
    PROVE  /\ FlowReleased(o, b) \in Flow
           /\ QueueReleased(o, b) \in Seq(Request)
           /\ FlowReleased(o, b).abort = FALSE
           /\ \/ FlowReleased(o, b) = IdleFlow /\ QueueReleased(o, b) = <<>>
              \/ Working(FlowReleased(o, b))
<1>1. queue[o] \in Seq(Request)
  BY DEF TypeOK
<1>2. CASE NeedsAJob(o, b) = {}
  BY <1>2, IdleFlowType DEF FlowReleased, QueueReleased, IdleFlow
<1>3. CASE NeedsAJob(o, b) # {}
  <2>1. NextUp(o, b) \in 1..Len(queue[o])
    BY <1>3, NextUpIsLeast
  <2>2. PICK q \in Request : q = queue[o][NextUp(o, b)]
    BY <1>1, <2>1
  <2>3. FlowReleased(o, b) = Start(o, q.intent, q.id, b)
    BY <1>3, <2>2 DEF FlowReleased
  <2>4. QueueReleased(o, b) = SubSeq(queue[o], NextUp(o, b) + 1, Len(queue[o]))
    BY <1>3 DEF QueueReleased
  <2>5. QueueReleased(o, b) \in Seq(Request)
    BY <1>1, <2>1, <2>4
  <2>6. q.intent \in Intent /\ q.id \in Tickets \cup {Nobody}
    BY DEF Request
  <2>7. FlowReleased(o, b) \in Flow /\ Working(FlowReleased(o, b))
    BY <2>3, <2>6, StartType
  <2>8. FlowReleased(o, b).abort = FALSE
    BY <2>3 DEF Start
  <2> QED
    BY <2>5, <2>7, <2>8
<1> QED
  BY <1>2, <1>3

-----------------------------------------------------------------------------
(* The inductive invariant, object by object: what holds of a flow and of   *)
(* the queue behind it. It is TypeOK, NothingStranded and                   *)
(* GivenUpServesNobody, and each needs the others: a script decides soundly *)
(* only on a typed flow, and only a flow with a job can come back.          *)

Healthy(f, q) ==
    /\ f \in Flow
    /\ q \in Seq(Request)
    /\ f.step = "Idle" => q = <<>>
    /\ (f.job = NoJob) = (f.step = "Idle" \/ f.step = "Handover")
    /\ f.abort => f.waiters = {} \/ f.intent.kind = "Refresh"

RestOK ==
    /\ flow = [o \in Objects |-> flow[o]]
    /\ queue = [o \in Objects |-> queue[o]]
    /\ beside \subseteq [id : Tickets, on : Objects, intent : Intent]
    /\ buffer \in [Objects -> Buffer]
    /\ posted \in Seq([on : Objects, intent : {Publishing}])
    /\ reply \in [Tickets -> {"new", "open"} \cup Outcomes]
    /\ abandoned \subseteq Tickets
    /\ unsent \subseteq Objects \cup {NoObject}

IInv == RestOK /\ \A o \in Objects : Healthy(flow[o], queue[o])

\* The inductive invariant is the three the runs check, and nothing else.
LEMMA IInvSaysSo == IInv <=> TypeOK /\ NothingStranded /\ GivenUpServesNobody
  BY DEF IInv, RestOK, Healthy, TypeOK, NothingStranded, GivenUpServesNobody, Busy, Parked

LEMMA WorkingIsBusy ==
    ASSUME NEW f, Working(f)
    PROVE  f.step # "Idle" /\ f.step # "Handover" /\ f.job # NoJob
<1>1. "Idle" \notin Steps /\ "None" \notin Ops
  BY DEF Steps, Ops
<1> QED
  BY <1>1 DEF Working, NoJob, Job

LEMMA WorkingIsHealthy ==
    ASSUME NEW f \in Flow, NEW q \in Seq(Request), Working(f), f.abort = FALSE
    PROVE  Healthy(f, q)
  BY WorkingIsBusy DEF Healthy

LEMMA IdleIsHealthy == Healthy(IdleFlow, <<>>)
  BY IdleFlowType DEF Healthy, IdleFlow

LEMMA ReleasedIsHealthy ==
    ASSUME TypeOK, NEW o \in Objects, NEW b \in Buffer
    PROVE  Healthy(FlowReleased(o, b), QueueReleased(o, b))
  BY ReleasedType, IdleIsHealthy, WorkingIsHealthy

LEMMA StartIsHealthy ==
    ASSUME NEW o \in Objects, NEW i \in Intent, NEW w \in Tickets \cup {Nobody},
           NEW b \in Buffer, NEW q \in Seq(Request)
    PROVE  Healthy(Start(o, i, w, b), q)
<1>1. Start(o, i, w, b).abort = FALSE
  BY DEF Start
<1> QED
  BY <1>1, StartType, WorkingIsHealthy

LEMMA QueueingIsHealthy ==
    ASSUME NEW f, NEW q, Healthy(f, q), f.step # "Idle", NEW r \in Request
    PROVE  Healthy(f, Append(q, r))
  BY DEF Healthy

\* Giving a flow up is sound if it serves nobody or is a background refresh.
LEMMA GivingUpIsHealthy ==
    ASSUME NEW f, NEW q, Healthy(f, q), NEW a \in BOOLEAN,
           a => f.abort \/ f.intent.kind = "Refresh"
    PROVE  Healthy([f EXCEPT !.abort = a], q)
  BY DEF Healthy, Flow

LEMMA InitIInv == Init => IInv
<1> SUFFICES ASSUME Init PROVE IInv
  OBVIOUS
<1>1. NoBuffer \in Buffer
  BY DEF NoBuffer, Buffer
<1>2. RestOK
  BY <1>1 DEF Init, RestOK
<1>3. ASSUME NEW o \in Objects
      PROVE  Healthy(flow[o], queue[o])
  BY IdleIsHealthy DEF Init
<1> QED
  BY <1>2, <1>3 DEF IInv

-----------------------------------------------------------------------------
(* Requests arrive.                                                         *)

LEMMA ArrivesKeeps ==
    ASSUME IInv, NEW o \in Objects, NEW r \in Request, Arrives(o, r),
           r.intent.kind \in {"Stat", "State"} => r.id # Nobody,
           posted' \in Seq([on : Objects, intent : {Publishing}]),
           UNCHANGED <<buffer, abandoned, unsent>>
    PROVE  IInv'
<1>1. /\ RestOK
      /\ \A p \in Objects : Healthy(flow[p], queue[p])
      /\ r.intent \in Intent /\ r.id \in Tickets \cup {Nobody}
  BY DEF IInv, Request
<1>2. ASSUME NEW S, NEW outcome \in {"open", "Ok"}
      PROVE  Answered(S, outcome) \in [Tickets -> {"new", "open"} \cup Outcomes]
  BY <1>1 DEF Answered, RestOK, Outcomes
<1>3. reply' \in [Tickets -> {"new", "open"} \cup Outcomes]
  BY <1>2 DEF Arrives, Begins, IsDoneAtOnce, ReadsBeside, Queues, Joins, Aborts, Skips
<1>4. beside' \subseteq [id : Tickets, on : Objects, intent : Intent]
  BY <1>1 DEF RestOK, Arrives, Begins, IsDoneAtOnce, ReadsBeside, Queues, Joins, Aborts, Skips
<1>5. /\ flow' = [p \in Objects |-> flow'[p]]
      /\ queue' = [p \in Objects |-> queue'[p]]
  BY <1>1 DEF RestOK, Arrives, Begins, IsDoneAtOnce, ReadsBeside, Queues, Joins, Aborts, Skips
<1>6. RestOK'
  BY <1>1, <1>3, <1>4, <1>5 DEF RestOK
<1>7. ASSUME NEW p \in Objects
      PROVE  Healthy(flow'[p], queue'[p])
  <2>1. CASE Begins(o, r)
    <3>1. buffer[o] \in Buffer /\ queue[p] \in Seq(Request)
      BY <1>1 DEF RestOK, Healthy
    <3>2. Healthy(Start(o, r.intent, r.id, buffer[o]), queue[p])
      BY <1>1, <3>1, StartIsHealthy
    <3>3. /\ flow'[p] = IF p = o THEN Start(o, r.intent, r.id, buffer[o]) ELSE flow[p]
          /\ queue'[p] = queue[p]
      BY <1>1, <2>1 DEF Begins, RestOK
    <3> QED
      BY <1>1, <3>2, <3>3
  <2>2. CASE IsDoneAtOnce(o, r) \/ ReadsBeside(o, r) \/ Skips(o, r)
    BY <1>1, <2>2 DEF IsDoneAtOnce, ReadsBeside, Skips
  <2>3. CASE Queues(o, r)
    <3>1. /\ flow' = flow
          /\ queue'[p] = IF p = o THEN Append(queue[p], r) ELSE queue[p]
          /\ flow[o].step # "Idle"
      BY <1>1, <2>3 DEF Queues, Collides, Busy, RestOK
    <3> QED
      BY <1>1, <3>1, QueueingIsHealthy
  <2>4. CASE Joins(o, r)
    <3>1. /\ queue' = queue /\ ~flow[o].abort
          /\ flow'[p] = IF p = o THEN [flow[p] EXCEPT !.waiters = @ \cup {r.id}] ELSE flow[p]
      BY <1>1, <2>4 DEF Joins, RestOK
    <3>2. p = o => Healthy([flow[p] EXCEPT !.waiters = @ \cup {r.id}], queue[p])
      BY <1>1, <3>1 DEF Healthy, Flow
    <3> QED
      BY <1>1, <3>1, <3>2
  <2>5. CASE Aborts(o, r)
    <3>1. /\ flow[o].step # "Idle" /\ flow[o].intent.kind = "Refresh"
          /\ flow'[p] = IF p = o THEN [flow[p] EXCEPT !.abort = TRUE] ELSE flow[p]
          /\ queue'[p] = IF p = o THEN Append(queue[p], r) ELSE queue[p]
      BY <1>1, <2>5 DEF Aborts, Collides, Collision, Busy, RestOK
    <3>2. /\ Healthy([flow[o] EXCEPT !.abort = TRUE], queue[o])
          /\ [flow[o] EXCEPT !.abort = TRUE].step # "Idle"
      BY <1>1, <3>1, GivingUpIsHealthy DEF Healthy, Flow
    <3>3. Healthy([flow[o] EXCEPT !.abort = TRUE], Append(queue[o], r))
      BY <3>2, QueueingIsHealthy
    <3> QED
      BY <1>1, <3>1, <3>3
  <2> QED
    BY <2>1, <2>2, <2>3, <2>4, <2>5 DEF Arrives
<1> QED
  BY <1>6, <1>7 DEF IInv

LEMMA SubmitKeeps ==
    ASSUME IInv, NEW t \in Tickets, Submit(t)
    PROVE  IInv'
<1>1. PICK a \in Asks : Arrives(a.on, [id |-> t, intent |-> a.intent])
  BY DEF Submit, Receives
<1>2. a.on \in Objects /\ [id |-> t, intent |-> a.intent] \in Request
  BY <1>1, AsksAssumption DEF Request
<1>3. /\ UNCHANGED <<buffer, abandoned, unsent>>
      /\ posted' \in Seq([on : Objects, intent : {Publishing}])
  BY DEF Submit, Receives, IInv, RestOK
<1>4. t # Nobody
  BY TicketsAssumption
<1> QED
  BY <1>1, <1>2, <1>3, <1>4, ArrivesKeeps

LEMMA HeadAndTail ==
    ASSUME NEW S, NEW s \in Seq(S), s # <<>>
    PROVE  Head(s) \in S /\ Tail(s) \in Seq(S)
  OBVIOUS

LEMMA DeliverKeeps ==
    ASSUME IInv, Deliver
    PROVE  IInv'
<1>1. posted \in Seq([on : Objects, intent : {Publishing}]) /\ posted # <<>>
  BY DEF Deliver, IInv, RestOK
<1>2. /\ Head(posted) \in [on : Objects, intent : {Publishing}]
      /\ Tail(posted) \in Seq([on : Objects, intent : {Publishing}])
  BY <1>1, HeadAndTail
<1>3. Publishing \in Intent /\ Publishing.kind = "Publish"
  BY DEF Publishing, NoIntent, Intent, Kinds
<1>4. /\ Head(posted).on \in Objects
      /\ [id |-> Nobody, intent |-> Head(posted).intent] \in Request
      /\ Head(posted).intent.kind \notin {"Stat", "State"}
  BY <1>2, <1>3 DEF Request
<1>5. /\ Arrives(Head(posted).on, [id |-> Nobody, intent |-> Head(posted).intent])
      /\ posted' = Tail(posted)
      /\ UNCHANGED <<buffer, abandoned, unsent>>
  BY DEF Deliver
<1> QED
  BY <1>2, <1>4, <1>5, ArrivesKeeps

-----------------------------------------------------------------------------
(* Callers give up.                                                         *)

LEMMA RemovingType ==
    ASSUME NEW S, NEW s \in Seq(S), NEW k \in 1..Len(s)
    PROVE  RemoveAt(s, k) \in Seq(S)
  BY DEF RemoveAt

LEMMA AbandonRiderKeeps ==
    ASSUME IInv, NEW t \in Tickets, NEW o \in Objects, AbandonRider(t, o)
    PROVE  /\ flow' = [p \in Objects |-> flow'[p]]
           /\ queue' = [p \in Objects |-> queue'[p]]
           /\ reply' \in [Tickets -> {"new", "open"} \cup Outcomes]
           /\ \A p \in Objects : Healthy(flow'[p], queue'[p])
<1>1. RestOK /\ \A p \in Objects : Healthy(flow[p], queue[p])
  BY DEF IInv
<1>2. reply' \in [Tickets -> {"new", "open"} \cup Outcomes]
  BY <1>1 DEF AbandonRider, Answered, RestOK, Outcomes, Failures
<1>3. /\ queue' = queue
      /\ flow' = [flow EXCEPT ![o].waiters = @ \ {t},
                              ![o].abort = @ \/ flow[o].waiters = {t}]
  BY DEF AbandonRider
<1>4. flow[o] \in Flow /\ Healthy(flow[o], queue[o])
  BY <1>1 DEF Healthy
<1>5. Healthy([flow[o] EXCEPT !.waiters = @ \ {t},
                              !.abort = @ \/ flow[o].waiters = {t}], queue[o])
  <2> DEFINE g == [flow[o] EXCEPT !.waiters = @ \ {t},
                                  !.abort = @ \/ flow[o].waiters = {t}]
  <2>1. g \in Flow
    BY <1>4 DEF Flow
  <2>2. /\ g.step = flow[o].step /\ g.job = flow[o].job /\ g.intent = flow[o].intent
        /\ g.waiters = flow[o].waiters \ {t}
    BY <1>4 DEF Flow
  <2>3. g.abort => flow[o].abort \/ flow[o].waiters = {t}
    BY <1>4 DEF Flow
  <2>4. g.abort => g.waiters = {} \/ g.intent.kind = "Refresh"
    BY <1>4, <2>2, <2>3 DEF Healthy
  <2> HIDE DEF g
  <2>5. Healthy(g, queue[o])
    BY <1>4, <2>1, <2>2, <2>4 DEF Healthy
  <2> QED
    BY <2>5 DEF g
<1>6. flow' = [p \in Objects |-> flow'[p]] /\ queue' = [p \in Objects |-> queue'[p]]
  BY <1>1, <1>3 DEF RestOK
<1>7. ASSUME NEW p \in Objects
      PROVE  Healthy(flow'[p], queue'[p])
  <2>1. p # o => flow'[p] = flow[p]
    BY <1>1, <1>3 DEF RestOK
  <2>2. flow'[o] = [flow[o] EXCEPT !.waiters = @ \ {t},
                                   !.abort = @ \/ flow[o].waiters = {t}]
    BY <1>1, <1>3, <1>4 DEF RestOK, Flow
  <2> QED
    BY <1>1, <1>3, <1>5, <2>1, <2>2
<1> QED
  BY <1>2, <1>6, <1>7

LEMMA AbandonQueuedKeeps ==
    ASSUME IInv, NEW t \in Tickets, NEW o \in Objects, AbandonQueued(t, o)
    PROVE  /\ flow' = [p \in Objects |-> flow'[p]]
           /\ queue' = [p \in Objects |-> queue'[p]]
           /\ reply' \in [Tickets -> {"new", "open"} \cup Outcomes]
           /\ \A p \in Objects : Healthy(flow'[p], queue'[p])
<1>1. RestOK /\ (\A p \in Objects : Healthy(flow[p], queue[p])) /\ TypeOK
  BY IInvSaysSo DEF IInv
<1>2. PICK k \in DOMAIN queue[o] :
        LET freed == ParkedOn(queue[o][k].intent)
        IN  /\ flow' = [p \in Objects |-> IF p \in freed THEN FlowReleased(p, buffer[p])
                                                         ELSE flow[p]]
            /\ queue' = [p \in Objects |->
                            IF p \in freed THEN QueueReleased(p, buffer[p])
                            ELSE IF p = o THEN RemoveAt(queue[o], k)
                            ELSE queue[p]]
            /\ reply' = [Answered(UNION {AnsweredOnRelease(p, buffer[p]) : p \in freed}, "Ok")
                            EXCEPT ![t] = "Interrupted"]
  BY DEF AbandonQueued
<1>3. flow' = [p \in Objects |-> flow'[p]] /\ queue' = [p \in Objects |-> queue'[p]]
  BY <1>2
<1>4. reply' \in [Tickets -> {"new", "open"} \cup Outcomes]
  BY <1>1, <1>2 DEF Answered, RestOK, Outcomes, Failures
<1>5. queue[o] \in Seq(Request) /\ queue[o] # <<>> /\ flow[o].step # "Idle"
  BY <1>1, <1>2 DEF Healthy
<1>6. RemoveAt(queue[o], k) \in Seq(Request)
  BY <1>2, <1>5, RemovingType
<1>7. ASSUME NEW p \in Objects
      PROVE  Healthy(flow'[p], queue'[p])
  <2>1. CASE p \in ParkedOn(queue[o][k].intent)
    <3>1. buffer[p] \in Buffer
      BY <1>1 DEF RestOK
    <3>2. flow'[p] = FlowReleased(p, buffer[p]) /\ queue'[p] = QueueReleased(p, buffer[p])
      BY <1>2, <2>1
    <3> QED
      BY <1>1, <3>1, <3>2, ReleasedIsHealthy
  <2>2. CASE p \notin ParkedOn(queue[o][k].intent) /\ p = o
    <3>1. flow'[p] = flow[o] /\ queue'[p] = RemoveAt(queue[o], k)
      BY <1>2, <2>2
    <3>2. Healthy(flow[o], RemoveAt(queue[o], k))
      BY <1>1, <1>5, <1>6 DEF Healthy
    <3> QED
      BY <3>1, <3>2
  <2>3. CASE p \notin ParkedOn(queue[o][k].intent) /\ p # o
    <3>1. flow'[p] = flow[p] /\ queue'[p] = queue[p]
      BY <1>2, <2>3
    <3> QED
      BY <1>1, <3>1
  <2> QED
    BY <2>1, <2>2, <2>3
<1> QED
  BY <1>3, <1>4, <1>7

LEMMA AbandonKeeps ==
    ASSUME IInv, NEW t \in Tickets, Abandon(t)
    PROVE  IInv'
<1>1. PICK o \in Objects : AbandonRider(t, o) \/ AbandonQueued(t, o)
  BY DEF Abandon
<1>2. /\ flow' = [p \in Objects |-> flow'[p]]
      /\ queue' = [p \in Objects |-> queue'[p]]
      /\ reply' \in [Tickets -> {"new", "open"} \cup Outcomes]
      /\ \A p \in Objects : Healthy(flow'[p], queue'[p])
  BY <1>1, AbandonRiderKeeps, AbandonQueuedKeeps
<1> QED
  BY <1>2 DEF Abandon, IInv, RestOK

-----------------------------------------------------------------------------
(* Jobs come back.                                                          *)

\* What is known when a completion is taken to its flow.
LEMMA AnswerFacts ==
    ASSUME IInv, NEW o \in Objects, Busy(o), ~Parked(o), NEW c \in Answers
    PROVE  /\ flow[o] \in Flow /\ flow[o].step \in Steps
           /\ BuffersAfter(o, c) \in [Objects -> Buffer]
           /\ flow[o].abort => After(o, c).then = "Abandoned" /\ After(o, c).why = "Interrupted"
           /\ ~flow[o].abort => Sound(After(o, c))
           /\ After(o, c) \in Move
<1>1. flow[o] \in Flow /\ buffer \in [Objects -> Buffer]
  BY DEF IInv, RestOK, Healthy
<1>2. flow[o].step \in Steps
  BY <1>1 DEF Busy, Flow
<1>3. BuffersAfter(o, c) \in [Objects -> Buffer]
  BY <1>1, BufferAfterType DEF BuffersAfter
<1>4. BuffersAfter(o, c)[o] \in Buffer
  BY <1>3
<1>5. c \in Completion /\ (c.kind = "Failed" => c.why \in Failures \ {"Interrupted"})
  BY DEF Answers
<1>6. /\ flow[o].abort => Advance(o, flow[o], c, BuffersAfter(o, c)[o])
                            = Go("Abandoned", flow[o], flow[o].step, NoJob, "Interrupted")
      /\ ~flow[o].abort => Sound(Advance(o, flow[o], c, BuffersAfter(o, c)[o]))
      /\ Advance(o, flow[o], c, BuffersAfter(o, c)[o]) \in Move
  BY <1>1, <1>2, <1>4, <1>5, AdvanceIsSound
<1> QED
  BY <1>1, <1>2, <1>3, <1>6 DEF After, Go

LEMMA CompletionsAreAnswers ==
    ASSUME IInv, NEW o \in Objects
    PROVE  Completions(flow[o]) \subseteq Answers
<1>1. flow[o] \in Flow
  BY DEF IInv, Healthy
<1> QED
  BY <1>1, CompletionsType DEF Answers

LEMMA CompletionFacts ==
    ASSUME IInv, NEW o \in Objects, Busy(o), ~Parked(o), NEW c \in Completions(flow[o])
    PROVE  /\ flow[o] \in Flow /\ flow[o].step \in Steps
           /\ BuffersAfter(o, c) \in [Objects -> Buffer]
           /\ flow[o].abort => After(o, c).then = "Abandoned" /\ After(o, c).why = "Interrupted"
           /\ ~flow[o].abort => Sound(After(o, c))
           /\ After(o, c) \in Move
  BY CompletionsAreAnswers, AnswerFacts

LEMMA OnwardIsHealthy ==
    ASSUME NEW f \in Flow, NEW q, Healthy(f, q), f.abort = FALSE, NEW m, Sound(m),
           m.then \in {"Do", "AnswerThen"}
    PROVE  /\ Healthy(Moved(f, m), q)
           /\ Healthy([Moved(f, m) EXCEPT !.waiters = {}], q)
<1>1. m \in Move /\ m.job.op \in Ops /\ m.step \in Steps \ {"Handover"}
  BY DEF Sound, Move
<1>2. q \in Seq(Request)
  BY DEF Healthy
<1>3. /\ Moved(f, m) \in Flow /\ Working(Moved(f, m)) /\ Moved(f, m).abort = FALSE
  BY <1>1, MovedType DEF Working
<1>4. /\ [Moved(f, m) EXCEPT !.waiters = {}] \in Flow
      /\ Working([Moved(f, m) EXCEPT !.waiters = {}])
      /\ [Moved(f, m) EXCEPT !.waiters = {}].abort = FALSE
  BY <1>3 DEF Flow, Working
<1> QED
  BY <1>2, <1>3, <1>4, WorkingIsHealthy

LEMMA ParkingIsHealthy ==
    ASSUME NEW f \in Flow, NEW q, Healthy(f, q), f.abort = FALSE, NEW m, Sound(m),
           m.then = "Handoff"
    PROVE  Healthy([Moved(f, m) EXCEPT !.waiters = {}], q)
<1>1. m \in Move /\ m.job = NoJob /\ m.step = "Handover"
  BY DEF Sound
<1>2. /\ Moved(f, m) \in Flow /\ Moved(f, m).abort = FALSE
      /\ Moved(f, m).job = NoJob /\ Moved(f, m).step = "Handover"
  BY <1>1, MovedType
<1>3. /\ [Moved(f, m) EXCEPT !.waiters = {}] \in Flow
      /\ [Moved(f, m) EXCEPT !.waiters = {}].abort = FALSE
      /\ [Moved(f, m) EXCEPT !.waiters = {}].job = NoJob
      /\ [Moved(f, m) EXCEPT !.waiters = {}].step = "Handover"
  BY <1>2 DEF Flow
<1> QED
  BY <1>3 DEF Healthy

\* What a completion leaves of the flows, the queues, the scheduled work and
\* the answers.
Kept ==
    /\ flow' = [p \in Objects |-> flow'[p]]
    /\ queue' = [p \in Objects |-> queue'[p]]
    /\ reply' \in [Tickets -> {"new", "open"} \cup Outcomes]
    /\ posted' \in Seq([on : Objects, intent : {Publishing}])
    /\ \A p \in Objects : Healthy(flow'[p], queue'[p])

LEMMA ContinuesKeeps ==
    ASSUME IInv, NEW o \in Objects, Busy(o), ~Parked(o), NEW c \in Answers,
           Continues(o, c)
    PROVE  Kept
<1>1. RestOK /\ \A p \in Objects : Healthy(flow[p], queue[p])
  BY DEF IInv
<1>2. /\ After(o, c).then = "Do"
      /\ flow' = [flow EXCEPT ![o] = Moved(@, After(o, c))]
      /\ UNCHANGED <<queue, posted, reply>>
  BY DEF Continues
<1>3. flow[o] \in Flow /\ flow[o].abort = FALSE /\ Sound(After(o, c))
  BY <1>2, AnswerFacts DEF Flow
<1>4. Healthy(Moved(flow[o], After(o, c)), queue[o])
  BY <1>1, <1>2, <1>3, OnwardIsHealthy
<1> QED
  BY <1>1, <1>2, <1>4 DEF Kept, RestOK

LEMMA CommitsKeeps ==
    ASSUME IInv, NEW o \in Objects, Busy(o), ~Parked(o), NEW c \in Answers,
           Commits(o, c)
    PROVE  Kept
<1>1. RestOK /\ \A p \in Objects : Healthy(flow[p], queue[p])
  BY DEF IInv
<1> DEFINE f == Moved(flow[o], After(o, c))
<1>2. /\ After(o, c).then = "AnswerThen"
      /\ \/ /\ flow' = [flow EXCEPT ![o] = [f EXCEPT !.waiters = {}]]
            /\ reply' = Answered(f.waiters, "Ok")
         \/ flow' = [flow EXCEPT ![o] = f] /\ UNCHANGED reply
      /\ UNCHANGED <<queue, posted>>
  BY DEF Commits
<1>3. flow[o] \in Flow /\ flow[o].abort = FALSE /\ Sound(After(o, c))
  BY <1>2, AnswerFacts DEF Flow
<1>4. Healthy(f, queue[o]) /\ Healthy([f EXCEPT !.waiters = {}], queue[o])
  BY <1>1, <1>2, <1>3, OnwardIsHealthy
<1>5. reply' \in [Tickets -> {"new", "open"} \cup Outcomes]
  BY <1>1, <1>2 DEF RestOK, Answered, Outcomes
<1> HIDE DEF f
<1> QED
  BY <1>1, <1>2, <1>4, <1>5 DEF Kept, RestOK

LEMMA HandedOverType ==
    ASSUME NEW o \in Objects, NEW i \in Intent
    PROVE  HandedOver(o, i) \in Intent
<1>1. {"Delete", "Relocate"} \subseteq Kinds
  BY DEF Kinds
<1> QED
  BY <1>1 DEF HandedOver, Intent

LEMMA HandsOverKeeps ==
    ASSUME IInv, NEW o \in Objects, Busy(o), ~Parked(o), NEW c \in Answers,
           HandsOver(o, c)
    PROVE  Kept
<1>1. RestOK /\ \A p \in Objects : Healthy(flow[p], queue[p])
  BY DEF IInv
<1> DEFINE parked == [Moved(flow[o], After(o, c)) EXCEPT !.waiters = {}]
           child  == parked.node.id
           i      == HandedOver(o, flow[o].intent)
           aborts(p) == Collision(flow[p], i, buffer[p]) = "Abort"
<1>2. PICK w \in flow[o].waiters :
        /\ flow' = [p \in Objects |->
               IF p = o THEN parked
               ELSE IF p # child THEN flow[p]
               ELSE IF ~Busy(p) THEN Start(p, i, w, buffer[p])
               ELSE [flow[p] EXCEPT !.abort = @ \/ aborts(p)]]
        /\ queue' = [p \in Objects |->
               IF p = child /\ Busy(p) THEN Append(queue[p], [id |-> w, intent |-> i])
                                       ELSE queue[p]]
  BY ZenonT(60) DEF HandsOver
<1>3. After(o, c).then = "Handoff" /\ UNCHANGED <<posted, reply>>
  BY DEF HandsOver
<1>4. flow[o] \in Flow /\ flow[o].abort = FALSE /\ Sound(After(o, c))
  BY <1>3, AnswerFacts DEF Flow
<1>5. Healthy(parked, queue[o]) /\ parked.step = "Handover"
  <2>1. Healthy(parked, queue[o])
    BY <1>1, <1>3, <1>4, ParkingIsHealthy
  <2>2. parked.step = "Handover"
    BY <1>3, <1>4, MovedType DEF Sound, Moved, Flow
  <2> QED
    BY <2>1, <2>2
<1>6. /\ w \in Tickets \cup {Nobody} /\ i \in Intent
      /\ [id |-> w, intent |-> i] \in Request
  BY <1>2, <1>4, HandedOverType DEF Flow, Request
<1>7. i.kind # "Refresh"
  BY <1>4 DEF HandedOver, Flow, Intent
<1>8. ASSUME NEW p \in Objects, aborts(p)
      PROVE  flow[p].intent.kind = "Refresh"
  BY <1>7, <1>8 DEF Collision
<1> HIDE DEF parked, child, i, aborts
<1>9. ASSUME NEW p \in Objects
      PROVE  Healthy(flow'[p], queue'[p])
  <2>1. buffer[p] \in Buffer /\ queue[p] \in Seq(Request) /\ Healthy(flow[p], queue[p])
    BY <1>1 DEF RestOK, Healthy
  <2>2. CASE p = o
    <3>1. /\ flow'[p] = parked
          /\ \/ queue'[p] = queue[p]
             \/ queue'[p] = Append(queue[p], [id |-> w, intent |-> i])
      BY <1>2, <2>2
    <3>2. Healthy(parked, queue[p]) /\ parked.step # "Idle"
      BY <1>5, <2>2
    <3>3. Healthy(parked, Append(queue[p], [id |-> w, intent |-> i]))
      BY <1>6, <3>2, QueueingIsHealthy
    <3>4. CASE queue'[p] = queue[p]
      BY <3>1, <3>2, <3>4
    <3>5. CASE queue'[p] = Append(queue[p], [id |-> w, intent |-> i])
      BY <3>1, <3>3, <3>5
    <3> QED
      BY <3>1, <3>4, <3>5
  <2>3. CASE p # o /\ p # child
    <3>1. flow'[p] = flow[p] /\ queue'[p] = queue[p]
      BY <1>2, <2>3
    <3> QED
      BY <2>1, <3>1
  <2>4. CASE p # o /\ p = child /\ ~Busy(p)
    <3>1. flow'[p] = Start(p, i, w, buffer[p]) /\ queue'[p] = queue[p]
      BY <1>2, <2>4
    <3> QED
      BY <1>6, <2>1, <3>1, StartIsHealthy
  <2>5. CASE p # o /\ p = child /\ Busy(p)
    <3> DEFINE a == flow[p].abort \/ aborts(p)
    <3>1. /\ flow'[p] = [flow[p] EXCEPT !.abort = a]
          /\ queue'[p] = Append(queue[p], [id |-> w, intent |-> i])
      BY <1>2, <2>5
    <3>2. a \in BOOLEAN /\ (a => flow[p].abort \/ flow[p].intent.kind = "Refresh")
      BY <1>8, <2>1 DEF Healthy, Flow, aborts
    <3> HIDE DEF a
    <3>3. [flow[p] EXCEPT !.abort = a].step # "Idle"
      BY <2>1, <2>5 DEF Busy, Healthy, Flow
    <3>4. Healthy([flow[p] EXCEPT !.abort = a], queue[p])
      BY <2>1, <3>2, GivingUpIsHealthy
    <3>5. Healthy([flow[p] EXCEPT !.abort = a], Append(queue[p], [id |-> w, intent |-> i]))
      BY <1>6, <3>3, <3>4, QueueingIsHealthy
    <3> QED
      BY <3>1, <3>5
  <2> QED
    BY <2>2, <2>3, <2>4, <2>5
<1>10. flow' = [p \in Objects |-> flow'[p]] /\ queue' = [p \in Objects |-> queue'[p]]
  BY <1>2
<1> QED
  BY <1>1, <1>3, <1>9, <1>10 DEF Kept, RestOK

LEMMA EndsKeeps ==
    ASSUME IInv, NEW o \in Objects, Busy(o), ~Parked(o), NEW c \in Answers,
           Ends(o, c)
    PROVE  Kept
<1>1. RestOK /\ (\A p \in Objects : Healthy(flow[p], queue[p])) /\ TypeOK
  BY IInvSaysSo DEF IInv
<1> DEFINE m     == After(o, c)
           f     == Moved(flow[o], m)
           b     == BuffersAfter(o, c)
           freed == {o} \cup ParkedOn(f.intent)
<1>2. /\ m.then \in {"Done", "Fail", "Abandoned"}
      /\ flow' = [p \in Objects |-> IF p \in freed THEN FlowReleased(p, b[p]) ELSE flow[p]]
      /\ queue' = [p \in Objects |-> IF p \in freed THEN QueueReleased(p, b[p]) ELSE queue[p]]
  BY DEF Ends
<1>3. PICK onTheWay : reply' = [t \in Tickets |->
                        IF t \in f.waiters THEN IF m.then = "Done" THEN "Ok" ELSE m.why
                        ELSE IF t \in onTheWay THEN "Ok"
                        ELSE reply[t]]
  BY DEF Ends
<1>4. posted' = IF OwesPublish(f)
                THEN Append(posted, [on |-> f.node.id, intent |-> Publishing])
                ELSE posted
  BY DEF Ends
<1>5. /\ flow[o] \in Flow /\ b \in [Objects -> Buffer] /\ m \in Move
      /\ m.then = "Fail" => m.why \in Failures
      /\ m.then = "Abandoned" => m.why \in Failures
  <2>1. flow[o].abort => m.then = "Abandoned" /\ m.why \in Failures
    BY AnswerFacts DEF Failures
  <2>2. ~flow[o].abort => m.then # "Abandoned" /\ (m.then = "Fail" => m.why \in Failures)
    BY AnswerFacts DEF Sound
  <2>3. flow[o] \in Flow /\ b \in [Objects -> Buffer] /\ m \in Move
    BY AnswerFacts
  <2> QED
    BY <2>1, <2>2, <2>3
<1>6. f \in Flow
  BY <1>5, MovedType
<1> HIDE DEF m, f, b, freed
<1>7. reply' \in [Tickets -> {"new", "open"} \cup Outcomes]
  BY <1>1, <1>2, <1>3, <1>5 DEF RestOK, Outcomes
<1>8. posted' \in Seq([on : Objects, intent : {Publishing}])
  <2>1. OwesPublish(f) => f.node.id \in Objects
    BY <1>6 DEF OwesPublish, Flow, Node
  <2> DEFINE S == [on : Objects, intent : {Publishing}]
  <2>2. posted \in Seq(S) /\ (OwesPublish(f) => [on |-> f.node.id, intent |-> Publishing] \in S)
    BY <1>1, <2>1 DEF RestOK
  <2> HIDE DEF S
  <2>3. OwesPublish(f) => Append(posted, [on |-> f.node.id, intent |-> Publishing]) \in Seq(S)
    BY <2>2
  <2>4. posted' \in Seq(S)
    BY <1>4, <2>2, <2>3
  <2> QED
    BY <2>4 DEF S
<1>9. ASSUME NEW p \in Objects
      PROVE  Healthy(flow'[p], queue'[p])
  <2>1. CASE p \in freed
    <3>1. flow'[p] = FlowReleased(p, b[p]) /\ queue'[p] = QueueReleased(p, b[p])
      BY <1>2, <2>1
    <3>2. b[p] \in Buffer
      BY <1>5
    <3> QED
      BY <1>1, <3>1, <3>2, ReleasedIsHealthy
  <2>2. CASE p \notin freed
    <3>1. flow'[p] = flow[p] /\ queue'[p] = queue[p]
      BY <1>2, <2>2
    <3> QED
      BY <1>1, <3>1
  <2> QED
    BY <2>1, <2>2
<1>10. flow' = [p \in Objects |-> flow'[p]] /\ queue' = [p \in Objects |-> queue'[p]]
  BY <1>2
<1> QED
  BY <1>7, <1>8, <1>9, <1>10 DEF Kept

LEMMA FinishKeeps ==
    ASSUME IInv, NEW o \in Objects, Busy(o), ~Parked(o), NEW c \in Answers, Finishes(o, c)
    PROVE  IInv'
<1>1. /\ UNCHANGED <<beside, abandoned>>
      /\ Continues(o, c) \/ Commits(o, c) \/ HandsOver(o, c) \/ Ends(o, c)
      /\ buffer' = BuffersAfter(o, c)
      /\ unsent' = UnsentAfter(o, c)
  BY DEF Finishes
<1>2. RestOK /\ flow[o] \in Flow
  BY DEF IInv, Healthy
<1>3. Kept
  BY <1>1, ContinuesKeeps, CommitsKeeps, HandsOverKeeps, EndsKeeps
<1>4. buffer' \in [Objects -> Buffer]
  BY <1>1, AnswerFacts
<1>5. flow[o].job.on \in Objects \cup {NoObject}
  BY <1>2 DEF Flow, Jobs
<1>6. unsent' \subseteq Objects \cup {NoObject}
  BY <1>1, <1>2, <1>5 DEF UnsentAfter, RestOK
<1>7. RestOK'
  BY <1>1, <1>2, <1>3, <1>4, <1>6 DEF RestOK, Kept
<1> QED
  BY <1>3, <1>7 DEF IInv, Kept

LEMMA CompleteKeeps ==
    ASSUME IInv, NEW o \in Objects, Complete(o)
    PROVE  IInv'
<1>1. Busy(o) /\ ~Parked(o)
  BY DEF Complete
<1>2. PICK c \in Completions(flow[o]) : Finishes(o, c)
  BY DEF Complete
<1> QED
  BY <1>1, <1>2, CompletionsAreAnswers, FinishKeeps

\* A read beside is never given up, so it never ends in "interrupted".
LEMMA BesideIsAnswered ==
    ASSUME IInv, CompleteBeside
    PROVE  \E r \in beside : \E outcome \in Outcomes \ {"Interrupted"} :
             /\ reply' = Answered({r.id}, outcome)
             /\ beside' = beside \ {r}
             /\ UNCHANGED <<flow, queue, buffer, posted, abandoned, unsent>>
<1>1. PICK r \in beside :
        LET f == Start(r.on, r.intent, r.id, buffer[r.on])
        IN  /\ \E c \in Completions(f) :
                  LET m == Advance(r.on, f, c, buffer[r.on])
                  IN  reply' = Answered({r.id}, IF m.then = "Fail" THEN m.why ELSE "Ok")
            /\ beside' = beside \ {r}
            /\ UNCHANGED <<flow, queue, buffer, posted, abandoned, unsent>>
  BY DEF CompleteBeside
<1> DEFINE f == Start(r.on, r.intent, r.id, buffer[r.on])
<1>2. PICK c \in Completions(f) :
        reply' = Answered({r.id}, IF Advance(r.on, f, c, buffer[r.on]).then = "Fail"
                                  THEN Advance(r.on, f, c, buffer[r.on]).why ELSE "Ok")
  BY <1>1
<1>3. /\ r.on \in Objects /\ r.intent \in Intent /\ r.id \in Tickets
      /\ buffer[r.on] \in Buffer
  BY DEF IInv, RestOK
<1>4. f.abort = FALSE
  BY DEF Start
<1>5. f \in Flow /\ f.step \in Steps
  BY <1>3, StartType DEF Working
<1> HIDE DEF f
<1>6. c \in Completion /\ (c.kind = "Failed" => c.why \in Failures \ {"Interrupted"})
  BY <1>5, CompletionsType
<1>7. Sound(Advance(r.on, f, c, buffer[r.on]))
  BY <1>3, <1>4, <1>5, <1>6, AdvanceIsSound
<1>8. PICK outcome \in Outcomes \ {"Interrupted"} : reply' = Answered({r.id}, outcome)
  BY <1>2, <1>7 DEF Sound, Outcomes
<1> QED
  BY <1>1, <1>8

LEMMA CompleteBesideKeeps ==
    ASSUME IInv, CompleteBeside
    PROVE  IInv'
<1>1. PICK r \in beside, outcome \in Outcomes :
        /\ reply' = Answered({r.id}, outcome)
        /\ beside' = beside \ {r}
        /\ UNCHANGED <<flow, queue, buffer, posted, abandoned, unsent>>
  BY BesideIsAnswered
<1>2. reply' \in [Tickets -> {"new", "open"} \cup Outcomes]
  BY <1>1 DEF IInv, RestOK, Answered
<1> QED
  BY <1>1, <1>2 DEF IInv, RestOK

LEMMA NextKeeps == IInv /\ [Next]_vars => IInv'
<1> SUFFICES ASSUME IInv, [Next]_vars PROVE IInv'
  OBVIOUS
<1>1. ASSUME NEW t \in Tickets, Submit(t) PROVE IInv'
  BY <1>1, SubmitKeeps
<1>2. CASE Deliver
  BY <1>2, DeliverKeeps
<1>3. ASSUME NEW t \in Tickets, Abandon(t) PROVE IInv'
  BY <1>3, AbandonKeeps
<1>4. ASSUME NEW o \in Objects, Complete(o) PROVE IInv'
  BY <1>4, CompleteKeeps
<1>5. CASE CompleteBeside
  BY <1>5, CompleteBesideKeeps
<1>6. CASE Rest \/ UNCHANGED vars
  BY <1>6 DEF Rest, vars, IInv, RestOK
<1> QED
  BY <1>1, <1>2, <1>3, <1>4, <1>5, <1>6 DEF Next

-----------------------------------------------------------------------------
(* The theorems.                                                            *)

LEMMA InvariantHolds == Spec => []IInv
  BY InitIInv, NextKeeps, PTL DEF Spec

\* The switchboard's state is well-typed in every reachable state: a busy
\* object's flow, its queue, the registry, and every answer given.
THEOREM TypeCorrect == Spec => []TypeOK
  BY InvariantHolds, IInvSaysSo, PTL

\* Nothing queues at an idle object, and a busy object has a job out or is
\* parked on a hand-over (machine.rs settle, release_ended): whatever the
\* scripts decide, whoever gives up and whatever fails.
THEOREM NothingIsEverStranded == Spec => []NothingStranded
  BY InvariantHolds, IInvSaysSo, PTL

\* A flow that is to give up (Flow::abort) serves nobody any more, or is a
\* background refresh: a caller that arrives after the last one left does not
\* join the dying flow (machine.rs request, the Join arm).
THEOREM GivenUpFlowsServeNobody == Spec => []GivenUpServesNobody
  BY InvariantHolds, IInvSaysSo, PTL

-----------------------------------------------------------------------------
(* Who is told "interrupted". The invariant is needed for one step only: a  *)
(* flow that ends because it was given up answers its riders, and by        *)
(* GivenUpServesNobody it has none, or is a background refresh.             *)

BlamesRightly(t) ==
    reply[t] = "open" /\ reply'[t] = "Interrupted" =>
        \/ t \in abandoned'
        \/ \E o \in Objects : t \in flow[o].waiters /\ flow[o].intent.kind = "Refresh"

LEMMA ArrivalBlamesNobody ==
    ASSUME NEW t \in Tickets, NEW o, NEW r, Arrives(o, r)
    PROVE  BlamesRightly(t)
<1>1. reply' = Answered({r.id}, "open") \/ reply' = Answered({r.id}, "Ok")
  BY DEF Arrives, Begins, IsDoneAtOnce, ReadsBeside, Queues, Joins, Aborts, Skips
<1> QED
  BY <1>1 DEF Answered, BlamesRightly

LEMMA AbandoningBlamesTheAbandoned ==
    ASSUME NEW t \in Tickets, NEW u \in Tickets, Abandon(u)
    PROVE  BlamesRightly(t)
<1>1. u \in abandoned'
  BY DEF Abandon
<1>2. t # u => \/ reply'[t] = "Ok"
               \/ reply'[t] = reply[t]
  BY DEF Abandon, AbandonRider, AbandonQueued, Answered
<1> QED
  BY <1>1, <1>2 DEF BlamesRightly

LEMMA CompletionBlamesRightly ==
    ASSUME IInv, NEW t \in Tickets, NEW o \in Objects, Complete(o)
    PROVE  BlamesRightly(t)
<1>1. Busy(o) /\ ~Parked(o)
  BY DEF Complete
<1>2. PICK c \in Completions(flow[o]) :
        Continues(o, c) \/ Commits(o, c) \/ HandsOver(o, c) \/ Ends(o, c)
  BY DEF Complete, Finishes
<1>3. flow[o] \in Flow /\ Healthy(flow[o], queue[o])
  BY DEF IInv, Healthy
<1>4. CASE Continues(o, c) \/ HandsOver(o, c)
  BY <1>4 DEF Continues, HandsOver, BlamesRightly
<1>5. CASE Commits(o, c)
  BY <1>5 DEF Commits, Answered, BlamesRightly
<1>6. CASE Ends(o, c)
  <2> DEFINE m == After(o, c)
             f == Moved(flow[o], m)
  <2>1. m.then \in {"Done", "Fail", "Abandoned"}
    BY <1>6 DEF Ends
  <2>2. PICK onTheWay : reply' = [u \in Tickets |->
                          IF u \in f.waiters THEN IF m.then = "Done" THEN "Ok" ELSE m.why
                          ELSE IF u \in onTheWay THEN "Ok"
                          ELSE reply[u]]
    BY <1>6 DEF Ends
  <2>3. f.waiters = flow[o].waiters
    BY <1>1, <1>2, <1>3, CompletionFacts, MovedType
  <2>4. CASE flow[o].abort
    <3>1. flow[o].waiters = {} \/ flow[o].intent.kind = "Refresh"
      BY <1>3, <2>4 DEF Healthy
    <3> HIDE DEF f, m
    <3> QED
      BY <2>2, <2>3, <3>1 DEF BlamesRightly
  <2>5. CASE ~flow[o].abort
    <3>1. m.then # "Abandoned" /\ (m.then = "Fail" => m.why # "Interrupted")
      BY <1>1, <1>2, <2>5, CompletionFacts DEF Sound
    <3> HIDE DEF f, m
    <3> QED
      BY <2>1, <2>2, <3>1 DEF BlamesRightly
  <2> QED
    BY <2>4, <2>5
<1> QED
  BY <1>2, <1>4, <1>5, <1>6

LEMMA StepBlamesRightly ==
    ASSUME IInv, [Next]_vars, NEW t \in Tickets
    PROVE  BlamesRightly(t)
<1>1. ASSUME NEW u \in Tickets, Submit(u) PROVE BlamesRightly(t)
  BY <1>1, ArrivalBlamesNobody DEF Submit, Receives
<1>2. CASE Deliver
  BY <1>2, ArrivalBlamesNobody DEF Deliver
<1>3. ASSUME NEW u \in Tickets, Abandon(u) PROVE BlamesRightly(t)
  BY <1>3, AbandoningBlamesTheAbandoned
<1>4. ASSUME NEW o \in Objects, Complete(o) PROVE BlamesRightly(t)
  BY <1>4, CompletionBlamesRightly
<1>5. CASE CompleteBeside
  <2>1. PICK r \in beside, outcome \in Outcomes \ {"Interrupted"} :
          reply' = Answered({r.id}, outcome)
    BY <1>5, BesideIsAnswered
  <2> QED
    BY <2>1 DEF Answered, BlamesRightly
<1>6. CASE Rest \/ UNCHANGED vars
  BY <1>6 DEF Rest, vars, BlamesRightly
<1> QED
  BY <1>1, <1>2, <1>3, <1>4, <1>5, <1>6 DEF Next

\* No caller is told its call was interrupted (EINTR) unless it gave up itself
\* or asked for a refresh that a delete overtook (script.rs advance, the abort
\* check; machine.rs abandon_request): every read that joined a transfer gets
\* its bytes or the transfer's own error, whoever else leaves it.
THEOREM OnlyTheAbandonedAre == Spec => OnlyTheAbandonedAreInterrupted
<1>1. IInv /\ [Next]_vars => \A t \in Tickets : BlamesRightly(t)
  BY StepBlamesRightly
<1>2. IInv /\ [Next]_vars =>
        [\A t \in Tickets :
          reply[t] = "open" /\ reply'[t] = "Interrupted" =>
              \/ t \in abandoned'
              \/ \E o \in Objects : t \in flow[o].waiters
                                    /\ flow[o].intent.kind = "Refresh"]_vars
  BY <1>1 DEF BlamesRightly
<1> QED
  BY <1>2, InvariantHolds, PTL DEF Spec, OnlyTheAbandonedAreInterrupted

-----------------------------------------------------------------------------
(* What an arriving request does to the object it meets, and to no other.   *)

Untouched(p) == flow'[p] = flow[p] /\ queue'[p] = queue[p]

Begun(p, r) == /\ ~Busy(p)
               /\ ~AtOnce(r.intent, buffer[p])
               /\ flow'[p] = Start(p, r.intent, r.id, buffer[p])
               /\ queue'[p] = queue[p]

\* A flow goes on, with the callers it had or fewer; and, if it is not its
\* job that came back, where it was.
Onward(p) == /\ flow'[p].intent = flow[p].intent
             /\ flow'[p].waiters \subseteq flow[p].waiters
SameStep(p) == /\ flow'[p].step = flow[p].step
               /\ flow'[p].job = flow[p].job
               /\ flow'[p].node = flow[p].node

Queued(p, r) == /\ Busy(p)
                /\ Onward(p) /\ SameStep(p)
                /\ queue'[p] = Append(queue[p], r)

Joined(p, r) == /\ Busy(p)
                /\ flow[p].intent.kind \in {"Fetch", "Enumerate"}
                /\ flow[p].intent.kind = r.intent.kind
                /\ flow'[p] = [flow[p] EXCEPT !.waiters = @ \cup {r.id}]
                /\ queue'[p] = queue[p]

LEMMA OnlyReadsJoin ==
    ASSUME NEW f, NEW i, NEW b, Collision(f, i, b) = "Join"
    PROVE  f.intent.kind \in {"Fetch", "Enumerate"} /\ f.intent.kind = i.kind
  BY DEF Collision

LEMMA ArrivalTouchesOne ==
    ASSUME IInv, NEW o \in Objects, NEW r, Arrives(o, r)
    PROVE  /\ \A p \in Objects \ {o} : Untouched(p)
           /\ Begun(o, r) \/ Queued(o, r) \/ Joined(o, r) \/ Untouched(o)
<1>1. /\ flow = [p \in Objects |-> flow[p]]
      /\ queue = [p \in Objects |-> queue[p]]
      /\ flow[o] \in Flow
  BY DEF IInv, RestOK, Healthy
<1>2. CASE Begins(o, r)
  BY <1>1, <1>2 DEF Begins, Begun, Untouched
<1>3. CASE IsDoneAtOnce(o, r) \/ ReadsBeside(o, r) \/ Skips(o, r)
  BY <1>3 DEF IsDoneAtOnce, ReadsBeside, Skips, Untouched
<1>4. CASE Queues(o, r)
  BY <1>1, <1>4 DEF Queues, Collides, Queued, Onward, SameStep, Untouched
<1>5. CASE Joins(o, r)
  <2>1. flow[o].intent.kind \in {"Fetch", "Enumerate"} /\ flow[o].intent.kind = r.intent.kind
    BY <1>5, OnlyReadsJoin DEF Joins, Collides
  <2> QED
    BY <1>1, <1>5, <2>1 DEF Joins, Collides, Joined, Untouched
<1>6. CASE Aborts(o, r)
  BY <1>1, <1>6 DEF Aborts, Collides, Queued, Onward, SameStep, Untouched, Flow
<1> QED
  BY <1>2, <1>3, <1>4, <1>5, <1>6 DEF Arrives

\* Freeing an object, and leaving its queue.
Freed(p, b) == flow'[p] = FlowReleased(p, b) /\ queue'[p] = QueueReleased(p, b)

LEMMA RemovingShifts ==
    ASSUME NEW S, NEW s \in Seq(S), NEW k \in 1..Len(s)
    PROVE  /\ Len(RemoveAt(s, k)) = Len(s) - 1
           /\ \A j \in 1..(Len(s) - 1) : RemoveAt(s, k)[j] = IF j < k THEN s[j] ELSE s[j + 1]
<1> DEFINE before == SubSeq(s, 1, k - 1)
           after  == SubSeq(s, k + 1, Len(s))
<1>1. /\ before \in Seq(S) /\ Len(before) = k - 1
      /\ \A j \in 1..(k - 1) : before[j] = s[j]
  OBVIOUS
<1>2. /\ after \in Seq(S) /\ Len(after) = Len(s) - k
      /\ \A j \in 1..(Len(s) - k) : after[j] = s[k + j]
  OBVIOUS
<1>3. RemoveAt(s, k) = before \o after
  BY DEF RemoveAt
<1> HIDE DEF before, after
<1>4. Len(before \o after) = Len(s) - 1
  <2>1. Len(before \o after) = Len(before) + Len(after)
    BY <1>1, <1>2, ConcatProperties, Zenon
  <2>2. Len(s) \in Nat /\ k \in Nat
    OBVIOUS
  <2> QED
    BY <1>1, <1>2, <2>1, <2>2
<1>5. ASSUME NEW j \in 1..(Len(s) - 1)
      PROVE  (before \o after)[j] = IF j < k THEN s[j] ELSE s[j + 1]
  <2>0. \A i \in 1 .. Len(before) + Len(after) :
          (before \o after)[i] = IF i <= Len(before) THEN before[i] ELSE after[i - Len(before)]
    BY <1>1, <1>2, ConcatProperties, Zenon
  <2>1. CASE j < k
    BY <1>1, <1>2, <2>0, <2>1
  <2>2. CASE ~(j < k)
    <3>1. j - (k - 1) \in 1..(Len(s) - k) /\ k + (j - (k - 1)) = j + 1
      BY <2>2
    <3>2. (before \o after)[j] = after[j - (k - 1)]
      BY <1>1, <1>2, <2>0, <2>2
    <3> QED
      BY <1>2, <2>2, <3>1, <3>2
  <2> QED
    BY <2>1, <2>2
<1> QED
  BY <1>3, <1>4, <1>5

LEMMA ReleasingShifts ==
    ASSUME TypeOK, NEW o \in Objects, NEW b \in Buffer
    PROVE  IF NeedsAJob(o, b) = {}
           THEN FlowReleased(o, b) = IdleFlow /\ QueueReleased(o, b) = <<>>
           ELSE LET n == NextUp(o, b)
                IN  /\ n \in 1..Len(queue[o])
                    /\ queue[o][n] \in Request /\ ~AtOnce(queue[o][n].intent, b)
                    /\ FlowReleased(o, b) = Start(o, queue[o][n].intent, queue[o][n].id, b)
                    /\ Len(QueueReleased(o, b)) = Len(queue[o]) - n
                    /\ \A j \in 1..(Len(queue[o]) - n) : QueueReleased(o, b)[j] = queue[o][n + j]
<1>1. queue[o] \in Seq(Request)
  BY DEF TypeOK
<1>2. CASE NeedsAJob(o, b) = {}
  BY <1>2 DEF FlowReleased, QueueReleased
<1>3. CASE NeedsAJob(o, b) # {}
  <2>1. /\ NextUp(o, b) \in 1..Len(queue[o])
        /\ ~AtOnce(queue[o][NextUp(o, b)].intent, b)
    BY <1>3, NextUpIsLeast DEF NeedsAJob
  <2>2. /\ FlowReleased(o, b) = Start(o, queue[o][NextUp(o, b)].intent, queue[o][NextUp(o, b)].id, b)
        /\ QueueReleased(o, b) = SubSeq(queue[o], NextUp(o, b) + 1, Len(queue[o]))
    BY <1>3 DEF FlowReleased, QueueReleased
  <2>3. ASSUME NEW n \in 1..Len(queue[o])
        PROVE  /\ queue[o][n] \in Request
               /\ Len(SubSeq(queue[o], n + 1, Len(queue[o]))) = Len(queue[o]) - n
               /\ \A j \in 1..(Len(queue[o]) - n) :
                     SubSeq(queue[o], n + 1, Len(queue[o]))[j] = queue[o][n + j]
    BY <1>1, <2>3
  <2> QED
    BY <1>3, <2>1, <2>2, <2>3
<1> QED
  BY <1>2, <1>3

\* Every step changes each object's flow and queue in one of these ways. `r`
\* is the request that arrived or was handed over, if one did; the last way is
\* that of the object whose job came back.
Bystands(p, r) ==
    \/ Onward(p) /\ SameStep(p) /\ queue'[p] = queue[p]
    \/ Begun(p, r)
    \/ Queued(p, r)
    \/ Joined(p, r)
    \/ Freed(p, buffer'[p])
    \/ /\ Onward(p) /\ SameStep(p)
       /\ \E k \in DOMAIN queue[p] : queue'[p] = RemoveAt(queue[p], k)

GoesOn(p, r) == /\ Onward(p)
                /\ \/ queue'[p] = queue[p]
                   \/ Busy(p) /\ queue'[p] = Append(queue[p], r)

Fate(p, r) == Bystands(p, r) \/ GoesOn(p, r)

\* What arrives: a request of a ticket the decider has not seen, one it made
\* for itself, or one a parent hands to its child.
Seen == {t \in Tickets : reply[t] # "new"}
Newcomer(r) == \/ r.id \in Tickets \ Seen
               \/ r.id = Nobody
               \/ r.id \in Seen /\ r.intent.from # NoObject

LEMMA ArrivalDecidesFates ==
    ASSUME IInv, NEW o \in Objects, NEW r, Arrives(o, r), NEW p \in Objects
    PROVE  Bystands(p, r)
<1>1. /\ \A q \in Objects \ {o} : Untouched(q)
      /\ Begun(o, r) \/ Queued(o, r) \/ Joined(o, r) \/ Untouched(o)
  BY ArrivalTouchesOne
<1>2. Untouched(p) => Onward(p) /\ SameStep(p) /\ queue'[p] = queue[p]
  BY DEF Untouched, Onward, SameStep
<1> QED
  BY <1>1, <1>2 DEF Bystands

LEMMA AbandonDecidesFates ==
    ASSUME IInv, NEW t \in Tickets, Abandon(t), NEW p \in Objects, NEW r
    PROVE  Bystands(p, r)
<1>1. PICK o \in Objects : AbandonRider(t, o) \/ AbandonQueued(t, o)
  BY DEF Abandon
<1>2. /\ flow = [q \in Objects |-> flow[q]] /\ flow[p] \in Flow /\ flow[o] \in Flow
      /\ queue = [q \in Objects |-> queue[q]]
      /\ buffer'[p] = buffer[p]
  BY DEF IInv, RestOK, Healthy, Abandon
<1>3. CASE AbandonRider(t, o)
  <2>1. /\ queue' = queue
        /\ flow' = [flow EXCEPT ![o].waiters = @ \ {t},
                                ![o].abort = @ \/ flow[o].waiters = {t}]
    BY <1>3 DEF AbandonRider
  <2>2. Onward(p) /\ SameStep(p)
    BY <1>2, <2>1 DEF Onward, SameStep, Flow
  <2> QED
    BY <2>1, <2>2 DEF Bystands
<1>4. CASE AbandonQueued(t, o)
  <2>1. PICK k \in DOMAIN queue[o] :
          LET freed == ParkedOn(queue[o][k].intent)
          IN  /\ flow' = [q \in Objects |-> IF q \in freed THEN FlowReleased(q, buffer[q])
                                                           ELSE flow[q]]
              /\ queue' = [q \in Objects |->
                              IF q \in freed THEN QueueReleased(q, buffer[q])
                              ELSE IF q = o THEN RemoveAt(queue[o], k)
                              ELSE queue[q]]
    BY <1>4 DEF AbandonQueued
  <2>2. CASE p \in ParkedOn(queue[o][k].intent)
    BY <1>2, <2>1, <2>2 DEF Bystands, Freed
  <2>3. CASE p \notin ParkedOn(queue[o][k].intent)
    <3>1. Onward(p) /\ SameStep(p)
      BY <2>1, <2>3 DEF Onward, SameStep
    <3>2. \/ queue'[p] = queue[p]
          \/ \E j \in DOMAIN queue[p] : queue'[p] = RemoveAt(queue[p], j)
      BY <2>1, <2>3
    <3> QED
      BY <3>1, <3>2 DEF Bystands
  <2> QED
    BY <2>2, <2>3
<1> QED
  BY <1>1, <1>3, <1>4

\* A job that comes back: the flow goes on, is handed over, or ends.
LEMMA CompletionDecidesFates ==
    ASSUME IInv, NEW o \in Objects, Complete(o)
    PROVE  \E r \in Request :
                  /\ (r.id \in flow[o].waiters /\ r.intent.from = o) \/ r.id = Nobody
                  /\ r.intent.kind \in {"Publish", "Delete", "Relocate"}
                  /\ \A p \in Objects \ {o} : Bystands(p, r)
                  /\ Fate(o, r)
<1>1. Busy(o) /\ ~Parked(o)
  BY DEF Complete
<1>2. PICK c \in Completions(flow[o]) :
        /\ Continues(o, c) \/ Commits(o, c) \/ HandsOver(o, c) \/ Ends(o, c)
        /\ buffer' = BuffersAfter(o, c)
  BY DEF Complete, Finishes
<1>3. /\ flow = [q \in Objects |-> flow[q]] /\ flow[o] \in Flow
      /\ queue = [q \in Objects |-> queue[q]]
      /\ \A q \in Objects : flow[q] \in Flow /\ buffer[q] \in Buffer
  BY DEF IInv, RestOK, Healthy
<1>4. After(o, c) \in Move /\ BuffersAfter(o, c) \in [Objects -> Buffer]
  BY <1>1, CompletionFacts
<1> DEFINE moved == Moved(flow[o], After(o, c))
           none  == [id |-> Nobody, intent |-> Publishing]
<1>5. /\ moved.intent = flow[o].intent /\ moved.waiters = flow[o].waiters
      /\ [moved EXCEPT !.waiters = {}].intent = flow[o].intent
      /\ [moved EXCEPT !.waiters = {}].waiters = {}
      /\ moved \in Flow
  <2>1. moved.intent = flow[o].intent /\ moved.waiters = flow[o].waiters /\ moved \in Flow
    BY <1>3, <1>4, MovedType
  <2> HIDE DEF moved
  <2> QED
    BY <2>1 DEF Flow
<1>9. none \in Request /\ none.id = Nobody /\ none.intent.kind = "Publish"
  BY DEF Request, Publishing, NoIntent, Intent, Kinds
<1>6. CASE Continues(o, c) \/ Commits(o, c)
  <2>1. /\ \A p \in Objects : queue'[p] = queue[p]
        /\ \A p \in Objects : \/ flow'[p] = flow[p]
                              \/ p = o /\ flow'[p] = moved
                              \/ p = o /\ flow'[p] = [moved EXCEPT !.waiters = {}]
    BY <1>3, <1>6 DEF Continues, Commits
  <2> HIDE DEF moved
  <2>2. ASSUME NEW p \in Objects
        PROVE  IF p = o THEN Fate(p, none) ELSE Bystands(p, none)
    BY <1>5, <2>1 DEF Fate, Bystands, GoesOn, Onward, SameStep
  <2> QED
    BY <1>9, <2>2
<1>7. CASE HandsOver(o, c)
  <2> DEFINE parked == [moved EXCEPT !.waiters = {}]
             child  == parked.node.id
             i      == HandedOver(o, flow[o].intent)
             aborts(p) == Collision(flow[p], i, buffer[p]) = "Abort"
  <2>1. PICK w \in flow[o].waiters :
          /\ flow' = [p \in Objects |->
                IF p = o THEN parked
                ELSE IF p # child THEN flow[p]
                ELSE IF ~Busy(p) THEN Start(p, i, w, buffer[p])
                ELSE [flow[p] EXCEPT !.abort = @ \/ aborts(p)]]
          /\ queue' = [p \in Objects |->
                IF p = child /\ Busy(p) THEN Append(queue[p], [id |-> w, intent |-> i])
                                        ELSE queue[p]]
    BY <1>7, ZenonT(60) DEF HandsOver
  <2>2. parked.intent = flow[o].intent /\ parked.waiters = {}
    BY <1>5
  <2> DEFINE r == [id |-> w, intent |-> i]
  <2>3. /\ r.id \in flow[o].waiters /\ r.intent.from = o /\ r \in Request
        /\ r.intent.kind \in {"Delete", "Relocate"}
    BY <1>3, HandedOverType DEF HandedOver, Flow, Intent, Request
  <2> HIDE DEF parked, child, i
  <2>4. ASSUME NEW p \in Objects
        PROVE  IF p = o THEN Fate(p, r) ELSE Bystands(p, r)
    <3>1. CASE p = o
      BY <1>1, <2>1, <2>2, <3>1 DEF Fate, GoesOn, Onward
    <3>2. CASE p # o /\ p # child
      BY <2>1, <3>2 DEF Bystands, Onward, SameStep
    <3>3. CASE p # o /\ p = child /\ ~Busy(p)
      BY <2>1, <2>3, <3>3 DEF Bystands, Begun, AtOnce
    <3>4. CASE p # o /\ p = child /\ Busy(p)
      <4>1. /\ flow'[p] = [flow[p] EXCEPT !.abort = flow[p].abort \/ aborts(p)]
            /\ queue'[p] = Append(queue[p], r)
        BY <2>1, <3>4
      <4>2. Onward(p) /\ SameStep(p)
        BY <1>3, <4>1 DEF Onward, SameStep, Flow
      <4> QED
        BY <3>4, <4>1, <4>2 DEF Bystands, Queued
    <3> QED
      BY <3>1, <3>2, <3>3, <3>4
  <2> QED
    BY <2>3, <2>4
<1>8. CASE Ends(o, c)
  <2> DEFINE b     == BuffersAfter(o, c)
             freed == {o} \cup ParkedOn(moved.intent)
  <2>1. /\ flow' = [p \in Objects |-> IF p \in freed THEN FlowReleased(p, b[p]) ELSE flow[p]]
        /\ queue' = [p \in Objects |-> IF p \in freed THEN QueueReleased(p, b[p]) ELSE queue[p]]
    BY <1>8 DEF Ends
  <2>2. \A p \in Objects : buffer'[p] = b[p]
    BY <1>2
  <2> HIDE DEF b, freed, moved
  <2>3. ASSUME NEW p \in Objects
        PROVE  Bystands(p, none)
    BY <2>1, <2>2 DEF Bystands, Freed, Onward, SameStep
  <2> QED
    BY <1>9, <2>3 DEF Fate
<1> QED
  BY <1>2, <1>6, <1>7, <1>8

\* No fate brings a request from nowhere: what queues, and what starts, is
\* the newcomer or was queued before.
LEMMA FatesKeepMembers ==
    ASSUME IInv, IInv', NEW p \in Objects, NEW r \in Request, Fate(p, r)
    PROVE  \A j \in DOMAIN queue'[p] :
              queue'[p][j] = r \/ \E k \in DOMAIN queue[p] : queue'[p][j] = queue[p][k]
<1>1. /\ queue[p] \in Seq(Request) /\ TypeOK
      /\ DOMAIN queue[p] = 1..Len(queue[p]) /\ buffer'[p] \in Buffer
  BY IInvSaysSo DEF IInv, RestOK, Healthy
<1>2. CASE queue'[p] = queue[p]
  BY <1>2
<1>3. CASE queue'[p] = Append(queue[p], r)
  <2>1. \A k \in DOMAIN Append(queue[p], r) :
          Append(queue[p], r)[k] = IF k \in DOMAIN queue[p] THEN queue[p][k] ELSE r
    BY <1>1
  <2> QED
    BY <1>3, <2>1
<1>4. CASE Freed(p, buffer'[p])
  <2>1. PICK b \in Buffer : queue'[p] = QueueReleased(p, b)
    BY <1>1, <1>4 DEF Freed
  <2>2. CASE NeedsAJob(p, b) = {}
    BY <2>1, <2>2 DEF QueueReleased
  <2>3. CASE NeedsAJob(p, b) # {}
    <3>1. QueueReleased(p, b) \in Seq(Request)
      BY <1>1, ReleasedType
    <3>2. PICK n \in 1..Len(queue[p]) :
          /\ Len(QueueReleased(p, b)) = Len(queue[p]) - n
          /\ \A j \in 1..(Len(queue[p]) - n) : QueueReleased(p, b)[j] = queue[p][n + j]
      BY <1>1, <2>3, ReleasingShifts
    <3>3. \A j \in DOMAIN QueueReleased(p, b) :
             n + j \in DOMAIN queue[p] /\ QueueReleased(p, b)[j] = queue[p][n + j]
      BY <1>1, <3>1, <3>2
    <3> QED
      BY <2>1, <3>3
  <2> QED
    BY <2>2, <2>3
<1>5. CASE \E k \in DOMAIN queue[p] : queue'[p] = RemoveAt(queue[p], k)
  <2>1. PICK k \in 1..Len(queue[p]) : queue'[p] = RemoveAt(queue[p], k)
    BY <1>1, <1>5
  <2>2. /\ Len(queue'[p]) = Len(queue[p]) - 1
        /\ \A j \in 1..(Len(queue[p]) - 1) :
              queue'[p][j] = IF j < k THEN queue[p][j] ELSE queue[p][j + 1]
        /\ queue'[p] \in Seq(Request)
    BY <1>1, <2>1, RemovingShifts, RemovingType
  <2>3. ASSUME NEW j \in DOMAIN queue'[p]
        PROVE  \E i \in DOMAIN queue[p] : queue'[p][j] = queue[p][i]
    <3>1. j \in 1..(Len(queue[p]) - 1) /\ Len(queue[p]) \in Nat
      BY <1>1, <2>2
    <3>2. j \in DOMAIN queue[p] /\ j + 1 \in DOMAIN queue[p]
      BY <1>1, <3>1
    <3> QED
      BY <2>2, <3>1, <3>2
  <2> QED
    BY <2>3
<1> QED
  BY <1>2, <1>3, <1>4, <1>5 DEF Fate, Bystands, GoesOn, Begun, Queued, Joined

StartsWith(p, x) ==
    \E b \in Buffer : /\ b.open \in {buffer[p].open, buffer'[p].open}
                      /\ ~AtOnce(x.intent, b)
                      /\ flow'[p] = Start(p, x.intent, x.id, b)

LEMMA BystandersStartMembers ==
    ASSUME IInv, IInv', NEW p \in Objects, NEW r \in Request, Bystands(p, r)
    PROVE  \/ Onward(p) /\ SameStep(p)
           \/ Joined(p, r)
           \/ flow'[p] = IdleFlow
           \/ \E x \in Request : /\ x = r \/ \E k \in DOMAIN queue[p] : x = queue[p][k]
                                 /\ StartsWith(p, x)
<1>1. /\ TypeOK /\ buffer[p] \in Buffer /\ buffer'[p] \in Buffer
      /\ queue[p] \in Seq(Request)
  BY IInvSaysSo DEF IInv, RestOK, Healthy
<1>2. CASE Begun(p, r)
  BY <1>1, <1>2 DEF Begun, StartsWith
<1>3. CASE Freed(p, buffer'[p])
  <2>1. PICK b \in Buffer : b = buffer'[p]
    BY <1>1
  <2>2. CASE NeedsAJob(p, b) = {}
    BY <1>3, <2>1, <2>2 DEF Freed, FlowReleased
  <2>3. CASE NeedsAJob(p, b) # {}
    <3>1. PICK n \in 1..Len(queue[p]) :
            /\ queue[p][n] \in Request /\ ~AtOnce(queue[p][n].intent, b)
            /\ FlowReleased(p, b) = Start(p, queue[p][n].intent, queue[p][n].id, b)
      BY <1>1, <2>3, ReleasingShifts
    <3>2. StartsWith(p, queue[p][n])
      BY <1>3, <2>1, <3>1 DEF Freed, StartsWith
    <3>3. n \in DOMAIN queue[p]
      BY <1>1, <3>1
    <3> QED
      BY <3>1, <3>2, <3>3
  <2> QED
    BY <2>2, <2>3
<1> QED
  BY <1>2, <1>3 DEF Bystands, Queued

-----------------------------------------------------------------------------
(* The order of arrival. Tickets reach the decider in order, so whoever is  *)
(* held anywhere is older than whoever comes; a queue only grows at its end *)
(* and shrinks without being reordered; and the flow that starts is the     *)
(* oldest of those that need one.                                           *)

InOrder(f, q) ==
    /\ \A j, k \in DOMAIN q :
          j < k /\ Direct(q[j]) /\ Direct(q[k]) => q[j].id < q[k].id
    /\ ChangesState(f.intent) /\ f.intent.from = NoObject =>
          \A w \in f.waiters \ {Nobody} : \A k \in DOMAIN q : Direct(q[k]) => w < q[k].id

Met(f, q, S) == /\ f.waiters \subseteq S \cup {Nobody}
                /\ \A k \in DOMAIN q : q[k].id \in S \cup {Nobody}

OInv == /\ IInv
        /\ \A s, t \in Tickets : s < t /\ t \in Seen => s \in Seen
        /\ \A r \in beside : r.id \in Seen
        /\ \A o \in Objects : InOrder(flow[o], queue[o]) /\ Met(flow[o], queue[o], Seen)

\* Who comes now is younger than who came before.
LEMMA NewcomersAreYounger ==
    ASSUME OInv, NEW r \in Request, Newcomer(r), Direct(r), NEW w \in Seen
    PROVE  w < r.id
<1>1. r.id \in Tickets \ Seen
  BY DEF Newcomer, Direct
<1>2. ~(r.id < w) /\ r.id # w
  BY <1>1 DEF OInv, Seen
<1>3. r.id \in Nat /\ w \in Nat
  BY <1>1, TicketsAreNumbered DEF Seen
<1> QED
  BY <1>2, <1>3

LEMMA AppendingInOrder ==
    ASSUME OInv, NEW p \in Objects, NEW r \in Request, Newcomer(r), NEW g,
           g.intent = flow[p].intent, g.waiters \subseteq flow[p].waiters
    PROVE  InOrder(g, Append(queue[p], r))
<1> DEFINE q == queue[p]
<1>1. q \in Seq(Request) /\ InOrder(flow[p], q) /\ Met(flow[p], q, Seen)
  BY DEF OInv, IInv, Healthy
<1>2. /\ DOMAIN Append(q, r) = 1..(Len(q) + 1)
      /\ DOMAIN q = 1..Len(q) /\ Len(q) \in Nat
      /\ \A k \in 1..Len(q) : Append(q, r)[k] = q[k]
      /\ Append(q, r)[Len(q) + 1] = r
  BY <1>1
<1>3. ASSUME NEW k \in DOMAIN q, Direct(q[k]), Direct(r)
      PROVE  q[k].id < r.id
  BY <1>1, <1>3, NewcomersAreYounger DEF Met, Direct
<1>4. ASSUME NEW w \in g.waiters \ {Nobody}, Direct(r)
      PROVE  w < r.id
  BY <1>1, <1>4, NewcomersAreYounger DEF Met
<1> HIDE DEF q
<1>5. ASSUME NEW j \in DOMAIN Append(q, r), NEW k \in DOMAIN Append(q, r), j < k,
             Direct(Append(q, r)[j]), Direct(Append(q, r)[k])
      PROVE  Append(q, r)[j].id < Append(q, r)[k].id
  <2>1. CASE k = Len(q) + 1
    <3>1. j \in DOMAIN q
      BY <1>2, <1>5, <2>1
    <3> QED
      BY <1>2, <1>3, <1>5, <2>1, <3>1
  <2>2. CASE k # Len(q) + 1
    <3>1. j \in DOMAIN q /\ k \in DOMAIN q
      BY <1>2, <1>5, <2>2
    <3> QED
      BY <1>1, <1>2, <1>5, <3>1 DEF InOrder
  <2> QED
    BY <2>1, <2>2
<1>6. ASSUME ChangesState(g.intent), g.intent.from = NoObject, NEW w \in g.waiters \ {Nobody},
             NEW k \in DOMAIN Append(q, r), Direct(Append(q, r)[k])
      PROVE  w < Append(q, r)[k].id
  <2>1. CASE k = Len(q) + 1
    BY <1>2, <1>4, <1>6, <2>1
  <2>2. CASE k # Len(q) + 1
    <3>1. k \in DOMAIN q /\ Append(q, r)[k] = q[k]
      BY <1>2, <2>2
    <3> QED
      BY <1>1, <1>6, <3>1 DEF InOrder, q
  <2> QED
    BY <2>1, <2>2
<1> QED
  BY <1>5, <1>6 DEF InOrder, q

LEMMA RemovingInOrder ==
    ASSUME NEW q \in Seq(Request), NEW k \in DOMAIN q, NEW f, InOrder(f, q), NEW g,
           g.intent = f.intent, g.waiters \subseteq f.waiters
    PROVE  InOrder(g, RemoveAt(q, k))
<1> DEFINE s == RemoveAt(q, k)
           at(j) == IF j < k THEN j ELSE j + 1
<1>1. /\ k \in 1..Len(q) /\ DOMAIN q = 1..Len(q) /\ Len(q) \in Nat
      /\ Len(s) = Len(q) - 1
      /\ \A j \in 1..(Len(q) - 1) : s[j] = IF j < k THEN q[j] ELSE q[j + 1]
      /\ s \in Seq(Request)
  BY RemovingShifts, RemovingType
<1>2. DOMAIN s = 1..(Len(q) - 1)
  BY <1>1
<1>3. \A j \in DOMAIN s : at(j) \in DOMAIN q /\ s[j] = q[at(j)]
  BY <1>1, <1>2
<1>4. \A i, j \in DOMAIN s : i < j => at(i) < at(j)
  BY <1>1, <1>2
<1> HIDE DEF s, at
<1> QED
  BY <1>3, <1>4 DEF InOrder, s

LEMMA ReleasingInOrder ==
    ASSUME TypeOK, NEW o \in Objects, NEW b \in Buffer, InOrder(flow[o], queue[o])
    PROVE  InOrder(FlowReleased(o, b), QueueReleased(o, b))
<1> DEFINE q == queue[o]
           s == QueueReleased(o, b)
           g == FlowReleased(o, b)
<1>1. q \in Seq(Request) /\ s \in Seq(Request)
  BY ReleasedType DEF TypeOK
<1>2. CASE NeedsAJob(o, b) = {}
  <2>1. s = <<>>
    BY <1>2 DEF QueueReleased
  <2> QED
    BY <2>1 DEF InOrder
<1>3. CASE NeedsAJob(o, b) # {}
  <2>1. PICK n \in 1..Len(q) :
          /\ q[n] \in Request
          /\ g = Start(o, q[n].intent, q[n].id, b)
          /\ Len(s) = Len(q) - n
          /\ \A j \in 1..(Len(q) - n) : s[j] = q[n + j]
    BY <1>3, ReleasingShifts
  <2>2. DOMAIN q = 1..Len(q) /\ Len(q) \in Nat /\ DOMAIN s = 1..(Len(q) - n)
    BY <1>1, <2>1
  <2>3. g.intent = q[n].intent /\ g.waiters = {q[n].id}
    BY <2>1 DEF Start
  <2> HIDE DEF s, g
  <2>4. \A j \in DOMAIN s : n + j \in DOMAIN q /\ s[j] = q[n + j] /\ n < n + j
    BY <2>1, <2>2
  <2>5. \A i, j \in DOMAIN s : i < j => n + i < n + j
    BY <2>2
  <2>6. ASSUME NEW i \in DOMAIN s, NEW j \in DOMAIN s, i < j, Direct(s[i]), Direct(s[j])
        PROVE  s[i].id < s[j].id
    BY <2>4, <2>5, <2>6 DEF InOrder
  <2>7. ASSUME g.intent.from = NoObject, NEW w \in g.waiters \ {Nobody},
               NEW k \in DOMAIN s, Direct(s[k])
        PROVE  w < s[k].id
    <3>1. Direct(q[n]) /\ w = q[n].id
      BY <2>3, <2>7 DEF Direct
    <3> QED
      BY <2>1, <2>2, <2>4, <2>7, <3>1 DEF InOrder
  <2> QED
    BY <2>6, <2>7 DEF InOrder, s, g
<1> QED
  BY <1>2, <1>3

\* What every fate leaves of the order, and of who is held.
LEMMA FatesKeepTheOrder ==
    ASSUME OInv, IInv', NEW p \in Objects, NEW r \in Request, Newcomer(r), Fate(p, r)
    PROVE  InOrder(flow'[p], queue'[p])
<1>1. /\ InOrder(flow[p], queue[p]) /\ queue[p] \in Seq(Request) /\ TypeOK
      /\ flow[p] \in Flow /\ (~Busy(p) => queue[p] = <<>>) /\ buffer'[p] \in Buffer
  BY IInvSaysSo DEF OInv, IInv, RestOK, Healthy, Busy
<1>2. CASE Onward(p) /\ queue'[p] = queue[p]
  BY <1>1, <1>2 DEF InOrder, Onward
<1>3. CASE Begun(p, r)
  BY <1>1, <1>3 DEF Begun, InOrder
<1>4. CASE Queued(p, r) \/ GoesOn(p, r)
  BY <1>1, <1>4, AppendingInOrder DEF Queued, GoesOn, Onward, InOrder
<1>5. CASE Joined(p, r)
  <2>1. flow'[p].intent = flow[p].intent
    BY <1>1, <1>5 DEF Joined, Flow
  <2>2. ~ChangesState(flow'[p].intent)
    BY <1>5, <2>1 DEF Joined, ChangesState
  <2> QED
    BY <1>1, <1>5, <2>2 DEF InOrder, Joined
<1>6. CASE Freed(p, buffer'[p])
  BY <1>1, <1>6, ReleasingInOrder DEF Freed
<1>7. CASE Onward(p) /\ \E k \in DOMAIN queue[p] : queue'[p] = RemoveAt(queue[p], k)
  BY <1>1, <1>7, RemovingInOrder DEF Onward
<1> QED
  BY <1>2, <1>3, <1>4, <1>5, <1>6, <1>7 DEF Fate, Bystands

LEMMA FatesKeepWhoIsMet ==
    ASSUME OInv, IInv', NEW p \in Objects, NEW r \in Request, NEW S, Seen \subseteq S,
           r.id \in S \cup {Nobody}, Fate(p, r)
    PROVE  Met(flow'[p], queue'[p], S)
<1>1. /\ Met(flow[p], queue[p], S) /\ IInv /\ flow[p] \in Flow
  BY DEF OInv, IInv, Healthy, Met
<1>2. \A j \in DOMAIN queue'[p] : queue'[p][j].id \in S \cup {Nobody}
  BY <1>1, FatesKeepMembers DEF Met
<1>3. flow'[p].waiters \subseteq S \cup {Nobody}
  <2>1. CASE Onward(p)
    BY <1>1, <2>1 DEF Met, Onward
  <2>2. CASE Joined(p, r)
    BY <1>1, <2>2 DEF Met, Joined, Flow
  <2>3. CASE flow'[p] = IdleFlow
    BY <2>3 DEF IdleFlow
  <2>4. ASSUME NEW x \in Request, StartsWith(p, x),
               x = r \/ \E k \in DOMAIN queue[p] : x = queue[p][k]
        PROVE  flow'[p].waiters \subseteq S \cup {Nobody}
    BY <1>1, <2>4 DEF StartsWith, Start, Met
  <2> QED
    BY <1>1, <2>1, <2>2, <2>3, <2>4, BystandersStartMembers DEF Fate, GoesOn
<1> QED
  BY <1>2, <1>3 DEF Met

LEMMA InitOInv == Init => OInv
<1> SUFFICES ASSUME Init PROVE OInv
  OBVIOUS
<1>1. IInv
  BY InitIInv
<1>2. /\ Seen = {} /\ beside = {}
      /\ \A o \in Objects : flow[o] = IdleFlow /\ queue[o] = <<>>
  BY DEF Init, Seen
<1>3. IdleFlow.waiters = {} /\ DOMAIN <<>> = {}
  BY DEF IdleFlow
<1> QED
  BY <1>1, <1>2, <1>3 DEF OInv, InOrder, Met

\* The answers given on the way, when an object is freed, go to tickets that
\* queued there.
LEMMA AnsweredWereMet ==
    ASSUME OInv, NEW p \in Objects, NEW b
    PROVE  AnsweredOnRelease(p, b) \subseteq Seen \cup {Nobody}
<1>1. Met(flow[p], queue[p], Seen)
  BY DEF OInv
<1> QED
  BY <1>1 DEF Met, AnsweredOnRelease

LEMMA AnsweringTheSeen ==
    ASSUME OInv, NEW S, S \cap Tickets \subseteq Seen,
           \A t \in Tickets \ S : reply'[t] = reply[t],
           \A t \in Tickets \cap S : reply'[t] # "new"
    PROVE  Seen' = Seen
  BY DEF Seen

LEMMA SubmitKeepsOrder ==
    ASSUME OInv, NEW t \in Tickets, Submit(t)
    PROVE  OInv'
<1>1. PICK a \in Asks : Receives(t, a)
  BY DEF Submit
<1> DEFINE r == [id |-> t, intent |-> a.intent]
<1>2. /\ Arrives(a.on, r) /\ IsNext(t)
      /\ a.on \in Objects /\ r \in Request
  BY <1>1, AsksAssumption DEF Receives, Request
<1>3. IInv /\ IInv'
  BY SubmitKeeps DEF OInv
<1>4. t \in Tickets \ Seen /\ r.id = t
  BY <1>2 DEF IsNext, Seen
<1> HIDE DEF r
<1>5. Seen' = Seen \cup {t}
  BY <1>2, <1>4 DEF Arrives, Begins, IsDoneAtOnce, ReadsBeside, Queues, Joins, Aborts, Skips,
     Answered, Seen
<1>6. \A s \in Tickets : s < t => s \in Seen
  BY <1>2 DEF IsNext, Seen
<1>7. ASSUME NEW u \in Tickets, NEW v \in Tickets, u < v, v \in Seen'
      PROVE  u \in Seen'
  BY <1>5, <1>6, <1>7 DEF OInv
<1>8. \A x \in beside' : x.id \in Seen'
  <2>1. beside' = beside \/ beside' = beside \cup {[id |-> t, on |-> a.on, intent |-> r.intent]}
    BY <1>2, <1>4 DEF Arrives, Begins, IsDoneAtOnce, ReadsBeside, Queues, Joins, Aborts, Skips
  <2> QED
    BY <1>5, <2>1 DEF OInv
<1>9. ASSUME NEW p \in Objects
      PROVE  InOrder(flow'[p], queue'[p]) /\ Met(flow'[p], queue'[p], Seen')
  <2>1. Fate(p, r) /\ Newcomer(r)
    BY <1>2, <1>3, <1>4, ArrivalDecidesFates DEF Newcomer, Fate
  <2>2. InOrder(flow'[p], queue'[p])
    BY <1>2, <1>3, <2>1, FatesKeepTheOrder
  <2>3. r.id \in Seen' /\ Seen \subseteq Seen'
    BY <1>4, <1>5
  <2>4. Met(flow'[p], queue'[p], Seen')
    BY <1>2, <1>3, <2>1, <2>3, FatesKeepWhoIsMet
  <2> QED
    BY <2>2, <2>4
<1> QED
  BY <1>3, <1>7, <1>8, <1>9 DEF OInv

\* Every other step: nobody new is seen.
LEMMA OthersKeepOrder ==
    ASSUME OInv, IInv', Seen' = Seen, beside' \subseteq beside,
           NEW r \in Request, r.id \in Seen \cup {Nobody}, Newcomer(r),
           \A p \in Objects : Fate(p, r)
    PROVE  OInv'
<1>1. ASSUME NEW p \in Objects
      PROVE  InOrder(flow'[p], queue'[p]) /\ Met(flow'[p], queue'[p], Seen')
  BY FatesKeepTheOrder, FatesKeepWhoIsMet
<1> QED
  BY <1>1 DEF OInv

LEMMA DeliverKeepsOrder ==
    ASSUME OInv, Deliver
    PROVE  OInv'
<1>1. IInv /\ IInv'
  BY DeliverKeeps DEF OInv
<1>2. posted \in Seq([on : Objects, intent : {Publishing}]) /\ posted # <<>>
  BY <1>1 DEF Deliver, IInv, RestOK
<1>3. Publishing \in Intent /\ Publishing.kind = "Publish"
  BY DEF Publishing, NoIntent, Intent, Kinds
<1> DEFINE r == [id |-> Nobody, intent |-> Head(posted).intent]
<1>7. Head(posted) \in [on : Objects, intent : {Publishing}]
  BY <1>2, HeadAndTail
<1>4. /\ Head(posted).on \in Objects /\ r \in Request /\ r.intent.kind = "Publish"
      /\ Arrives(Head(posted).on, r) /\ r.id = Nobody
  BY <1>3, <1>7 DEF Request, Deliver
<1> HIDE DEF r
<1>5. Seen' = Seen /\ beside' = beside
  <2>1. /\ reply' = Answered({Nobody}, "open") \/ reply' = Answered({Nobody}, "Ok")
        /\ beside' = beside
    BY <1>4 DEF Arrives, Begins, IsDoneAtOnce, ReadsBeside, Queues, Joins, Aborts, Skips
  <2> QED
    BY <2>1, TicketsAssumption DEF Answered, Seen
<1>6. \A p \in Objects : Fate(p, r)
  BY <1>1, <1>4, ArrivalDecidesFates DEF Fate
<1> QED
  BY <1>1, <1>4, <1>5, <1>6, OthersKeepOrder DEF Newcomer

\* A step in which nothing arrives.
NoRequest == [id |-> Nobody, intent |-> Publishing]

LEMMA NoRequestType == NoRequest \in Request /\ NoRequest.id = Nobody
  BY DEF NoRequest, Request, Publishing, NoIntent, Intent, Kinds

LEMMA AbandonKeepsOrder ==
    ASSUME OInv, NEW t \in Tickets, Abandon(t)
    PROVE  OInv'
<1>1. IInv /\ IInv'
  BY AbandonKeeps DEF OInv
<1>2. \A p \in Objects : Fate(p, NoRequest)
  BY <1>1, AbandonDecidesFates DEF Fate
<1>3. \E S : /\ S \subseteq Seen \cup {Nobody}
             /\ \A u \in Tickets \ S : reply'[u] = reply[u]
             /\ \A u \in Tickets \cap S : reply'[u] # "new"
  <2>1. PICK o \in Objects : AbandonRider(t, o) \/ AbandonQueued(t, o)
    BY DEF Abandon
  <2>2. t \in Seen
    BY DEF Abandon, Seen
  <2>3. CASE AbandonRider(t, o)
    <3>1. reply' = Answered({t}, "Interrupted")
      BY <2>3 DEF AbandonRider
    <3> QED
      BY <2>2, <3>1 DEF Answered
  <2>4. CASE AbandonQueued(t, o)
    <3>1. PICK freed \in SUBSET Objects :
            reply' = [Answered(UNION {AnsweredOnRelease(p, buffer[p]) : p \in freed}, "Ok")
                               EXCEPT ![t] = "Interrupted"]
      BY <2>4 DEF AbandonQueued, ParkedOn
    <3> DEFINE answered == UNION {AnsweredOnRelease(p, buffer[p]) : p \in freed}
    <3>2. answered \subseteq Seen \cup {Nobody}
      BY AnsweredWereMet
    <3> HIDE DEF answered
    <3>3. \A u \in Tickets : reply'[u] = IF u = t THEN "Interrupted"
                                         ELSE IF u \in answered THEN "Ok" ELSE reply[u]
      BY <3>1 DEF Answered, answered
    <3> DEFINE S == {t} \cup answered
    <3>4. /\ S \subseteq Seen \cup {Nobody}
          /\ \A u \in Tickets \ S : reply'[u] = reply[u]
          /\ \A u \in Tickets \cap S : reply'[u] # "new"
      BY <2>2, <3>2, <3>3
    <3> HIDE DEF S
    <3> QED
      BY <3>4
  <2> QED
    BY <2>1, <2>3, <2>4
<1>4. Seen' = Seen
  BY <1>3, AnsweringTheSeen, TicketsAssumption
<1>5. beside' = beside
  BY DEF Abandon
<1> QED
  BY <1>1, <1>2, <1>4, <1>5, NoRequestType, OthersKeepOrder DEF Newcomer

LEMMA CompletionAnswersTheSeen ==
    ASSUME OInv, NEW o \in Objects, Complete(o)
    PROVE  Seen' = Seen
<1>1. Busy(o) /\ ~Parked(o) /\ IInv
  BY DEF Complete, OInv
<1>2. PICK c \in Completions(flow[o]) :
        Continues(o, c) \/ Commits(o, c) \/ HandsOver(o, c) \/ Ends(o, c)
  BY DEF Complete, Finishes
<1>3. /\ flow[o] \in Flow
      /\ Met(flow[o], queue[o], Seen)
  BY <1>1 DEF OInv, IInv, Healthy
<1>4. After(o, c) \in Move
  BY <1>1, CompletionFacts
<1>5. Moved(flow[o], After(o, c)).waiters \subseteq Seen \cup {Nobody}
  BY <1>3, <1>4, MovedType DEF Met
<1>6. CASE Continues(o, c) \/ HandsOver(o, c)
  BY <1>6 DEF Continues, HandsOver, Seen
<1>7. CASE Commits(o, c)
  <2>1. reply' = reply \/ reply' = Answered(Moved(flow[o], After(o, c)).waiters, "Ok")
    BY <1>7 DEF Commits
  <2> QED
    BY <1>5, <2>1, AnsweringTheSeen, TicketsAssumption DEF Answered
<1>8. CASE Ends(o, c)
  <2> DEFINE m == After(o, c)
             f == Moved(flow[o], m)
  <2>1. PICK freed \in SUBSET Objects :
          reply' = [t \in Tickets |->
                        IF t \in f.waiters THEN IF m.then = "Done" THEN "Ok" ELSE m.why
                        ELSE IF t \in UNION {AnsweredOnRelease(p, BuffersAfter(o, c)[p]) : p \in freed}
                        THEN "Ok" ELSE reply[t]]
    BY <1>8 DEF Ends, ParkedOn
  <2> DEFINE answered == UNION {AnsweredOnRelease(p, BuffersAfter(o, c)[p]) : p \in freed}
  <2>2. answered \subseteq Seen \cup {Nobody}
    BY AnsweredWereMet
  <2>3. m.why # "new"
    BY <1>4 DEF Move, Failures
  <2> HIDE DEF answered, m, f
  <2>4. \A t \in Tickets : reply'[t] =
            IF t \in f.waiters THEN IF m.then = "Done" THEN "Ok" ELSE m.why
            ELSE IF t \in answered THEN "Ok" ELSE reply[t]
    BY <2>1 DEF answered
  <2>5. (f.waiters \cup answered) \cap Tickets \subseteq Seen
    BY <1>5, <2>2, TicketsAssumption DEF f, m
  <2> DEFINE S == f.waiters \cup answered
  <2>6. /\ \A t \in Tickets \ S : reply'[t] = reply[t]
        /\ \A t \in Tickets \cap S : reply'[t] # "new"
        /\ S \cap Tickets \subseteq Seen
    BY <2>3, <2>4, <2>5
  <2> HIDE DEF S
  <2> QED
    BY <2>6, AnsweringTheSeen
<1> QED
  BY <1>2, <1>6, <1>7, <1>8

LEMMA CompleteKeepsOrder ==
    ASSUME OInv, NEW o \in Objects, Complete(o)
    PROVE  OInv'
<1>1. IInv /\ IInv' /\ beside' = beside
  BY CompleteKeeps DEF OInv, Complete, Finishes
<1>2. PICK r \in Request :
               /\ (r.id \in flow[o].waiters /\ r.intent.from = o) \/ r.id = Nobody
               /\ \A p \in Objects : Fate(p, r)
  BY <1>1, CompletionDecidesFates DEF Fate
<1>3. Met(flow[o], queue[o], Seen)
  BY DEF OInv
<1>4. Newcomer(r) /\ r.id \in Seen \cup {Nobody}
  BY <1>2, <1>3, ObjectsAssumption DEF Newcomer, Met
<1> QED
  BY <1>1, <1>2, <1>4, CompletionAnswersTheSeen, OthersKeepOrder

LEMMA CompleteBesideKeepsOrder ==
    ASSUME OInv, CompleteBeside
    PROVE  OInv'
<1>1. IInv /\ IInv'
  BY CompleteBesideKeeps DEF OInv
<1>2. PICK x \in beside, outcome \in Outcomes \ {"Interrupted"} :
        /\ reply' = Answered({x.id}, outcome)
        /\ beside' = beside \ {x}
        /\ UNCHANGED <<flow, queue>>
  BY <1>1, BesideIsAnswered
<1>3. Seen' = Seen
  BY <1>2 DEF Answered, Seen, Outcomes, Failures, OInv
<1>4. \A p \in Objects : Fate(p, NoRequest)
  BY <1>2 DEF Fate, GoesOn, Onward
<1> QED
  BY <1>1, <1>2, <1>3, <1>4, NoRequestType, OthersKeepOrder DEF Newcomer

LEMMA NextKeepsOrder == OInv /\ [Next]_vars => OInv'
<1> SUFFICES ASSUME OInv, [Next]_vars PROVE OInv'
  OBVIOUS
<1>1. ASSUME NEW t \in Tickets, Submit(t) PROVE OInv'
  BY <1>1, SubmitKeepsOrder
<1>2. CASE Deliver
  BY <1>2, DeliverKeepsOrder
<1>3. ASSUME NEW t \in Tickets, Abandon(t) PROVE OInv'
  BY <1>3, AbandonKeepsOrder
<1>4. ASSUME NEW o \in Objects, Complete(o) PROVE OInv'
  BY <1>4, CompleteKeepsOrder
<1>5. CASE CompleteBeside
  BY <1>5, CompleteBesideKeepsOrder
<1>6. CASE Rest \/ UNCHANGED vars
  BY <1>6 DEF Rest, vars, OInv, Seen, IInv, RestOK
<1> QED
  BY <1>1, <1>2, <1>3, <1>4, <1>5, <1>6 DEF Next

\* Requests that change an object run in the order in which they reached the
\* decider (machine.rs request, the Queue arm; settle): what queues is in
\* order, and behind the caller of the change that runs.
THEOREM ChangesRunInOrder == Spec => []OrderOfArrival
<1>1. OInv => OrderOfArrival
  BY DEF OInv, InOrder, OrderOfArrival
<1> QED
  BY <1>1, InitOInv, NextKeepsOrder, PTL DEF Spec

-----------------------------------------------------------------------------
(* Unsent edits. What each step of a script works on: which job goes with   *)
(* which step, on whose object. It is needed of the steps that open, write  *)
(* or discard a buffer, of those that resolve a child, and of a publish     *)
(* past its upload.                                                         *)

Fits(o, k, f) ==
    /\ f.job.op \in {"CreateBuffer", "HydrateBuffer"} =>
          \/ f.step \in {"WritePrepare", "AttrPrepare"} /\ f.job.on = o
          \/ f.step = "MatBuffer"
    /\ f.job.op \in {"WriteBuffer", "TruncateBuffer"} =>
          f.step \in {"WriteBytes", "AttrTruncate"} /\ f.job.on = o
    /\ f.job.op = "DiscardBuffer" =>
          f.job.on = o /\ (k = "Delete" \/ f.step = "PubDiscard")
    /\ f.step \in {"WritePrepare", "AttrPrepare"} =>
          f.job.op \in {"CreateBuffer", "HydrateBuffer"}
    /\ f.step = "MatBuffer" => f.job = Job("CreateBuffer", f.node.id)
    /\ f.step \in {"MatLookup", "RemNode", "MovNode"} => f.job = Job("ReadChild", o)
    /\ f.step = "DelNode" => f.job = Job("ReadNode", o)
    /\ f.step = "PubUpload" => f.job = Job("Upload", o)
    /\ f.step = "PubConflict" => f.job = Job("ResolveConflict", o)
    /\ f.step = "PubNode" => f.node = NoNode
    /\ f.step \in {"RemRemote", "RemBuffer"} => f.node.id = o
    /\ f.step \in {"WritePrepare", "WriteBytes"} => k = "Write"
    /\ f.step \in {"AttrPrepare", "AttrTruncate"} => k = "SetAttr"
    /\ f.step \in {"PubNode", "PubUpload", "PubConflict", "PubRecord", "PubStore",
                   "PubReload", "PubClear", "PubDiscard"} => k = "Publish"
    /\ f.step \in {"MatLookup", "MatBuffer"} => k = "Materialise"
    /\ f.step \in {"DelNode", "RemRemote", "RemBuffer"} => k = "Delete"
    /\ f.step = "RemNode" => k = "Remove"
    /\ f.step = "MovNode" => k = "Move"

\* Where a script comes from when it takes such a step.
Leads(f, c, b, m) ==
    /\ m.step \in {"WritePrepare", "AttrPrepare"} => ~b.open
    /\ m.step \in {"WriteBytes", "AttrTruncate"} =>
          b.open \/ (f.step \in {"WritePrepare", "AttrPrepare"} /\ c.kind # "Failed")
    /\ m.step = "MatBuffer" => /\ f.step = "MatLookup" /\ m.node = c.node
                               /\ "found" \in c.node.is
    /\ m.step = "PubRecord" => f.step = "PubUpload" /\ c.kind = "Uploaded"
    /\ m.step = "PubStore" => f.step = "PubRecord"
    /\ m.step = "PubReload" => f.step = "PubStore"
    /\ m.step = "PubClear" => \/ f.step \in {"PubStore", "PubReload"}
                              \/ f.step = "PubConflict" /\ c.kind # "Failed"
    /\ m.step = "PubDiscard" /\ m.node # NoNode => f.step = "PubClear"

Proper(o, f, c, b, m) ==
    m.then \in {"Do", "AnswerThen"} => Fits(o, f.intent.kind, m) /\ Leads(f, c, b, m)

\* The steps and jobs nothing is said about.
PlainSteps == Steps \ {"WritePrepare", "AttrPrepare", "WriteBytes", "AttrTruncate",
    "MatLookup", "MatBuffer", "RemNode", "MovNode", "DelNode", "RemRemote", "RemBuffer",
    "PubNode", "PubUpload", "PubConflict", "PubRecord", "PubStore", "PubReload", "PubClear",
    "PubDiscard"}
PlainOps == Ops \ {"CreateBuffer", "HydrateBuffer", "WriteBuffer", "TruncateBuffer",
                   "DiscardBuffer"}

LEMMA DoIs ==
    ASSUME NEW f, NEW step, NEW op, NEW on
    PROVE  /\ Do(f, step, op, on).step = step /\ Do(f, step, op, on).job = Job(op, on)
           /\ Do(f, step, op, on).job.op = op /\ Do(f, step, op, on).job.on = on
           /\ Do(f, step, op, on).node = f.node /\ Do(f, step, op, on).then = "Do"
  BY DEF Do, Go, Job

LEMMA PlainIsProper ==
    ASSUME NEW o, NEW f, NEW g, NEW c, NEW b, NEW step \in PlainSteps, NEW op \in PlainOps, NEW on
    PROVE  Proper(o, f, c, b, Do(g, step, op, on))
  BY DoIs DEF Proper, Fits, Leads, PlainSteps, PlainOps

LEMMA EndingIsProper ==
    ASSUME NEW o, NEW f, NEW g, NEW c, NEW b, NEW why, NEW step
    PROVE  /\ Proper(o, f, c, b, Finish(g))
           /\ Proper(o, f, c, b, Fail(g, why))
           /\ Proper(o, f, c, b, Go("Handoff", g, step, NoJob, "None"))
  BY DEF Proper, Finish, Fail, Go

LEMMA FetchIsProper ==
    ASSUME NEW o, NEW f, NEW c, NEW b
    PROVE  Proper(o, f, c, b, FetchNext(o, f, c, b))
<1>1. FetchSource(b, c.node) \in PlainOps /\ "FetchBytes" \in PlainSteps
  BY DEF FetchSource, PlainOps, Ops, PlainSteps, Steps
<1> QED
  BY <1>1, PlainIsProper, EndingIsProper DEF FetchNext

LEMMA LookIsProper ==
    ASSUME NEW o, NEW f, NEW c, NEW b
    PROVE  Proper(o, f, c, b, LookNext(o, f, c))
<1>1. /\ {"ReadChild", "ListRemote"} \subseteq PlainOps
      /\ {"LookChild", "LookRemote"} \subseteq PlainSteps
  BY DEF PlainOps, Ops, PlainSteps, Steps
<1> QED
  BY <1>1, PlainIsProper, EndingIsProper DEF LookNext

LEMMA EnumerateIsProper ==
    ASSUME NEW o, NEW f, NEW c, NEW b
    PROVE  Proper(o, f, c, b, EnumerateNext(o, f, c))
<1>1. /\ {"ReadChildren", "ListRemote"} \subseteq PlainOps
      /\ {"EnumChildren", "EnumRemote"} \subseteq PlainSteps
  BY DEF PlainOps, Ops, PlainSteps, Steps
<1> QED
  BY <1>1, PlainIsProper, EndingIsProper DEF EnumerateNext

LEMMA RefreshIsProper ==
    ASSUME NEW o, NEW f, NEW c, NEW b
    PROVE  Proper(o, f, c, b, RefreshNext(o, f, c))
<1>1. "HydrateCache" \in PlainOps /\ "RefHydrate" \in PlainSteps
  BY DEF PlainOps, Ops, PlainSteps, Steps
<1> QED
  BY <1>1, PlainIsProper, EndingIsProper DEF RefreshNext

LEMMA MoveIsProper ==
    ASSUME NEW o, NEW f, NEW c, NEW b
    PROVE  Proper(o, f, c, b, MoveNext(o, f, c))
<1>1. {"MoveRemote", "MoveRows"} \subseteq PlainOps /\ {"MovRemote", "MovRows"} \subseteq PlainSteps
  BY DEF PlainOps, Ops, PlainSteps, Steps
<1> QED
  BY <1>1, PlainIsProper, EndingIsProper DEF MoveNext

LEMMA WriteIsProper ==
    ASSUME NEW o, NEW f, NEW c, NEW b, f.intent.kind = "Write", c.kind # "Failed"
    PROVE  Proper(o, f, c, b, WriteNext(o, f, c, b))
<1>1. ASSUME NEW g, b.open \/ f.step \in {"WritePrepare", "AttrPrepare"}
      PROVE  Proper(o, f, c, b, Do(g, "WriteBytes", "WriteBuffer", o))
  BY <1>1, DoIs DEF Proper, Fits, Leads
<1>2. ASSUME NEW g, NEW op \in {"HydrateBuffer", "CreateBuffer"}, ~b.open
      PROVE  Proper(o, f, c, b, Do(g, "WritePrepare", op, o))
  BY <1>2, DoIs DEF Proper, Fits, Leads
<1> QED
  BY <1>1, <1>2, EndingIsProper DEF WriteNext

LEMMA SetAttrIsProper ==
    ASSUME NEW o, NEW f, NEW c, NEW b, f.intent.kind = "SetAttr", c.kind # "Failed"
    PROVE  Proper(o, f, c, b, SetAttrNext(o, f, c, b))
<1>1. ASSUME NEW g, b.open \/ f.step \in {"WritePrepare", "AttrPrepare"}
      PROVE  Proper(o, f, c, b, Do(g, "AttrTruncate", "TruncateBuffer", o))
  BY <1>1, DoIs DEF Proper, Fits, Leads
<1>2. ASSUME NEW g, NEW op \in {"HydrateBuffer", "CreateBuffer"}, ~b.open
      PROVE  Proper(o, f, c, b, Do(g, "AttrPrepare", op, o))
  BY <1>2, DoIs DEF Proper, Fits, Leads
<1>3. /\ {"RecordExec", "ReadNode", "RecordMtime"} \subseteq PlainOps
      /\ {"AttrExec", "AttrFinal", "AttrMtime"} \subseteq PlainSteps
  BY DEF PlainOps, Ops, PlainSteps, Steps
<1>4. ASSUME NEW g
      PROVE  Proper(o, f, c, b, ExecOrFinal(o, g)) /\ Proper(o, f, c, b, MtimeOnwards(o, g))
  <2>1. Proper(o, f, c, b, ExecOrFinal(o, g))
    BY <1>3, PlainIsProper DEF ExecOrFinal
  <2> QED
    BY <1>3, <2>1, PlainIsProper DEF MtimeOnwards
<1>5. Proper(o, f, c, b, Do(f, "AttrFinal", "ReadNode", o))
  BY <1>3, PlainIsProper
<1> QED
  BY <1>1, <1>2, <1>4, <1>5, EndingIsProper DEF SetAttrNext

LEMMA MaterialiseIsProper ==
    ASSUME NEW o, NEW f \in Flow, NEW c \in Completion, NEW b, f.intent.kind = "Materialise"
    PROVE  Proper(o, f, c, b, MaterialiseNext(o, f, c))
<1>1. Proper(o, f, c, b, Do(f, "MatLookup", "ReadChild", o))
  BY DoIs DEF Proper, Fits, Leads
<1>2. "MatList" \in PlainSteps /\ "ListRemote" \in PlainOps
  BY DEF PlainOps, Ops, PlainSteps, Steps
<1>3. Proper(o, f, c, b, Do(f, "MatList", "ListRemote", o))
  BY <1>2, PlainIsProper
<1>5. Knowing(f, c.node).node = c.node
  BY KnowingType DEF Completion
<1>4. ASSUME f.step = "MatLookup", "found" \in c.node.is
      PROVE  Proper(o, f, c, b, Do(Knowing(f, c.node), "MatBuffer", "CreateBuffer", c.node.id))
  BY <1>4, <1>5, DoIs DEF Proper, Fits, Leads
<1> QED
  BY <1>1, <1>3, <1>4, EndingIsProper DEF MaterialiseNext

LEMMA PublishIsProper ==
    ASSUME NEW o, NEW f \in Flow, NEW c \in Completion, NEW b, f.intent.kind = "Publish",
           c.kind # "Failed", Fits(o, "Publish", f)
    PROVE  Proper(o, f, c, b, PublishNext(o, f, c))
<1>1. /\ {"MarkPending", "ListRemote"} \subseteq PlainOps
      /\ {"PubCommit"} \subseteq PlainSteps
  BY DEF PlainOps, Ops, PlainSteps, Steps
<1>2. ASSUME NEW g, f.step = "PubNode", g.node = NoNode \/ g.node = f.node
      PROVE  Proper(o, f, c, b, Do(g, "PubDiscard", "DiscardBuffer", o))
  BY <1>2, DoIs DEF Proper, Fits, Leads
<1>3. Proper(o, f, c, b, Go("AnswerThen", f, "PubSize", Job("BufferSize", o), "None"))
  BY DEF Proper, Fits, Leads, Go, Job
<1>4. Proper(o, f, c, b, Do(f, "PubUpload", "Upload", o))
  BY DoIs DEF Proper, Fits, Leads
<1>5. ASSUME NEW g, f.step = "PubUpload", c.kind = "Uploaded"
      PROVE  Proper(o, f, c, b, Do(g, "PubRecord", "RecordVersion", o))
  BY <1>5, DoIs DEF Proper, Fits, Leads
<1>6. Proper(o, f, c, b, Do(f, "PubConflict", "ResolveConflict", o))
  BY DoIs DEF Proper, Fits, Leads
<1>7. f.step = "PubRecord" => Proper(o, f, c, b, Do(f, "PubStore", "StoreBlob", o))
  BY DoIs DEF Proper, Fits, Leads
<1>8. f.step = "PubStore" => Proper(o, f, c, b, Do(f, "PubReload", "ListRemote", f.node.parent))
  BY DoIs DEF Proper, Fits, Leads
<1>9. f.step \in {"PubStore", "PubReload", "PubConflict"}
        => Proper(o, f, c, b, Do(f, "PubClear", "ClearPending", o))
  BY DoIs DEF Proper, Fits, Leads
<1>10. f.step = "PubClear" => Proper(o, f, c, b, Do(f, "PubDiscard", "DiscardBuffer", o))
  BY DoIs DEF Proper, Fits, Leads
<1>11. \A g : Proper(o, f, c, b, Do(g, "PubCommit", "MarkPending", o))
  BY <1>1, PlainIsProper
<1> QED
  BY <1>2, <1>3, <1>4, <1>5, <1>6, <1>7, <1>8, <1>9, <1>10, <1>11, EndingIsProper
  DEF PublishNext

\* What a lookup brings: the row asked for, or none.
Finds(f, c) == /\ f.job.op = "ReadNode" /\ "found" \in c.node.is => c.node.id = f.job.on
               /\ f.job.op = "ReadChild" /\ "found" \in c.node.is =>
                     c.node \in Children(f, f.job.on)
               /\ c.kind = "Uploaded" => f.job.op = "Upload"

LEMMA CompletionsFind ==
    ASSUME NEW f, NEW c \in Completions(f)
    PROVE  Finds(f, c)
<1>1. NoNode.is = {} /\ \A k, n, e, why : Came(k, n, e, why).node = n
  BY DEF NoNode, Came
<1>5. c.kind = "Uploaded" => f.job.op = "Upload"
  BY DEF Completions, Came
<1>2. CASE \E n \in Rows : f.job.op = "ReadNode" /\ n.id = f.job.on /\ c.node = n
  BY <1>2, <1>5 DEF Finds
<1>3. CASE \E n \in Children(f, f.job.on) : f.job.op = "ReadChild" /\ c.node = n
  BY <1>3, <1>5 DEF Finds
<1>4. CASE c.node = NoNode
  BY <1>1, <1>4, <1>5 DEF Finds
<1> QED
  BY <1>1, <1>2, <1>3, <1>4 DEF Completions

LEMMA RemoveIsProper ==
    ASSUME NEW o, NEW f \in Flow, NEW c \in Completion, NEW b, Fits(o, f.intent.kind, f),
           Finds(f, c)
    PROVE  Proper(o, f, c, b, RemoveNext(o, f, c))
<1>1. Knowing(f, c.node).node = c.node
  BY KnowingType DEF Completion
<1>2. ASSUME f.step = "DelNode", "found" \in c.node.is
      PROVE  c.node.id = o /\ f.intent.kind = "Delete"
  BY <1>2 DEF Fits, Finds, Job
<1>3. ASSUME f.step = "DelNode", "found" \in c.node.is
      PROVE  /\ Proper(o, f, c, b, Do(Knowing(f, c.node), "RemRemote", "DeleteRemote", o))
             /\ Proper(o, f, c, b, Do(Knowing(f, c.node), "RemBuffer", "DiscardBuffer", o))
  BY <1>1, <1>2, <1>3, DoIs DEF Proper, Fits, Leads
<1>4. f.step = "RemRemote" => Proper(o, f, c, b, Do(f, "RemBuffer", "DiscardBuffer", f.node.id))
  BY DoIs DEF Proper, Fits, Leads
<1>5. "RemRows" \in PlainSteps /\ "RemoveRows" \in PlainOps
  BY DEF PlainOps, Ops, PlainSteps, Steps
<1>6. Proper(o, f, c, b, Do(f, "RemRows", "RemoveRows", f.node.id))
  BY <1>5, PlainIsProper
<1> QED
  BY <1>3, <1>4, <1>6, EndingIsProper DEF RemoveNext

LEMMA FailureIsProper ==
    ASSUME NEW o, NEW f, NEW c, NEW b, NEW why
    PROVE  Proper(o, f, c, b, AfterFailure(o, f, why))
<1>1. /\ {"RemoveRows", "SetUploadError"} \subseteq PlainOps
      /\ {"FetchPrune", "PubError"} \subseteq PlainSteps
  BY DEF PlainOps, Ops, PlainSteps, Steps
<1> QED
  BY <1>1, PlainIsProper, EndingIsProper DEF AfterFailure

LEMMA AdvanceIsProper ==
    ASSUME NEW o, NEW f \in Flow, NEW c \in Completion, NEW b, Fits(o, f.intent.kind, f),
           Finds(f, c)
    PROVE  Proper(o, f, c, b, Advance(o, f, c, b))
<1>1. Proper(o, f, c, b, Go("Abandoned", f, f.step, NoJob, "Interrupted"))
  BY DEF Proper, Go
<1>2. Proper(o, f, c, b, AfterFailure(o, f, c.why))
  BY FailureIsProper
<1>3. ASSUME c.kind # "Failed"
      PROVE  Proper(o, f, c, b, AfterSuccess(o, f, c, b))
  BY <1>3, FetchIsProper, LookIsProper, EnumerateIsProper, RefreshIsProper, MoveIsProper,
     WriteIsProper, SetAttrIsProper, MaterialiseIsProper, PublishIsProper, RemoveIsProper,
     EndingIsProper
  DEF AfterSuccess
<1> QED
  BY <1>1, <1>2, <1>3 DEF Advance

LEMMA StartFits ==
    ASSUME NEW o, NEW i \in Intent, NEW w, NEW b \in Buffer
    PROVE  /\ Fits(o, i.kind, Start(o, i, w, b))
           /\ Start(o, i, w, b).step \notin {"MatLookup", "MatBuffer", "WritePrepare", "AttrPrepare",
                  "WriteBytes", "AttrTruncate", "PubRecord", "PubStore", "PubReload", "PubClear"}
           /\ Start(o, i, w, b).node = NoNode
<1> DEFINE s == Start(o, i, w, b)
<1>1. /\ s.step = OpensWith(i, b)[1] /\ s.job.op = OpensWith(i, b)[2] /\ s.job.on = o
      /\ s.job = Job(OpensWith(i, b)[2], o) /\ s.node = NoNode
  BY DEF Start, Job
<1> HIDE DEF s
<1>2. i.kind \in Kinds
  BY DEF Intent
<1>3. Fits(o, i.kind, s)
  BY <1>1, <1>2 DEF OpensWith, Fits, Kinds
<1>4. s.step \notin {"MatLookup", "MatBuffer", "WritePrepare", "AttrPrepare",
                  "WriteBytes", "AttrTruncate", "PubRecord", "PubStore", "PubReload", "PubClear"}
  BY <1>1, <1>2 DEF OpensWith, Kinds
<1> QED
  BY <1>1, <1>3, <1>4 DEF s

\* What a step that is under way knows of its object's buffer, and of the edit
\* in it that the server has not got (`mine`).
Timely(f, b, mine) ==
    /\ f.step \in {"WritePrepare", "AttrPrepare"} => ~b.open
    /\ f.step \in {"WriteBytes", "AttrTruncate"} => b.open
    /\ f.step \in {"PubRecord", "PubStore", "PubReload", "PubClear"} => ~mine
    /\ f.step = "PubDiscard" /\ f.node # NoNode => ~mine

\* While a file is being created nobody has opened it, and only what its
\* parents pass on can reach it.
Late == {"Publish", "Delete", "Relocate"}
Newborn(x) ==
    /\ ~buffer[x].open
    /\ Busy(x) => flow[x].intent.kind \in {"Delete", "Relocate"}
    /\ \A k \in DOMAIN queue[x] : queue[x][k].intent.kind \in Late

Creates(p, x) == flow[p].step = "MatBuffer" /\ flow[p].node.id = x

CreationsApart ==
    /\ \A p \in Objects : flow[p].step = "MatBuffer" => flow[p].node.id \in Objects \ {p}
    /\ \A p, q, x \in Objects : Creates(p, x) /\ Creates(q, x) => p = q
    /\ \A p, x \in Objects : Creates(p, x) => Newborn(x)

InScript(o) == /\ Fits(o, flow[o].intent.kind, flow[o])
               /\ Timely(flow[o], buffer[o], o \in unsent)

EInv == /\ IInv
        /\ unsent \subseteq Objects
        /\ EditsKept
        /\ CreationsApart
        /\ \A o \in Objects : InScript(o)

TimedSteps == {"WritePrepare", "AttrPrepare", "WriteBytes", "AttrTruncate",
               "MatLookup", "MatBuffer", "PubRecord", "PubStore", "PubReload", "PubClear"}

\* A flow that did not move, or that starts.
Fresh(p) == /\ Fits(p, flow'[p].intent.kind, flow'[p])
            /\ flow'[p].step \notin TimedSteps /\ flow'[p].node = NoNode
Calm(p) == \/ SameStep(p) /\ flow'[p].intent = flow[p].intent
           \/ Fresh(p)

LEMMA IdleFits ==
    ASSUME NEW o
    PROVE  /\ Fits(o, IdleFlow.intent.kind, IdleFlow)
           /\ IdleFlow.step \notin TimedSteps /\ IdleFlow.node = NoNode
<1>1. IdleFlow.step = "Idle" /\ IdleFlow.job.op = "None" /\ IdleFlow.node = NoNode
  BY DEF IdleFlow, NoJob, Job
<1> QED
  BY <1>1 DEF Fits, TimedSteps

LEMMA StartsAreFresh ==
    ASSUME NEW p \in Objects
    PROVE  /\ flow'[p] = IdleFlow => Fresh(p)
           /\ \A x \in Request : StartsWith(p, x) => Fresh(p)
<1>1. flow'[p] = IdleFlow => Fresh(p)
  BY IdleFits DEF Fresh
<1>2. ASSUME NEW x \in Request, StartsWith(p, x)
      PROVE  Fresh(p)
  <2>1. PICK b \in Buffer : flow'[p] = Start(p, x.intent, x.id, b)
    BY <1>2 DEF StartsWith
  <2>2. x.intent \in Intent
    BY DEF Request
  <2>3. flow'[p].intent = x.intent
    BY <2>1 DEF Start
  <2> QED
    BY <2>1, <2>2, <2>3, StartFits DEF Fresh, TimedSteps
<1> QED
  BY <1>1, <1>2

LEMMA FreedIsFresh ==
    ASSUME IInv, NEW p \in Objects, NEW b \in Buffer, Freed(p, b)
    PROVE  Fresh(p)
<1>1. TypeOK
  BY IInvSaysSo
<1>2. CASE NeedsAJob(p, b) = {}
  BY <1>2, StartsAreFresh DEF Freed, FlowReleased
<1>3. CASE NeedsAJob(p, b) # {}
  <2>1. PICK x \in Request : flow'[p] = Start(p, x.intent, x.id, b)
    BY <1>1, <1>3, ReleasingShifts DEF Freed
  <2>2. x.intent \in Intent /\ flow'[p].intent = x.intent
    BY <2>1 DEF Request, Start
  <2> QED
    BY <2>1, <2>2, StartFits DEF Fresh, TimedSteps
<1> QED
  BY <1>2, <1>3

LEMMA BystandersAreCalm ==
    ASSUME IInv, IInv', NEW p \in Objects, NEW r \in Request, Bystands(p, r)
    PROVE  Calm(p)
<1>1. flow[p] \in Flow
  BY DEF IInv, Healthy
<1>2. CASE Onward(p) /\ SameStep(p)
  BY <1>2 DEF Calm, Onward
<1>3. CASE Joined(p, r)
  BY <1>1, <1>3 DEF Joined, Calm, SameStep, Flow
<1> QED
  BY <1>2, <1>3, StartsAreFresh, BystandersStartMembers DEF Calm

LEMMA NewbornsStaySo ==
    ASSUME IInv, IInv', NEW x \in Objects, Newborn(x), NEW r \in Request, Bystands(x, r),
           r.intent.kind \in Late, ~buffer'[x].open
    PROVE  Newborn(x)'
<1>1. \A k \in DOMAIN queue'[x] : queue'[x][k].intent.kind \in Late
  BY FatesKeepMembers DEF Newborn, Fate
<1>2. CASE Onward(x) /\ SameStep(x)
  BY <1>1, <1>2 DEF Newborn, Onward, SameStep, Busy
<1>3. CASE Joined(x, r)
  BY <1>3 DEF Joined, Newborn
<1>4. CASE flow'[x] = IdleFlow
  <2>1. flow'[x].step = "Idle"
    BY <1>4 DEF IdleFlow
  <2> QED
    BY <1>1, <2>1 DEF Newborn, Busy
<1>5. ASSUME NEW s \in Request, StartsWith(x, s),
             s = r \/ \E k \in DOMAIN queue[x] : s = queue[x][k]
      PROVE  Newborn(x)'
  <2>1. s.intent.kind \in Late
    BY <1>5 DEF Newborn
  <2>2. s.intent.kind # "Publish" /\ flow'[x].intent = s.intent
    BY <1>5 DEF StartsWith, AtOnce, Newborn, Start
  <2> QED
    BY <1>1, <2>1, <2>2 DEF Newborn, Late
<1> QED
  BY <1>2, <1>3, <1>4, <1>5, BystandersStartMembers

\* Nothing of a creation begins with a flow that did not move or starts.
LEMMA CalmCreatesNothing ==
    ASSUME NEW p \in Objects, Calm(p), flow'[p].step = "MatBuffer"
    PROVE  flow[p].step = "MatBuffer" /\ flow'[p].node = flow[p].node
  BY DEF Calm, Fresh, SameStep, TimedSteps

LEMMA FreshIsInScript ==
    ASSUME NEW p \in Objects, Fresh(p)
    PROVE  InScript(p)'
  BY DEF InScript, Timely, TimedSteps, Fresh

LEMMA CalmStaysInScript ==
    ASSUME NEW p \in Objects, InScript(p), Calm(p),
           flow[p].step \in TimedSteps \cup {"PubDiscard"} =>
               buffer'[p].open = buffer[p].open /\ (p \in unsent' => p \in unsent)
    PROVE  InScript(p)'
<1>1. CASE SameStep(p) /\ flow'[p].intent = flow[p].intent
  BY <1>1 DEF InScript, Fits, Timely, SameStep, TimedSteps
<1> QED
  BY <1>1, FreshIsInScript DEF Calm

LEMMA QuietStepsKeepEdits ==
    ASSUME EInv, IInv', buffer' = buffer, unsent' = unsent,
           \A p \in Objects : \E r \in Request :
              Bystands(p, r) /\ (BeingCreated(p) => r.intent.kind \in Late)
    PROVE  EInv'
<1>1. \A p \in Objects : Calm(p)
  BY BystandersAreCalm DEF EInv
<1>2. \A p \in Objects : InScript(p)'
  BY <1>1, CalmStaysInScript DEF EInv
<1>3. \A p, x \in Objects : Creates(p, x)' => Creates(p, x)
  BY <1>1, CalmCreatesNothing DEF Creates
<1>4. \A p \in Objects : flow'[p].step = "MatBuffer" => flow'[p].node.id \in Objects \ {p}
  BY <1>1, CalmCreatesNothing DEF EInv, CreationsApart
<1>5. ASSUME NEW p \in Objects, NEW x \in Objects, Creates(p, x)'
      PROVE  Newborn(x)'
  <2>1. Newborn(x) /\ BeingCreated(x)
    BY <1>3, <1>5 DEF EInv, CreationsApart, BeingCreated, Creates
  <2>2. PICK r \in Request : Bystands(x, r) /\ r.intent.kind \in Late
    BY <2>1
  <2>3. ~buffer'[x].open
    BY <2>1 DEF Newborn
  <2> QED
    BY <2>1, <2>2, <2>3, NewbornsStaySo DEF EInv
<1>6. CreationsApart'
  BY <1>3, <1>4, <1>5 DEF CreationsApart, EInv
<1> QED
  BY <1>2, <1>6 DEF EInv, EditsKept

\* What a completed job does to the buffers, and to the edits in them.
BufferStep(o, c) == buffer' = BuffersAfter(o, c) /\ unsent' = UnsentAfter(o, c)

LEMMA ElsewhereNothingChanges ==
    ASSUME IInv, NEW o \in Objects, NEW c, BufferStep(o, c), NEW x \in Objects, x # flow[o].job.on
    PROVE  buffer'[x] = buffer[x] /\ (x \in unsent' <=> x \in unsent)
<1>1. buffer'[x] = buffer[x]
  BY DEF BufferStep, BuffersAfter
<1>2. x \in unsent' <=> x \in unsent
  BY DEF BufferStep, UnsentAfter
<1> QED
  BY <1>1, <1>2

LEMMA FailuresChangeNothing ==
    ASSUME IInv, NEW o \in Objects, NEW c, BufferStep(o, c), c.kind = "Failed"
    PROVE  unsent' = unsent /\ \A x \in Objects : buffer'[x] = buffer[x]
  BY DEF BufferStep, UnsentAfter, BuffersAfter

\* Made: by a write, a truncation or a creation, in a buffer that is open then.
LEMMA EditsAreMadeInOpenBuffers ==
    ASSUME EInv, NEW o \in Objects, NEW c, BufferStep(o, c), c.kind # "Failed",
           NEW x \in Objects, x = flow[o].job.on,
           \/ flow[o].job.op \in {"WriteBuffer", "TruncateBuffer"}
           \/ flow[o].step = "MatBuffer"
    PROVE  buffer'[x].open /\ buffer'[x].dirty
<1>1. /\ Fits(o, flow[o].intent.kind, flow[o]) /\ Timely(flow[o], buffer[o], o \in unsent)
      /\ buffer[x] \in Buffer
  BY DEF EInv, InScript, IInv, RestOK
<1>2. buffer'[x] = BufferAfter(flow[o], buffer[x])
  BY DEF BufferStep, BuffersAfter
<1>3. CASE flow[o].job.op \in {"WriteBuffer", "TruncateBuffer"}
  <2>1. x = o /\ buffer[x].open
    BY <1>1, <1>3 DEF Fits, Timely
  <2> QED
    BY <1>1, <1>2, <1>3, <2>1 DEF BufferAfter, Buffer
<1>4. CASE flow[o].step = "MatBuffer"
  <2>1. flow[o].job.op = "CreateBuffer" /\ flow[o].intent.kind = "Materialise"
    BY <1>1, <1>4 DEF Fits, Job
  <2>2. BufferAfter(flow[o], buffer[x]) = Opened(flow[o])
    BY <2>1 DEF BufferAfter
  <2>3. Opened(flow[o]).open /\ Opened(flow[o]).dirty
    BY <2>1 DEF Opened
  <2> QED
    BY <1>2, <2>2, <2>3
<1> QED
  BY <1>3, <1>4

\* Any other job leaves no edit in a buffer it closes or takes for clean.
LEMMA EditsSurviveOtherJobs ==
    ASSUME EInv, NEW o \in Objects, NEW c, BufferStep(o, c), c.kind # "Failed",
           NEW x \in Objects, x = flow[o].job.on,
           flow[o].job.op \notin {"WriteBuffer", "TruncateBuffer"},
           flow[o].step # "MatBuffer"
    PROVE  /\ x \in unsent' => x \in unsent
           /\ x \in unsent' => buffer'[x].open /\ buffer'[x].dirty
           /\ buffer'[x].open => \/ buffer[x].open
                                 \/ x = o /\ flow[o].step \in {"WritePrepare", "AttrPrepare"}
           /\ x # o => buffer'[x].open = buffer[x].open
<1>1. /\ Fits(o, flow[o].intent.kind, flow[o]) /\ Timely(flow[o], buffer[o], o \in unsent)
      /\ buffer[x] \in Buffer
      /\ x \in unsent => buffer[x].open /\ buffer[x].dirty
  BY DEF EInv, InScript, IInv, RestOK, EditsKept
<1>2. buffer'[x] = BufferAfter(flow[o], buffer[x])
  BY DEF BufferStep, BuffersAfter
<1>3. x \in unsent' => x \in unsent
  BY DEF BufferStep, UnsentAfter
<1>4. CASE flow[o].job.op \in {"CreateBuffer", "HydrateBuffer"}
  <2>1. x = o /\ flow[o].step \in {"WritePrepare", "AttrPrepare"} /\ ~buffer[x].open
    BY <1>1, <1>4 DEF Fits, Timely
  <2> QED
    BY <1>1, <1>3, <2>1
<1>5. CASE flow[o].job.op = "DiscardBuffer"
  <2>1. x = o /\ (flow[o].intent.kind = "Delete" \/ flow[o].step = "PubDiscard")
    BY <1>1, <1>5 DEF Fits
  <2>2. ~buffer'[x].open
    BY <1>2, <1>5 DEF BufferAfter, NoBuffer
  <2>3. x \notin unsent'
    <3>1. CASE flow[o].intent.kind = "Delete"
      BY <1>5, <3>1 DEF BufferStep, UnsentAfter
    <3>2. CASE flow[o].step = "PubDiscard" /\ flow[o].node = NoNode /\ buffer[o].dirty
      BY <1>5, <3>2 DEF BufferStep, UnsentAfter
    <3>3. CASE flow[o].step = "PubDiscard" /\ flow[o].node = NoNode /\ ~buffer[o].dirty
      BY <1>1, <1>3, <2>1, <3>3
    <3>4. CASE flow[o].step = "PubDiscard" /\ flow[o].node # NoNode
      BY <1>1, <1>3, <2>1, <3>4 DEF Timely
    <3> QED
      BY <2>1, <3>1, <3>2, <3>3, <3>4
  <2> QED
    BY <2>1, <2>2, <2>3
<1>6. CASE flow[o].job.op \notin {"CreateBuffer", "HydrateBuffer", "DiscardBuffer"}
  <2>1. buffer'[x].open = buffer[x].open /\ buffer'[x].dirty = buffer[x].dirty
    <3>1. buffer'[x] \in {buffer[x], [buffer[x] EXCEPT !.mtime = TRUE],
                         [buffer[x] EXCEPT !.base = flow[o].etag]}
      BY <1>2, <1>6 DEF BufferAfter
    <3> QED
      BY <1>1, <3>1 DEF Buffer
  <2> QED
    BY <1>1, <1>3, <2>1
<1> QED
  BY <1>4, <1>5, <1>6

LEMMA CompletionsKeepEdits ==
    ASSUME EInv, NEW o \in Objects, NEW c, BufferStep(o, c)
    PROVE  EditsKept' /\ unsent' \subseteq Objects
<1>1. /\ Fits(o, flow[o].intent.kind, flow[o]) /\ IInv /\ unsent \subseteq Objects
      /\ flow[o].step = "MatBuffer" => flow[o].node.id \in Objects
  BY DEF EInv, InScript, CreationsApart
<1>2. ASSUME NEW x \in unsent'
      PROVE  x \in Objects
  <2>1. x \in unsent \/ (x = flow[o].job.on /\ (\/ flow[o].job.op \in {"WriteBuffer", "TruncateBuffer"}
                                                \/ flow[o].step = "MatBuffer"))
    BY <1>2 DEF BufferStep, UnsentAfter
  <2>2. flow[o].job.op \in {"WriteBuffer", "TruncateBuffer"} => flow[o].job.on = o
    BY <1>1 DEF Fits
  <2>3. flow[o].step = "MatBuffer" => flow[o].job.on = flow[o].node.id
    BY <1>1 DEF Fits, Job
  <2> QED
    BY <1>1, <2>1, <2>2, <2>3
<1>3. ASSUME NEW x \in unsent'
      PROVE  buffer'[x].open /\ buffer'[x].dirty
  <2>1. x \in Objects
    BY <1>2
  <2>2. x \in unsent => buffer[x].open /\ buffer[x].dirty
    BY DEF EInv, EditsKept
  <2>3. CASE x # flow[o].job.on
    BY <1>1, <2>1, <2>2, <2>3, ElsewhereNothingChanges
  <2>4. CASE c.kind = "Failed"
    BY <1>1, <2>1, <2>2, <2>4, FailuresChangeNothing
  <2>5. CASE x = flow[o].job.on /\ c.kind # "Failed"
    BY <2>1, <2>5, EditsAreMadeInOpenBuffers, EditsSurviveOtherJobs
  <2> QED
    BY <2>3, <2>4, <2>5
<1> QED
  BY <1>2, <1>3 DEF EditsKept

\* Other objects notice only if their file is the one being created.
LEMMA OthersBuffersStay ==
    ASSUME EInv, NEW o \in Objects, NEW c, BufferStep(o, c), NEW x \in Objects, x # o,
           ~Creates(o, x)
    PROVE  buffer'[x].open = buffer[x].open /\ (x \in unsent' => x \in unsent)
<1>1. Fits(o, flow[o].intent.kind, flow[o]) /\ IInv
  BY DEF EInv, InScript
<1>2. CASE x # flow[o].job.on
  BY <1>1, <1>2, ElsewhereNothingChanges
<1>3. CASE c.kind = "Failed"
  BY <1>1, <1>3, FailuresChangeNothing
<1>4. CASE x = flow[o].job.on /\ c.kind # "Failed"
  <2>1. flow[o].job.op \notin {"WriteBuffer", "TruncateBuffer"}
    BY <1>1, <1>4 DEF Fits
  <2>2. flow[o].step # "MatBuffer"
    BY <1>1, <1>4 DEF Fits, Creates, Job
  <2> QED
    BY <1>4, <2>1, <2>2, EditsSurviveOtherJobs
<1> QED
  BY <1>2, <1>3, <1>4

\* A publish whose edit the server has.
Reached(f, c) == \/ f.step \in {"PubRecord", "PubStore", "PubReload", "PubClear"}
                 \/ f.step = "PubUpload" /\ c.kind = "Uploaded"
                 \/ f.step = "PubConflict" /\ c.kind # "Failed"

\* The object's own buffer, as the next step of its script finds it.
LEMMA OwnBufferIsReady ==
    ASSUME EInv, NEW o \in Objects, NEW c, BufferStep(o, c), Finds(flow[o], c)
    PROVE  /\ flow[o].step \in {"WritePrepare", "AttrPrepare"} /\ c.kind # "Failed"
                 /\ flow[o].job.on = o => buffer'[o].open
           /\ Reached(flow[o], c) => o \notin unsent'
           /\ flow[o].step = "MatLookup" => unsent' = unsent /\ \A x \in Objects : buffer'[x] = buffer[x]
           /\ flow[o].intent.kind \in {"Delete", "Relocate"} /\ ~buffer[o].open => ~buffer'[o].open
<1>1. /\ Fits(o, flow[o].intent.kind, flow[o]) /\ Timely(flow[o], buffer[o], o \in unsent)
      /\ IInv /\ buffer[o] \in Buffer
  BY DEF EInv, InScript, IInv, RestOK
<1>2. ASSUME flow[o].step \in {"WritePrepare", "AttrPrepare"}, c.kind # "Failed", flow[o].job.on = o
      PROVE  buffer'[o].open
  <2>1. flow[o].job.op \in {"CreateBuffer", "HydrateBuffer"}
    BY <1>1, <1>2 DEF Fits
  <2>2. buffer'[o] = BufferAfter(flow[o], buffer[o])
    BY <1>2 DEF BufferStep, BuffersAfter
  <2> QED
    BY <2>1, <2>2 DEF BufferAfter, Opened
<1>3. ASSUME Reached(flow[o], c)
      PROVE  o \notin unsent'
  <2>1. /\ flow[o].job.op \notin {"WriteBuffer", "TruncateBuffer"} /\ flow[o].step # "MatBuffer"
    BY <1>1, <1>3 DEF Fits, Reached
  <2>2. CASE flow[o].step \in {"PubRecord", "PubStore", "PubReload", "PubClear"}
    BY <1>1, <2>1, <2>2 DEF Timely, BufferStep, UnsentAfter
  <2>3. CASE flow[o].step = "PubUpload" /\ c.kind = "Uploaded"
    <3>1. flow[o].job.on = o
      BY <1>1, <2>3 DEF Fits, Job
    <3> QED
      BY <2>1, <2>3, <3>1 DEF BufferStep, UnsentAfter
  <2>4. CASE flow[o].step = "PubConflict" /\ c.kind # "Failed"
    <3>1. flow[o].job.on = o /\ flow[o].job.op = "ResolveConflict"
      BY <1>1, <2>4 DEF Fits, Job
    <3> QED
      BY <2>1, <2>4, <3>1 DEF BufferStep, UnsentAfter
  <2> QED
    BY <1>3, <2>2, <2>3, <2>4 DEF Reached
<1>4. ASSUME flow[o].step = "MatLookup"
      PROVE  unsent' = unsent /\ \A x \in Objects : buffer'[x] = buffer[x]
  <2>1. flow[o].job.op = "ReadChild" /\ flow[o].intent.kind = "Materialise"
    BY <1>1, <1>4 DEF Fits, Job
  <2>2. BufferAfter(flow[o], buffer[flow[o].job.on]) = buffer[flow[o].job.on]
    BY <2>1 DEF BufferAfter
  <2>3. \A x \in Objects : buffer'[x] = buffer[x]
    BY <2>2 DEF BufferStep, BuffersAfter
  <2>4. unsent' = unsent
    BY <1>4, <2>1 DEF BufferStep, UnsentAfter, Finds
  <2> QED
    BY <2>3, <2>4
<1>5. ASSUME flow[o].intent.kind \in {"Delete", "Relocate"}, ~buffer[o].open
      PROVE  ~buffer'[o].open
  <2>1. /\ flow[o].step \notin {"WritePrepare", "AttrPrepare", "WriteBytes", "AttrTruncate", "MatBuffer"}
        /\ flow[o].job.op \notin {"CreateBuffer", "HydrateBuffer"}
    BY <1>1, <1>5 DEF Fits
  <2>2. buffer'[o] = buffer[o] \/ buffer'[o] = BufferAfter(flow[o], buffer[o])
    BY DEF BufferStep, BuffersAfter
  <2>3. ~BufferAfter(flow[o], buffer[o]).open
    BY <1>1, <1>5, <2>1 DEF BufferAfter, Buffer, NoBuffer
  <2> QED
    BY <1>5, <2>2, <2>3
<1> QED
  BY <1>2, <1>3, <1>4, <1>5

LEMMA ArrivalsKeepEdits ==
    ASSUME EInv, IInv', NEW o \in Objects, NEW r \in Request, Arrives(o, r),
           BeingCreated(o) => r.intent.kind \in Late,
           UNCHANGED <<buffer, unsent>>
    PROVE  EInv'
<1>1. /\ \A p \in Objects : Bystands(p, r)
      /\ \A p \in Objects \ {o} : Untouched(p)
  BY ArrivalDecidesFates, ArrivalTouchesOne DEF EInv
<1>2. \A p \in Objects \ {o} : Bystands(p, NoRequest)
  BY <1>1 DEF Untouched, Bystands, Onward, SameStep
<1>3. NoRequest \in Request /\ NoRequest.intent.kind \in Late
  BY NoRequestType DEF NoRequest, Publishing, Late, NoIntent
<1> QED
  BY <1>1, <1>2, <1>3, QuietStepsKeepEdits

LEMMA SubmitKeepsEdits ==
    ASSUME EInv, NEW t \in Tickets, Submit(t)
    PROVE  EInv'
<1>1. PICK a \in Asks : Receives(t, a)
  BY DEF Submit
<1> DEFINE r == [id |-> t, intent |-> a.intent]
<1>2. /\ Arrives(a.on, r) /\ ~BeingCreated(a.on) /\ UNCHANGED <<buffer, unsent>>
      /\ a.on \in Objects /\ r \in Request
  BY <1>1, AsksAssumption DEF Receives, Request
<1>3. IInv'
  BY SubmitKeeps DEF EInv
<1> HIDE DEF r
<1> QED
  BY <1>2, <1>3, ArrivalsKeepEdits

LEMMA DeliverKeepsEdits ==
    ASSUME EInv, Deliver
    PROVE  EInv'
<1>1. IInv /\ IInv'
  BY DeliverKeeps DEF EInv
<1>2. posted \in Seq([on : Objects, intent : {Publishing}]) /\ posted # <<>>
  BY <1>1 DEF Deliver, IInv, RestOK
<1>3. Publishing \in Intent /\ Publishing.kind = "Publish"
  BY DEF Publishing, NoIntent, Intent, Kinds
<1> DEFINE r == [id |-> Nobody, intent |-> Head(posted).intent]
<1>4. Head(posted) \in [on : Objects, intent : {Publishing}]
  BY <1>2, HeadAndTail
<1>5. /\ Head(posted).on \in Objects /\ r \in Request /\ r.intent.kind \in Late
      /\ Arrives(Head(posted).on, r) /\ UNCHANGED <<buffer, unsent>>
  BY <1>3, <1>4 DEF Request, Deliver, Late
<1> HIDE DEF r
<1> QED
  BY <1>1, <1>5, ArrivalsKeepEdits

LEMMA AbandonKeepsEdits ==
    ASSUME EInv, NEW t \in Tickets, Abandon(t)
    PROVE  EInv'
<1>1. IInv /\ IInv' /\ UNCHANGED <<buffer, unsent>>
  BY AbandonKeeps DEF EInv, Abandon
<1>2. NoRequest \in Request /\ NoRequest.intent.kind \in Late
  BY NoRequestType DEF NoRequest, Publishing, Late, NoIntent
<1>3. \A p \in Objects : Bystands(p, NoRequest)
  BY <1>1, AbandonDecidesFates
<1> QED
  BY <1>1, <1>2, <1>3, QuietStepsKeepEdits

LEMMA CompleteBesideKeepsEdits ==
    ASSUME EInv, CompleteBeside
    PROVE  EInv'
<1>1. IInv /\ IInv' /\ UNCHANGED <<flow, queue, buffer, unsent>>
  BY CompleteBesideKeeps DEF EInv, CompleteBeside
<1>2. NoRequest \in Request /\ NoRequest.intent.kind \in Late
  BY NoRequestType DEF NoRequest, Publishing, Late, NoIntent
<1>3. \A p \in Objects : Bystands(p, NoRequest)
  BY <1>1 DEF Bystands, Onward, SameStep
<1> QED
  BY <1>1, <1>2, <1>3, QuietStepsKeepEdits

\* The object whose job came back goes on to the step its script names, or is
\* freed.
GoesTo(o, m) == /\ flow'[o].intent = flow[o].intent /\ flow'[o].step = m.step
                /\ flow'[o].job = m.job /\ flow'[o].node = m.node

LEMMA TheMoverGoesOnOrIsFreed ==
    ASSUME IInv, NEW o \in Objects, Busy(o), ~Parked(o), NEW c \in Completions(flow[o]),
           Finishes(o, c)
    PROVE  \/ Freed(o, buffer'[o])
           \/ /\ After(o, c).then \in {"Do", "AnswerThen", "Handoff"}
              /\ GoesTo(o, After(o, c))
<1>1. /\ flow = [q \in Objects |-> flow[q]] /\ flow[o] \in Flow
      /\ buffer' = BuffersAfter(o, c)
  BY DEF IInv, RestOK, Healthy, Finishes
<1>2. After(o, c) \in Move
  BY CompletionFacts
<1> DEFINE moved == Moved(flow[o], After(o, c))
<1>3. /\ moved \in Flow
      /\ moved.intent = flow[o].intent /\ moved.step = After(o, c).step
      /\ moved.job = After(o, c).job /\ moved.node = After(o, c).node
  BY <1>1, <1>2, MovedType
<1> HIDE DEF moved
<1>4. /\ [moved EXCEPT !.waiters = {}].intent = moved.intent
      /\ [moved EXCEPT !.waiters = {}].step = moved.step
      /\ [moved EXCEPT !.waiters = {}].job = moved.job
      /\ [moved EXCEPT !.waiters = {}].node = moved.node
  BY <1>3 DEF Flow
<1>5. CASE Ends(o, c)
  BY <1>1, <1>5 DEF Ends, Freed
<1>6. CASE Continues(o, c) \/ Commits(o, c) \/ HandsOver(o, c)
  <2>1. After(o, c).then \in {"Do", "AnswerThen", "Handoff"}
    BY <1>6 DEF Continues, Commits, HandsOver
  <2>2. flow'[o] = moved \/ flow'[o] = [moved EXCEPT !.waiters = {}]
    BY <1>1, <1>6 DEF Continues, Commits, HandsOver, moved
  <2> QED
    BY <1>3, <1>4, <2>1, <2>2 DEF GoesTo
<1> QED
  BY <1>5, <1>6 DEF Finishes

LEMMA TheMoverStaysInScript ==
    ASSUME EInv, NEW o \in Objects, Busy(o), ~Parked(o), NEW c \in Completions(flow[o]),
           Finishes(o, c), GoesTo(o, After(o, c)),
           After(o, c).then \in {"Do", "AnswerThen", "Handoff"}
    PROVE  /\ InScript(o)'
           /\ flow'[o].step = "MatBuffer" =>
                 /\ flow[o].step = "MatLookup" /\ After(o, c).then # "Handoff"
                 /\ flow'[o].node \in Children(flow[o], o)
<1> DEFINE m == After(o, c)
           b == buffer'[o]
<1>1. /\ IInv /\ flow[o] \in Flow /\ c \in Completion /\ Finds(flow[o], c)
      /\ Fits(o, flow[o].intent.kind, flow[o]) /\ Timely(flow[o], buffer[o], o \in unsent)
      /\ BufferStep(o, c)
  BY CompletionsType, CompletionsFind DEF EInv, InScript, IInv, Healthy, BufferStep, Finishes
<1>2. Proper(o, flow[o], c, b, m)
  <2>1. m = Advance(o, flow[o], c, b)
    BY <1>1 DEF After, BufferStep
  <2> QED
    BY <1>1, <2>1, AdvanceIsProper
<1>3. ~flow[o].abort /\ Sound(m)
  BY <1>1, CompletionFacts
<1>4. CASE m.then = "Handoff"
  <2>1. flow'[o].step = "Handover" /\ flow'[o].job.op = "None"
    BY <1>3, <1>4 DEF Sound, GoesTo, NoJob, Job
  <2> QED
    BY <2>1 DEF InScript, Fits, Timely
<1>5. CASE m.then \in {"Do", "AnswerThen"}
  <2>1. Fits(o, flow[o].intent.kind, m) /\ Leads(flow[o], c, b, m)
    BY <1>2, <1>5 DEF Proper
  <2> HIDE DEF m, b
  <2>2. Fits(o, flow'[o].intent.kind, flow'[o])
    BY <2>1 DEF Fits, GoesTo, m
  <2>3. flow[o].step \in {"WritePrepare", "AttrPrepare"} => flow[o].job.on = o
    BY <1>1 DEF Fits
  <2>4. Timely(flow'[o], b, o \in unsent')
    <3>1. /\ flow[o].step \in {"WritePrepare", "AttrPrepare"} /\ c.kind # "Failed" => b.open
          /\ Reached(flow[o], c) => o \notin unsent'
      BY <1>1, <2>3, OwnBufferIsReady DEF b
    <3>2. Timely(m, b, o \in unsent')
      <4>1. /\ m.step \in {"WritePrepare", "AttrPrepare"} => ~b.open
            /\ m.step \in {"WriteBytes", "AttrTruncate"} => b.open
        BY <2>1, <3>1 DEF Leads
      <4>2. /\ m.step \in {"PubRecord", "PubStore", "PubReload", "PubClear"} => o \notin unsent'
            /\ m.step = "PubDiscard" /\ m.node # NoNode => o \notin unsent'
        BY <2>1, <3>1 DEF Leads, Reached
      <4> QED
        BY <4>1, <4>2 DEF Timely
    <3>3. flow'[o].step = m.step /\ flow'[o].node = m.node
      BY DEF GoesTo, m
    <3> QED
      BY <3>2, <3>3 DEF Timely
  <2>5. ASSUME flow'[o].step = "MatBuffer"
        PROVE  /\ flow[o].step = "MatLookup"
               /\ flow'[o].node \in Children(flow[o], o)
    <3>1. m.step = "MatBuffer" /\ flow'[o].node = m.node
      BY <2>5 DEF GoesTo, m
    <3>2. flow[o].step = "MatLookup" /\ m.node = c.node /\ "found" \in c.node.is
      BY <2>1, <3>1 DEF Leads
    <3>3. flow[o].job.op = "ReadChild" /\ flow[o].job.on = o
      BY <1>1, <3>2 DEF Fits, Job
    <3> QED
      BY <1>1, <3>1, <3>2, <3>3 DEF Finds
  <2> QED
    BY <1>5, <2>2, <2>4, <2>5 DEF InScript, b, m
<1> QED
  BY <1>4, <1>5

LEMMA OthersStayInScript ==
    ASSUME EInv, IInv', NEW o \in Objects, NEW c, BufferStep(o, c), NEW p \in Objects \ {o},
           Calm(p)
    PROVE  InScript(p)'
<1>1. Fits(p, flow[p].intent.kind, flow[p]) /\ InScript(p)
  BY DEF EInv, InScript
<1>2. CASE Creates(o, p)
  <2>1. Busy(p) => flow[p].intent.kind \in {"Delete", "Relocate"}
    BY <1>2 DEF EInv, CreationsApart, Newborn
  <2>2. flow[p].step \notin TimedSteps \cup {"PubDiscard"}
    BY <1>1, <2>1 DEF Busy, Fits, TimedSteps
  <2> QED
    BY <1>1, <2>2, CalmStaysInScript
<1>3. CASE ~Creates(o, p)
  BY <1>1, <1>3, OthersBuffersStay, CalmStaysInScript
<1> QED
  BY <1>2, <1>3

\* The object whose job came back.
Turns(o) == /\ InScript(o)'
            /\ flow'[o].step = "MatBuffer" =>
                  /\ flow[o].step = "MatLookup"
                  /\ flow'[o].node \in Children(flow[o], o)

LEMMA TheMoverTurns ==
    ASSUME EInv, IInv', NEW o \in Objects, Busy(o), ~Parked(o), NEW c \in Completions(flow[o]),
           Finishes(o, c)
    PROVE  /\ Turns(o)
           /\ Freed(o, buffer'[o]) \/ flow'[o].intent = flow[o].intent
<1>1. IInv /\ buffer'[o] \in Buffer
  BY DEF EInv, IInv, RestOK
<1>2. CASE Freed(o, buffer'[o])
  <2>1. Fresh(o)
    BY <1>1, <1>2, FreedIsFresh
  <2>2. flow'[o].step # "MatBuffer"
    BY <2>1 DEF Fresh, TimedSteps
  <2> QED
    BY <1>2, <2>1, <2>2, FreshIsInScript DEF Turns
<1>3. CASE /\ After(o, c).then \in {"Do", "AnswerThen", "Handoff"}
           /\ GoesTo(o, After(o, c))
  <2>1. Turns(o)
    BY <1>3, TheMoverStaysInScript DEF Turns
  <2> QED
    BY <1>3, <2>1 DEF GoesTo
<1> QED
  BY <1>1, <1>2, <1>3, TheMoverGoesOnOrIsFreed

\* The row a creation has just inserted is nobody else's.
LEMMA TheNewRowIsNewborn ==
    ASSUME EInv, NEW o \in Objects, flow[o].step = "MatLookup", NEW n \in Children(flow[o], o)
    PROVE  /\ n.id \in Objects \ {o}
           /\ Newborn(n.id) /\ ~BeingCreated(n.id)
<1>1. /\ n \in Rows /\ n.parent = o
      /\ ~Busy(n.id) /\ ~buffer[n.id].open /\ ~BeingCreated(n.id)
  BY DEF Children
<1>2. n.id \in Objects /\ n.parent # n.id
  BY <1>1, RowsAssumption
<1>3. queue[n.id] = <<>>
  BY <1>1, <1>2 DEF EInv, IInv, Healthy, Busy
<1> QED
  BY <1>1, <1>2, <1>3 DEF Newborn

LEMMA CompletionsCreateApart ==
    ASSUME EInv, IInv', NEW o \in Objects, NEW c, BufferStep(o, c), Finds(flow[o], c), Busy(o),
           NEW r \in Request, r.intent.kind \in Late, Fate(o, r),
           \A p \in Objects \ {o} : Bystands(p, r) /\ Calm(p),
           Turns(o), Freed(o, buffer'[o]) \/ flow'[o].intent = flow[o].intent
    PROVE  CreationsApart'
<1>1. IInv /\ CreationsApart
  BY DEF EInv
<1>2. \A p \in Objects \ {o} : \A x \in Objects : Creates(p, x)' => Creates(p, x)
  BY CalmCreatesNothing DEF Creates
<1>3. flow'[o].step = "MatBuffer" =>
        /\ flow[o].step = "MatLookup" /\ flow'[o].node.id \in Objects \ {o}
        /\ Newborn(flow'[o].node.id) /\ ~BeingCreated(flow'[o].node.id)
  BY TheNewRowIsNewborn DEF Turns
<1>4. \A x \in Objects : Creates(o, x)' =>
        /\ flow[o].step = "MatLookup" /\ x # o /\ Newborn(x) /\ ~BeingCreated(x)
  BY <1>3 DEF Creates
<1>5. \A p \in Objects : flow'[p].step = "MatBuffer" => flow'[p].node.id \in Objects \ {p}
  BY <1>1, <1>3, CalmCreatesNothing DEF CreationsApart
<1>6. ASSUME NEW p \in Objects, NEW q \in Objects, NEW x \in Objects,
             Creates(p, x)', Creates(q, x)'
      PROVE  p = q
  <2>1. \A s \in Objects : Creates(s, x) => BeingCreated(x)
    BY DEF Creates, BeingCreated
  <2> QED
    BY <1>1, <1>2, <1>4, <1>6, <2>1 DEF CreationsApart
<1>7. ASSUME NEW p \in Objects \ {o}, NEW x \in Objects, Creates(p, x)'
      PROVE  Newborn(x)'
  <2>1. Creates(p, x) /\ Newborn(x) /\ ~Creates(o, x)
    BY <1>1, <1>2, <1>7 DEF CreationsApart
  <2>2. CASE x # o
    <3>1. ~buffer'[x].open
      BY <2>1, <2>2, OthersBuffersStay DEF Newborn
    <3> QED
      BY <1>1, <2>1, <2>2, <3>1, NewbornsStaySo
  <2>3. CASE x = o
    <3>1. flow[o].intent.kind \in {"Delete", "Relocate"} /\ ~buffer[o].open
      BY <2>1, <2>3 DEF Newborn
    <3>2. ~buffer'[o].open
      BY <3>1, OwnBufferIsReady
    <3>3. CASE Freed(o, buffer'[o])
      BY <1>1, <2>1, <2>3, <3>2, <3>3, NewbornsStaySo DEF Bystands
    <3>4. CASE flow'[o].intent = flow[o].intent
      <4>1. \A k \in DOMAIN queue'[o] : queue'[o][k].intent.kind \in Late
        BY <1>1, <2>1, <2>3, FatesKeepMembers DEF Newborn
      <4> QED
        BY <2>3, <3>1, <3>2, <3>4, <4>1 DEF Newborn
    <3> QED
      BY <3>3, <3>4
  <2> QED
    BY <2>2, <2>3
<1>8. ASSUME NEW x \in Objects, Creates(o, x)'
      PROVE  Newborn(x)'
  <2>1. flow[o].step = "MatLookup" /\ x # o /\ Newborn(x)
    BY <1>4, <1>8
  <2>2. buffer'[x] = buffer[x]
    BY <2>1, OwnBufferIsReady
  <2>3. ~buffer'[x].open
    BY <2>1, <2>2 DEF Newborn
  <2> QED
    BY <1>1, <2>1, <2>3, NewbornsStaySo
<1> QED
  BY <1>5, <1>6, <1>7, <1>8 DEF CreationsApart

LEMMA CompleteKeepsEdits ==
    ASSUME EInv, NEW o \in Objects, Complete(o)
    PROVE  EInv'
<1>1. IInv /\ IInv' /\ Busy(o) /\ ~Parked(o)
  BY CompleteKeeps DEF EInv, Complete
<1>2. PICK c \in Completions(flow[o]) : Finishes(o, c)
  BY DEF Complete
<1>3. BufferStep(o, c) /\ Finds(flow[o], c)
  BY <1>2, CompletionsFind DEF Finishes, BufferStep
<1>4. PICK r \in Request : /\ r.intent.kind \in Late
                           /\ \A p \in Objects \ {o} : Bystands(p, r)
                           /\ Fate(o, r)
  BY <1>1, CompletionDecidesFates DEF Late
<1>5. \A p \in Objects \ {o} : Calm(p)
  BY <1>1, <1>4, BystandersAreCalm
<1>6. Turns(o) /\ (Freed(o, buffer'[o]) \/ flow'[o].intent = flow[o].intent)
  BY <1>1, <1>2, TheMoverTurns
<1>7. \A p \in Objects : InScript(p)'
  BY <1>1, <1>3, <1>5, <1>6, OthersStayInScript DEF Turns
<1>8. CreationsApart'
  BY <1>1, <1>3, <1>4, <1>5, <1>6, CompletionsCreateApart
<1>9. EditsKept' /\ unsent' \subseteq Objects
  BY <1>3, CompletionsKeepEdits
<1> QED
  BY <1>1, <1>7, <1>8, <1>9 DEF EInv

LEMMA InitEInv == Init => EInv
<1> SUFFICES ASSUME Init PROVE EInv
  OBVIOUS
<1>1. IInv /\ unsent = {} /\ \A o \in Objects : flow[o] = IdleFlow
  BY InitIInv DEF Init
<1>2. IdleFlow.step = "Idle"
  BY DEF IdleFlow
<1>3. CreationsApart
  BY <1>1, <1>2 DEF CreationsApart, Creates
<1>4. \A o \in Objects : InScript(o)
  BY <1>1, <1>2, IdleFits DEF InScript, Timely
<1> QED
  BY <1>1, <1>3, <1>4 DEF EInv, EditsKept

LEMMA NextKeepsEdits == EInv /\ [Next]_vars => EInv'
<1> SUFFICES ASSUME EInv, [Next]_vars PROVE EInv'
  OBVIOUS
<1>1. ASSUME NEW t \in Tickets, Submit(t) PROVE EInv'
  BY <1>1, SubmitKeepsEdits
<1>2. CASE Deliver
  BY <1>2, DeliverKeepsEdits
<1>3. ASSUME NEW t \in Tickets, Abandon(t) PROVE EInv'
  BY <1>3, AbandonKeepsEdits
<1>4. ASSUME NEW o \in Objects, Complete(o) PROVE EInv'
  BY <1>4, CompleteKeepsEdits
<1>5. CASE CompleteBeside
  BY <1>5, CompleteBesideKeepsEdits
<1>6. CASE Rest \/ UNCHANGED vars
  <2>1. IInv' /\ UNCHANGED <<flow, queue, buffer, unsent>>
    BY <1>6, NextKeeps DEF Rest, vars, EInv
  <2>2. \A p \in Objects : Bystands(p, NoRequest)
    BY <2>1 DEF Bystands, Onward, SameStep
  <2> QED
    BY <2>1, <2>2, NoRequestType, QuietStepsKeepEdits
    DEF NoRequest, Publishing, Late, NoIntent
<1> QED
  BY <1>1, <1>2, <1>3, <1>4, <1>5, <1>6 DEF Next

\* An edit the server has not got stays in an open, dirty buffer (script.rs
\* write_next, set_attr_next, publish_next; machine.rs apply_to_registry):
\* whatever job fails, whoever gives up, and whatever else the object and its
\* parents do meanwhile, some later flush will find it.
THEOREM UnsentEditsAreKept == Spec => []EditsKept
<1>1. EInv => EditsKept
  BY DEF EInv
<1> QED
  BY <1>1, InitEInv, NextKeepsEdits, PTL DEF Spec

-----------------------------------------------------------------------------
(* Where a request can be: with a running flow, or in a queue. K is the set *)
(* of requests asked about, `here` what the running flow has of them, s is  *)
(* the queue.                                                               *)

Sits(K, here, s) == here # {} \/ \E k \in DOMAIN s : s[k] \in K

Alone(K, here, s) == /\ here # {} => \A k \in DOMAIN s : s[k] \notin K
                     /\ \A j, k \in DOMAIN s : s[j] \in K /\ s[k] \in K => j = k

LEMMA AppendingSits ==
    ASSUME NEW s \in Seq(Request), NEW r \in Request, NEW K, NEW here,
           Alone(K, here, s)
    PROVE  /\ Sits(K, here, Append(s, r)) <=> Sits(K, here, s) \/ r \in K
           /\ (r \in K => ~Sits(K, here, s)) => Alone(K, here, Append(s, r))
<1> DEFINE q == Append(s, r)
<1>1. /\ DOMAIN s = 1..Len(s) /\ DOMAIN q = 1..(Len(s) + 1)
      /\ q[Len(s) + 1] = r /\ \A k \in 1..Len(s) : q[k] = s[k]
      /\ Len(s) \in Nat
  OBVIOUS
<1> HIDE DEF q
<1>2. \A k \in 1..(Len(s) + 1) : k \in 1..Len(s) \/ k = Len(s) + 1
  BY <1>1
<1>3. 1..Len(s) \subseteq 1..(Len(s) + 1) /\ Len(s) + 1 \in 1..(Len(s) + 1)
  BY <1>1
<1>4. Sits(K, here, q) <=> Sits(K, here, s) \/ r \in K
  BY <1>1, <1>2, <1>3 DEF Sits
<1>5. (r \in K => ~Sits(K, here, s)) => Alone(K, here, q)
  BY <1>1, <1>2 DEF Sits, Alone
<1> QED
  BY <1>4, <1>5 DEF q

LEMMA RemovingSits ==
    ASSUME NEW s \in Seq(Request), NEW k \in DOMAIN s, NEW K, NEW here,
           Alone(K, here, s)
    PROVE  /\ Alone(K, here, RemoveAt(s, k))
           /\ Sits(K, here, RemoveAt(s, k)) <=> Sits(K, here, s) /\ s[k] \notin K
<1> DEFINE q == RemoveAt(s, k)
<1>1. /\ DOMAIN s = 1..Len(s) /\ k \in 1..Len(s) /\ Len(s) \in Nat
  OBVIOUS
<1>2. /\ Len(q) = Len(s) - 1
      /\ \A j \in 1..(Len(s) - 1) : q[j] = IF j < k THEN s[j] ELSE s[j + 1]
  BY <1>1, RemovingShifts
<1>3. DOMAIN q = 1..(Len(s) - 1)
  <2>1. q \in Seq(Request)
    BY <1>1 DEF RemoveAt
  <2> QED
    BY <1>2, <2>1
<1> HIDE DEF q
<1> DEFINE at(j) == IF j < k THEN j ELSE j + 1
<1>4. /\ \A j \in 1..(Len(s) - 1) : at(j) \in 1..Len(s) /\ at(j) # k /\ q[j] = s[at(j)]
      /\ \A i, j \in 1..(Len(s) - 1) : at(i) = at(j) => i = j
  BY <1>1, <1>2
<1>5. \A i \in 1..Len(s) : i # k => \E j \in 1..(Len(s) - 1) : at(j) = i
  <2>1. ASSUME NEW i \in 1..Len(s), i < k
        PROVE  i \in 1..(Len(s) - 1) /\ at(i) = i
    BY <1>1, <2>1
  <2>2. ASSUME NEW i \in 1..Len(s), k < i
        PROVE  i - 1 \in 1..(Len(s) - 1) /\ at(i - 1) = i
    BY <1>1, <2>2
  <2>3. \A i \in 1..Len(s) : i # k => i < k \/ k < i
    BY <1>1
  <2> HIDE DEF at
  <2> QED
    BY <2>1, <2>2, <2>3
<1> HIDE DEF at
<1>6. Alone(K, here, q)
  BY <1>1, <1>3, <1>4 DEF Alone
<1>7. Sits(K, here, q) <=> Sits(K, here, s) /\ s[k] \notin K
  <2>1. ASSUME s[k] \in K PROVE ~Sits(K, here, q) /\ Sits(K, here, s)
    BY <1>1, <1>3, <1>4, <2>1 DEF Sits, Alone
  <2>2. ASSUME s[k] \notin K PROVE Sits(K, here, q) <=> Sits(K, here, s)
    BY <1>1, <1>3, <1>4, <1>5, <2>2 DEF Sits
  <2> QED
    BY <2>1, <2>2
<1> QED
  BY <1>6, <1>7 DEF q

\* The queue of an object that starts its n-th request.
LEMMA StartingSits ==
    ASSUME NEW s \in Seq(Request), NEW n \in DOMAIN s, NEW q \in Seq(Request), NEW K,
           NEW here, NEW now, Alone(K, here, s),
           Len(q) = Len(s) - n, \A j \in 1..(Len(s) - n) : q[j] = s[n + j],
           now # {} <=> s[n] \in K
    PROVE  /\ Alone(K, now, q)
           /\ Sits(K, now, q) <=> \E k \in DOMAIN s : n <= k /\ s[k] \in K
<1>1. /\ DOMAIN s = 1..Len(s) /\ DOMAIN q = 1..(Len(s) - n) /\ n \in 1..Len(s) /\ Len(s) \in Nat
      /\ n \in Nat
  OBVIOUS
<1>2. \A j \in 1..(Len(s) - n) : n + j \in 1..Len(s) /\ n + j # n /\ n <= n + j
  BY <1>1
<1>3. \A i, j \in 1..(Len(s) - n) : n + i = n + j => i = j
  BY <1>1
<1>4. \A k \in 1..Len(s) : n <= k => k = n \/ (k - n \in 1..(Len(s) - n) /\ n + (k - n) = k)
  BY <1>1
<1>5. Alone(K, now, q)
  BY <1>1, <1>2, <1>3 DEF Alone
<1>6. ASSUME Sits(K, now, q) PROVE \E k \in DOMAIN s : n <= k /\ s[k] \in K
  <2>1. CASE now # {}
    BY <1>1, <2>1
  <2>2. CASE \E j \in DOMAIN q : q[j] \in K
    BY <1>1, <1>2, <2>2
  <2> QED
    BY <1>6, <2>1, <2>2 DEF Sits
<1>7. ASSUME NEW k \in DOMAIN s, n <= k, s[k] \in K PROVE Sits(K, now, q)
  <2>1. CASE k = n
    BY <1>7, <2>1 DEF Sits
  <2>2. CASE k # n
    <3>1. k - n \in DOMAIN q /\ n + (k - n) = k
      BY <1>1, <1>4, <1>7, <2>2
    <3>2. q[k - n] = s[k]
      BY <1>1, <3>1
    <3> QED
      BY <1>7, <3>1, <3>2 DEF Sits
  <2> QED
    BY <2>1, <2>2
<1> QED
  BY <1>5, <1>6, <1>7

\* The requests that are answered while an object is released.
OnTheWay(p, b, k) == \A j \in NeedsAJob(p, b) : k < j

LEMMA ReleasesSit ==
    ASSUME TypeOK, NEW p \in Objects, NEW b \in Buffer, Freed(p, b), queue'[p] \in Seq(Request),
           NEW K, NEW here, Alone(K, here, queue[p]), NEW now,
           now # {} <=> NeedsAJob(p, b) # {} /\ queue[p][NextUp(p, b)] \in K
    PROVE  /\ Alone(K, now, queue'[p])
           /\ Sits(K, now, queue'[p]) <=>
                 \E k \in DOMAIN queue[p] : queue[p][k] \in K /\ ~OnTheWay(p, b, k)
<1>1. queue[p] \in Seq(Request) /\ DOMAIN queue[p] = 1..Len(queue[p]) /\ Len(queue[p]) \in Nat
  BY DEF TypeOK
<1>2. CASE NeedsAJob(p, b) = {}
  <2>1. queue'[p] = <<>> /\ DOMAIN queue'[p] = {} /\ now = {}
    BY <1>2 DEF Freed, QueueReleased
  <2>2. \A k \in DOMAIN queue[p] : OnTheWay(p, b, k)
    BY <1>2 DEF OnTheWay
  <2> QED
    BY <2>1, <2>2 DEF Alone, Sits
<1>3. CASE NeedsAJob(p, b) # {}
  <2> DEFINE n == NextUp(p, b)
  <2>1. /\ n \in 1..Len(queue[p]) /\ Len(queue'[p]) = Len(queue[p]) - n
        /\ \A j \in 1..(Len(queue[p]) - n) : queue'[p][j] = queue[p][n + j]
    BY <1>3, ReleasingShifts DEF Freed
  <2>2. n \in NeedsAJob(p, b) /\ \A j \in NeedsAJob(p, b) : n <= j
    BY <1>3, NextUpIsLeast
  <2>3. NeedsAJob(p, b) \subseteq 1..Len(queue[p])
    BY <1>1 DEF NeedsAJob
  <2> HIDE DEF n
  <2>4. \A k \in DOMAIN queue[p] : ~OnTheWay(p, b, k) <=> n <= k
    BY <1>1, <2>1, <2>2, <2>3 DEF OnTheWay
  <2>5. now # {} <=> queue[p][n] \in K
    BY <1>3 DEF n
  <2>6. ASSUME NEW s \in Seq(Request), s = queue[p], NEW q \in Seq(Request), q = queue'[p]
        PROVE  /\ Alone(K, now, q)
               /\ Sits(K, now, q) <=> \E k \in DOMAIN s : n <= k /\ s[k] \in K
    <3>1. /\ n \in DOMAIN s /\ Len(q) = Len(s) - n /\ \A j \in 1..(Len(s) - n) : q[j] = s[n + j]
          /\ Alone(K, here, s) /\ (now # {} <=> s[n] \in K)
      BY <1>1, <2>1, <2>5, <2>6
    <3> QED
      BY <3>1, StartingSits
  <2> QED
    BY <1>1, <2>4, <2>6
<1> QED
  BY <1>2, <1>3

-----------------------------------------------------------------------------
(* Tickets. At(t, p): the request of t runs on p, or queues there.          *)

Which(t) == {r \in Request : r.id = t}
Rides(t, p) == flow[p].waiters \cap {t}
At(t, p) == Sits(Which(t), Rides(t, p), queue[p])
Beside(t) == \E r \in beside : r.id = t

KeptOnce(t) ==
    /\ \A p \in Objects : Alone(Which(t), Rides(t, p), queue[p])
    /\ \A p, q \in Objects : At(t, p) /\ At(t, q) => p = q
    /\ \A p \in Objects : At(t, p) => ~Beside(t)
    /\ \A r, s \in beside : r.id = t /\ s.id = t => r = s
    /\ reply[t] = "open" <=> Beside(t) \/ \E p \in Objects : At(t, p)

\* Who waits on a flow: nobody on an idle object or a parked one, and one
\* caller at most unless others may join.
Shape(f) ==
    /\ f.step = "Idle" => f.waiters = {} /\ f.intent.from = NoObject
    /\ f.step = "Handover" => f.waiters = {} /\ f.intent.kind \in {"Remove", "Move"}
    /\ f.intent.kind \notin {"Fetch", "Enumerate"} => \A u, v \in f.waiters : u = v
    /\ f.intent.from # NoObject => f.intent.kind \in {"Delete", "Relocate"}

Stamped(q) == \A k \in DOMAIN q :
    q[k].intent.from # NoObject => q[k].intent.kind \in {"Delete", "Relocate"}

LEMMA HeldOnceFollows ==
    ASSUME IInv, \A t \in Tickets : KeptOnce(t)
    PROVE  HeldOnce
<1> SUFFICES ASSUME NEW t \in Tickets
             PROVE  IF reply[t] = "open" THEN \E p \in Held(t) : Held(t) = {p}
                                         ELSE Held(t) = {}
  BY DEF HeldOnce
<1>1. KeptOnce(t) /\ \A p \in Objects : queue[p] \in Seq(Request)
  BY DEF IInv, Healthy
<1>2. \A p \in Objects : \A k \in DOMAIN queue[p] :
        queue[p][k].id = t <=> queue[p][k] \in Which(t)
  BY <1>1 DEF Which
<1>3. \A x : x \in Held(t) <=>
        \/ \E o \in Objects : Rides(t, o) # {} /\ x = <<"rides", o>>
        \/ \E o \in Objects : \E k \in DOMAIN queue[o] :
              queue[o][k] \in Which(t) /\ x = <<"queues", o, k>>
        \/ \E r \in beside : r.id = t /\ x = <<"beside", r>>
  <2> DEFINE riding  == {<<"rides", o>> : o \in {o \in Objects : t \in flow[o].waiters}}
             queueing(o) == {<<"queues", o, k>> : k \in {k \in DOMAIN queue[o] : queue[o][k].id = t}}
             queued  == UNION {queueing(o) : o \in Objects}
             reading == {<<"beside", r>> : r \in {r \in beside : r.id = t}}
  <2>1. Held(t) = riding \cup queued \cup reading
    BY DEF Held, riding, queued, queueing, reading
  <2>2. \A x : x \in riding <=> \E o \in Objects : Rides(t, o) # {} /\ x = <<"rides", o>>
    BY DEF Rides
  <2>3. \A o \in Objects : \A x : x \in queueing(o) <=>
            \E k \in DOMAIN queue[o] : queue[o][k] \in Which(t) /\ x = <<"queues", o, k>>
    BY <1>2
  <2>4. \A x : x \in reading <=> \E r \in beside : r.id = t /\ x = <<"beside", r>>
    OBVIOUS
  <2> HIDE DEF riding, queueing, reading
  <2>5. \A x : x \in queued <=> \E o \in Objects : x \in queueing(o)
    OBVIOUS
  <2> HIDE DEF queued
  <2>6. \A x : x \in Held(t) <=> x \in riding \/ x \in queued \/ x \in reading
    BY <2>1
  <2> QED
    BY <2>2, <2>3, <2>4, <2>5, <2>6
<1>4. CASE reply[t] # "open"
  <2>1. ~Beside(t) /\ \A p \in Objects : ~At(t, p)
    BY <1>1, <1>4 DEF KeptOnce
  <2>2. Held(t) = {}
    BY <1>3, <2>1 DEF At, Sits, Beside
  <2> QED
    BY <1>4, <2>2
<1>5. CASE reply[t] = "open" /\ Beside(t)
  <2>1. PICK r \in beside : r.id = t
    BY <1>5 DEF Beside
  <2>2. \A p \in Objects : ~At(t, p)
    BY <1>1, <1>5 DEF KeptOnce
  <2>3. \A s \in beside : s.id = t => s = r
    BY <1>1, <2>1 DEF KeptOnce
  <2>4. Held(t) = {<<"beside", r>>}
    BY <1>3, <2>1, <2>2, <2>3 DEF At, Sits
  <2> QED
    BY <1>5, <2>4
<1>6. CASE reply[t] = "open" /\ ~Beside(t)
  <2>1. PICK p \in Objects : At(t, p)
    BY <1>1, <1>6 DEF KeptOnce
  <2>2. \A q \in Objects : At(t, q) => q = p
    BY <1>1, <2>1 DEF KeptOnce
  <2>3. Alone(Which(t), Rides(t, p), queue[p])
    BY <1>1 DEF KeptOnce
  <2>4. CASE Rides(t, p) # {}
    <3>1. Held(t) = {<<"rides", p>>}
      BY <1>3, <1>6, <2>2, <2>3, <2>4 DEF At, Sits, Alone, Beside
    <3> QED
      BY <1>6, <3>1
  <2>5. ASSUME NEW k \in DOMAIN queue[p], queue[p][k] \in Which(t)
        PROVE  Held(t) = {<<"queues", p, k>>}
    BY <1>3, <1>6, <2>2, <2>3, <2>5 DEF At, Sits, Alone, Beside
  <2> QED
    BY <1>6, <2>1, <2>4, <2>5 DEF At, Sits
<1> QED
  BY <1>4, <1>5, <1>6

\* Only a Remove and a Move are handed over, and only to a child that was found.
LEMMA HandoffsFindTheChild ==
    ASSUME NEW o, NEW f \in Flow, NEW c \in Completion, NEW b,
           Advance(o, f, c, b).then = "Handoff"
    PROVE  /\ f.step \in {"RemNode", "MovNode"} /\ "found" \in c.node.is
           /\ Advance(o, f, c, b).node = c.node
<1>1. /\ \A g, step, op, on : Do(g, step, op, on).then = "Do"
      /\ \A g : Finish(g).then = "Done"
      /\ \A g, why : Fail(g, why).then = "Fail"
  BY DEF Do, Finish, Fail, Go
<1>2. Knowing(f, c.node).node = c.node
  BY KnowingType DEF Completion
<1>3. FetchNext(o, f, c, b).then # "Handoff"
  BY <1>1 DEF FetchNext
<1>4. WriteNext(o, f, c, b).then # "Handoff"
  BY <1>1 DEF WriteNext
<1>5. SetAttrNext(o, f, c, b).then # "Handoff"
  <2>1. \A g : ExecOrFinal(o, g).then = "Do"
    BY <1>1 DEF ExecOrFinal
  <2>2. \A g : MtimeOnwards(o, g).then = "Do"
    BY <1>1, <2>1 DEF MtimeOnwards
  <2> QED
    BY <1>1, <2>1, <2>2 DEF SetAttrNext
<1>6. MaterialiseNext(o, f, c).then # "Handoff"
  BY <1>1 DEF MaterialiseNext
<1>7. PublishNext(o, f, c).then # "Handoff"
  BY <1>1 DEF PublishNext, Go
<1>8. RefreshNext(o, f, c).then # "Handoff" /\ Finish(f).then # "Handoff"
  BY <1>1 DEF RefreshNext
<1>9. EnumerateNext(o, f, c).then # "Handoff"
  BY <1>1 DEF EnumerateNext
<1>10. LookNext(o, f, c).then # "Handoff"
  BY <1>1 DEF LookNext
<1>11. \A why : AfterFailure(o, f, why).then # "Handoff"
  BY <1>1 DEF AfterFailure
<1>12. Advance(o, f, c, b) \in {RemoveNext(o, f, c), MoveNext(o, f, c)}
  BY <1>3, <1>4, <1>5, <1>6, <1>7, <1>8, <1>9, <1>10, <1>11 DEF Advance, AfterSuccess, Go
<1>13. ASSUME NEW g
       PROVE  /\ Go("Handoff", g, "Handover", NoJob, "None").node = g.node
  BY DEF Go
<1>14. RemoveNext(o, f, c).then = "Handoff" =>
         f.step = "RemNode" /\ "found" \in c.node.is /\ RemoveNext(o, f, c).node = c.node
  BY <1>1, <1>2, <1>13 DEF RemoveNext
<1>15. MoveNext(o, f, c).then = "Handoff" =>
         f.step = "MovNode" /\ "found" \in c.node.is /\ MoveNext(o, f, c).node = c.node
  BY <1>1, <1>2, <1>13 DEF MoveNext
<1> QED
  BY <1>12, <1>14, <1>15

LEMMA StartShape ==
    ASSUME NEW p, NEW x \in Request, NEW b,
           x.intent.from # NoObject => x.intent.kind \in {"Delete", "Relocate"}
    PROVE  /\ Shape(Start(p, x.intent, x.id, b))
           /\ Start(p, x.intent, x.id, b).step \notin {"Idle", "Handover"}
<1> DEFINE s == Start(p, x.intent, x.id, b)
<1>1. s.step = OpensWith(x.intent, b)[1] /\ s.waiters = {x.id} /\ s.intent = x.intent
  BY DEF Start
<1>2. x.intent.kind \in Kinds
  BY DEF Request, Intent
<1>3. OpensWith(x.intent, b)[1] \notin {"Idle", "Handover"}
  BY <1>2 DEF OpensWith, Kinds
<1> HIDE DEF s
<1>4. Shape(s)
  BY <1>1, <1>3 DEF Shape
<1> QED
  BY <1>1, <1>3, <1>4 DEF s

\* Nothing is handed over to the object it comes from.
Apart(p, f, q) == f.intent.from # p /\ \A k \in DOMAIN q : q[k].intent.from # p

Waiting(p) == Shape(flow[p]) /\ Stamped(queue[p]) /\ Apart(p, flow[p], queue[p])

LEMMA BystandersKeepShape ==
    ASSUME IInv, IInv', NEW p \in Objects, NEW r \in Request, Bystands(p, r), Waiting(p),
           r.intent.from # NoObject => r.intent.kind \in {"Delete", "Relocate"},
           r.intent.from # p
    PROVE  Waiting(p)'
<1>1. Stamped(queue[p])' /\ \A k \in DOMAIN queue'[p] : queue'[p][k].intent.from # p
  BY FatesKeepMembers DEF Fate, Waiting, Stamped, Apart
<1>2. CASE Onward(p) /\ SameStep(p)
  BY <1>1, <1>2 DEF Onward, SameStep, Waiting, Shape, Apart
<1>3. CASE Joined(p, r)
  <2>1. flow[p] \in Flow
    BY DEF IInv, Healthy
  <2>2. /\ flow'[p].step = flow[p].step /\ flow'[p].intent = flow[p].intent
        /\ flow[p].step # "Idle" /\ flow[p].intent.kind \in {"Fetch", "Enumerate"}
    BY <1>3, <2>1 DEF Joined, Busy, Flow
  <2>3. flow'[p].step # "Handover"
    BY <2>2 DEF Waiting, Shape
  <2> QED
    BY <1>1, <2>2, <2>3 DEF Waiting, Shape, Apart
<1>4. CASE flow'[p] = IdleFlow
  <2>1. Shape(IdleFlow) /\ IdleFlow.intent.from = NoObject
    BY DEF Shape, IdleFlow, NoIntent
  <2> QED
    BY <1>1, <1>4, <2>1, ObjectsAssumption DEF Waiting, Apart
<1>5. ASSUME NEW x \in Request, x = r \/ \E k \in DOMAIN queue[p] : x = queue[p][k],
             StartsWith(p, x)
      PROVE  Waiting(p)'
  <2>1. x.intent.from # NoObject => x.intent.kind \in {"Delete", "Relocate"}
    BY <1>5 DEF Waiting, Stamped
  <2>2. x.intent.from # p /\ flow'[p].intent = x.intent
    BY <1>5 DEF Waiting, Apart, StartsWith, Start
  <2> QED
    BY <1>1, <1>5, <2>1, <2>2, StartShape DEF Waiting, Apart, StartsWith
<1> QED
  BY <1>2, <1>3, <1>4, <1>5, BystandersStartMembers

-----------------------------------------------------------------------------
(* Where every step leaves each object's callers, exactly.                  *)

Rests(p) == /\ flow'[p].step = flow[p].step
            /\ flow'[p].intent = flow[p].intent
            /\ flow'[p].waiters = flow[p].waiters

Takes(p, r) == \/ Begun(p, r)
               \/ Busy(p) /\ Rests(p) /\ queue'[p] = Append(queue[p], r)

LEMMA ArrivalPlaces ==
    ASSUME IInv, NEW o \in Objects, NEW r, Arrives(o, r)
    PROVE  /\ \A p \in Objects \ {o} : Untouched(p)
           /\ \/ /\ Takes(o, r) \/ Joined(o, r)
                 /\ beside' = beside /\ reply' = Answered({r.id}, "open")
              \/ /\ Untouched(o)
                 /\ beside' = beside \cup {[id |-> r.id, on |-> o, intent |-> r.intent]}
                 /\ reply' = Answered({r.id}, "open")
              \/ Untouched(o) /\ beside' = beside /\ reply' = Answered({r.id}, "Ok")
<1>1. /\ flow = [p \in Objects |-> flow[p]]
      /\ queue = [p \in Objects |-> queue[p]]
      /\ flow[o] \in Flow
      /\ \A p \in Objects \ {o} : Untouched(p)
  BY ArrivalTouchesOne DEF IInv, RestOK, Healthy
<1>2. CASE Begins(o, r)
  BY <1>1, <1>2 DEF Begins, Begun, Takes
<1>3. CASE IsDoneAtOnce(o, r) \/ ReadsBeside(o, r) \/ Skips(o, r)
  BY <1>1, <1>3 DEF IsDoneAtOnce, ReadsBeside, Skips, Untouched
<1>4. CASE Queues(o, r)
  BY <1>1, <1>4 DEF Queues, Collides, Rests, Takes
<1>5. CASE Joins(o, r)
  <2>1. flow[o].intent.kind \in {"Fetch", "Enumerate"} /\ flow[o].intent.kind = r.intent.kind
    BY <1>5, OnlyReadsJoin DEF Joins, Collides
  <2> QED
    BY <1>1, <1>5, <2>1 DEF Joins, Collides, Joined
<1>6. CASE Aborts(o, r)
  <2>1. Rests(o) /\ queue'[o] = Append(queue[o], r)
    BY <1>1, <1>6 DEF Aborts, Rests, Flow
  <2> QED
    BY <1>1, <1>6, <2>1 DEF Aborts, Collides, Takes
<1> QED
  BY <1>2, <1>3, <1>4, <1>5, <1>6 DEF Arrives

\* A caller that gives up leaves the flow, or its place in the queue; what was
\* parked on the request it leaves goes on.
LeavesFlow(t, o) ==
    /\ t \in flow[o].waiters
    /\ flow'[o].step = flow[o].step /\ flow'[o].intent = flow[o].intent
    /\ flow'[o].waiters = flow[o].waiters \ {t}
    /\ queue'[o] = queue[o]
    /\ \A p \in Objects \ {o} : Untouched(p)
    /\ reply' = Answered({t}, "Interrupted")

LeavesQueue(t, o, k) ==
    LET freed == ParkedOn(queue[o][k].intent)
    IN  /\ queue[o][k].id = t
        /\ \A p \in freed : Freed(p, buffer[p])
        /\ o \notin freed => flow'[o] = flow[o] /\ queue'[o] = RemoveAt(queue[o], k)
        /\ \A p \in Objects : p \notin freed /\ p # o => Untouched(p)
        /\ \A s \in Tickets : reply'[s] =
              IF s = t THEN "Interrupted"
              ELSE IF \E p \in freed : s \in AnsweredOnRelease(p, buffer[p]) THEN "Ok"
              ELSE reply[s]

LEMMA AbandonPlaces ==
    ASSUME IInv, NEW t \in Tickets, Abandon(t)
    PROVE  \E o \in Objects : LeavesFlow(t, o) \/ \E k \in DOMAIN queue[o] : LeavesQueue(t, o, k)
<1>1. PICK o \in Objects : AbandonRider(t, o) \/ AbandonQueued(t, o)
  BY DEF Abandon
<1>2. /\ flow = [q \in Objects |-> flow[q]] /\ flow[o] \in Flow
      /\ queue = [q \in Objects |-> queue[q]]
      /\ \A q \in Objects : flow[q] \in Flow
  BY DEF IInv, RestOK, Healthy
<1>3. CASE AbandonRider(t, o)
  <2>1. LeavesFlow(t, o)
    BY <1>2, <1>3 DEF AbandonRider, LeavesFlow, Untouched, Flow
  <2> QED
    BY <2>1
<1>4. CASE AbandonQueued(t, o)
  <2>1. PICK k \in DOMAIN queue[o] :
          /\ queue[o][k].id = t
          /\ LET freed == ParkedOn(queue[o][k].intent)
             IN  /\ flow' = [q \in Objects |-> IF q \in freed THEN FlowReleased(q, buffer[q])
                                                           ELSE flow[q]]
                 /\ queue' = [q \in Objects |->
                              IF q \in freed THEN QueueReleased(q, buffer[q])
                              ELSE IF q = o THEN RemoveAt(queue[o], k)
                              ELSE queue[q]]
                 /\ reply' = [Answered(UNION {AnsweredOnRelease(p, buffer[p]) : p \in freed}, "Ok")
                               EXCEPT ![t] = "Interrupted"]
    BY <1>4 DEF AbandonQueued
  <2> DEFINE freed == ParkedOn(queue[o][k].intent)
             ids   == UNION {AnsweredOnRelease(p, buffer[p]) : p \in freed}
  <2>2. freed \subseteq Objects
    BY DEF ParkedOn
  <2>3. /\ \A p \in freed : Freed(p, buffer[p])
        /\ o \notin freed => flow'[o] = flow[o] /\ queue'[o] = RemoveAt(queue[o], k)
        /\ \A p \in Objects : p \notin freed /\ p # o => Untouched(p)
    BY <2>1, <2>2 DEF Freed, Untouched
  <2>4. ASSUME NEW s \in Tickets
        PROVE  reply'[s] = IF s = t THEN "Interrupted"
                           ELSE IF \E p \in freed : s \in AnsweredOnRelease(p, buffer[p]) THEN "Ok"
                           ELSE reply[s]
    <3>1. s \in ids <=> \E p \in freed : s \in AnsweredOnRelease(p, buffer[p])
      OBVIOUS
    <3>2. reply' = [Answered(ids, "Ok") EXCEPT ![t] = "Interrupted"]
      BY <2>1
    <3> HIDE DEF ids, freed
    <3> QED
      BY <3>1, <3>2 DEF Answered
  <2>5. LeavesQueue(t, o, k)
    BY <2>1, <2>3, <2>4 DEF LeavesQueue
  <2> QED
    BY <2>5
<1> QED
  BY <1>1, <1>3, <1>4

\* A flow that goes on may have answered its callers.
GoesAhead(o) ==
    /\ flow'[o].step \notin {"Idle", "Handover"} /\ flow'[o].intent = flow[o].intent
    /\ queue'[o] = queue[o]
    /\ \A p \in Objects \ {o} : Untouched(p)
    /\ \/ flow'[o].waiters = flow[o].waiters /\ reply' = reply
       \/ flow'[o].waiters = {} /\ reply' = Answered(flow[o].waiters, "Ok")

\* A flow that is handed over parks, and its one caller goes to the child.
HandsOn(o, child, w) ==
    /\ w \in flow[o].waiters /\ child # o
    /\ flow'[o].step = "Handover" /\ flow'[o].waiters = {}
    /\ flow'[o].intent = flow[o].intent /\ flow[o].intent.kind \in {"Remove", "Move"}
    /\ queue'[o] = queue[o]
    /\ Takes(child, [id |-> w, intent |-> HandedOver(o, flow[o].intent)])
    /\ \A p \in Objects \ {o, child} : Untouched(p)
    /\ reply' = reply

\* A flow that ends answers its callers, and frees its object and the
\* directory parked on it.
LetsGo(o) ==
    LET freed == {o} \cup ParkedOn(flow[o].intent)
    IN  /\ \A p \in freed : Freed(p, buffer'[p])
        /\ \A p \in Objects \ freed : Untouched(p)
        /\ \A s \in Tickets :
              IF s \in flow[o].waiters THEN reply'[s] \in Outcomes
              ELSE IF \E p \in freed : s \in AnsweredOnRelease(p, buffer'[p]) THEN reply'[s] = "Ok"
              ELSE reply'[s] = reply[s]

LEMMA ContinuesGoesAhead ==
    ASSUME IInv, NEW o \in Objects, Busy(o), ~Parked(o), NEW c \in Completions(flow[o]),
           Continues(o, c) \/ Commits(o, c)
    PROVE  GoesAhead(o)
<1>1. /\ flow = [p \in Objects |-> flow[p]] /\ queue = [p \in Objects |-> queue[p]]
      /\ flow[o] \in Flow
  BY DEF IInv, RestOK, Healthy
<1>2. After(o, c) \in Move /\ (After(o, c).then \in {"Do", "AnswerThen"} => Sound(After(o, c)))
  BY CompletionFacts
<1> DEFINE moved == Moved(flow[o], After(o, c))
<1>3. moved \in Flow /\ moved.intent = flow[o].intent /\ moved.waiters = flow[o].waiters
      /\ moved.step = After(o, c).step
  BY <1>1, <1>2, MovedType
<1> HIDE DEF moved
<1>4. /\ [moved EXCEPT !.waiters = {}].waiters = {}
      /\ [moved EXCEPT !.waiters = {}].intent = moved.intent
      /\ [moved EXCEPT !.waiters = {}].step = moved.step
  BY <1>3 DEF Flow
<1>5. After(o, c).step \notin {"Idle", "Handover"}
  <2>1. After(o, c).then \in {"Do", "AnswerThen"}
    BY DEF Continues, Commits
  <2>2. After(o, c).step \in Steps /\ After(o, c).step # "Handover"
    BY <1>2, <2>1 DEF Sound, Move
  <2> QED
    BY <2>2 DEF Steps
<1>6. CASE Continues(o, c)
  <2>1. flow' = [flow EXCEPT ![o] = moved] /\ queue' = queue /\ reply' = reply
    BY <1>6 DEF Continues, moved
  <2> QED
    BY <1>1, <1>3, <1>5, <2>1 DEF GoesAhead, Untouched
<1>7. CASE Commits(o, c)
  <2>1. /\ queue' = queue
        /\ \/ /\ flow' = [flow EXCEPT ![o] = [moved EXCEPT !.waiters = {}]]
              /\ reply' = Answered(moved.waiters, "Ok")
           \/ flow' = [flow EXCEPT ![o] = moved] /\ reply' = reply
    BY <1>7 DEF Commits, moved
  <2> QED
    BY <1>1, <1>3, <1>4, <1>5, <2>1 DEF GoesAhead, Untouched
<1> QED
  BY <1>6, <1>7

LEMMA HandsOverHandsOn ==
    ASSUME EInv, NEW o \in Objects, Busy(o), ~Parked(o), NEW c \in Completions(flow[o]),
           HandsOver(o, c)
    PROVE  \E w \in flow[o].waiters, child \in Objects : HandsOn(o, child, w)
<1>1. /\ flow = [p \in Objects |-> flow[p]] /\ queue = [p \in Objects |-> queue[p]]
      /\ \A p \in Objects : flow[p] \in Flow
      /\ c \in Completion /\ Finds(flow[o], c) /\ Fits(o, flow[o].intent.kind, flow[o])
  BY CompletionsType, CompletionsFind DEF EInv, InScript, IInv, RestOK, Healthy
<1>2. After(o, c) \in Move /\ Sound(After(o, c))
  <2>1. After(o, c).then = "Handoff"
    BY DEF HandsOver
  <2> QED
    BY <2>1, CompletionFacts DEF EInv
<1>3. /\ flow[o].step \in {"RemNode", "MovNode"} /\ "found" \in c.node.is
      /\ After(o, c).node = c.node /\ After(o, c).step = "Handover"
  BY <1>1, <1>2, HandoffsFindTheChild DEF HandsOver, After, Sound
<1>4. /\ c.node \in Children(flow[o], o) /\ flow[o].intent.kind \in {"Remove", "Move"}
  BY <1>1, <1>3 DEF Fits, Finds, Job
<1>5. c.node.id \in Objects \ {o}
  BY <1>4, RowsAssumption DEF Children
<1> DEFINE moved  == Moved(flow[o], After(o, c))
           parked == [moved EXCEPT !.waiters = {}]
           i      == HandedOver(o, flow[o].intent)
           child  == parked.node.id
           aborts(p) == Collision(flow[p], i, buffer[p]) = "Abort"
<1>6. /\ moved \in Flow /\ moved.intent = flow[o].intent /\ moved.step = "Handover"
      /\ moved.node = c.node
  BY <1>1, <1>2, <1>3, MovedType
<1>7. PICK w \in flow[o].waiters :
          /\ flow' = [p \in Objects |->
                IF p = o THEN parked
                ELSE IF p # child THEN flow[p]
                ELSE IF ~Busy(p) THEN Start(p, i, w, buffer[p])
                ELSE [flow[p] EXCEPT !.abort = @ \/ aborts(p)]]
          /\ queue' = [p \in Objects |->
                IF p = child /\ Busy(p) THEN Append(queue[p], [id |-> w, intent |-> i])
                                        ELSE queue[p]]
          /\ reply' = reply
  BY ZenonT(60) DEF HandsOver
<1> HIDE DEF moved
<1>8. /\ parked.step = "Handover" /\ parked.waiters = {} /\ parked.intent = flow[o].intent
      /\ child = c.node.id
  BY <1>6 DEF Flow
<1> HIDE DEF parked, child, i
<1>9. /\ flow'[o] = parked /\ queue'[o] = queue[o]
      /\ \A p \in Objects \ {o, child} : Untouched(p)
  BY <1>1, <1>5, <1>7, <1>8 DEF Untouched
<1>10. Takes(child, [id |-> w, intent |-> i])
  <2>1. child \in Objects \ {o}
    BY <1>5, <1>8
  <2>2. i.kind \in {"Delete", "Relocate"}
    BY <1>1 DEF HandedOver, i, Flow, Intent
  <2>3. CASE ~Busy(child)
    <3>1. /\ flow'[child] = Start(child, i, w, buffer[child]) /\ queue'[child] = queue[child]
      BY <1>7, <2>1, <2>3
    <3> QED
      BY <2>2, <2>3, <3>1 DEF Takes, Begun, AtOnce
  <2>4. CASE Busy(child)
    <3> DEFINE ab == flow[child].abort \/ aborts(child)
    <3>1. /\ flow'[child] = [flow[child] EXCEPT !.abort = ab]
          /\ queue'[child] = Append(queue[child], [id |-> w, intent |-> i])
      BY <1>7, <2>1, <2>4
    <3> HIDE DEF ab
    <3>2. Rests(child)
      BY <1>1, <2>1, <3>1 DEF Rests, Flow
    <3> QED
      BY <2>4, <3>1, <3>2 DEF Takes
  <2> QED
    BY <2>3, <2>4
<1>11. HandsOn(o, child, w)
  BY <1>4, <1>5, <1>7, <1>8, <1>9, <1>10 DEF HandsOn, i
<1> QED
  BY <1>5, <1>7, <1>8, <1>11

LEMMA EndsLetsGo ==
    ASSUME IInv, NEW o \in Objects, Busy(o), ~Parked(o), NEW c \in Completions(flow[o]),
           Finishes(o, c), Ends(o, c)
    PROVE  LetsGo(o)
<1>1. /\ flow = [p \in Objects |-> flow[p]] /\ flow[o] \in Flow
      /\ buffer' = BuffersAfter(o, c)
  BY DEF IInv, RestOK, Healthy, Finishes
<1>2. /\ After(o, c).then \in {"Done", "Fail", "Abandoned"} /\ After(o, c) \in Move
      /\ After(o, c).then # "Done" => After(o, c).why \in Failures
  <2>1. After(o, c).then \in {"Done", "Fail", "Abandoned"}
    BY DEF Ends
  <2> QED
    BY <2>1, CompletionFacts DEF Sound, Failures
<1> DEFINE moved == Moved(flow[o], After(o, c))
           b     == BuffersAfter(o, c)
           freed == {o} \cup ParkedOn(flow[o].intent)
           ids   == UNION {AnsweredOnRelease(p, b[p]) : p \in freed}
<1>3. moved.intent = flow[o].intent /\ moved.waiters = flow[o].waiters
  BY <1>1, <1>2, MovedType
<1>4. /\ flow' = [p \in Objects |-> IF p \in {o} \cup ParkedOn(moved.intent)
                                   THEN FlowReleased(p, b[p]) ELSE flow[p]]
      /\ queue' = [p \in Objects |-> IF p \in {o} \cup ParkedOn(moved.intent)
                                    THEN QueueReleased(p, b[p]) ELSE queue[p]]
      /\ reply' = [t \in Tickets |->
                        IF t \in moved.waiters
                        THEN IF After(o, c).then = "Done" THEN "Ok" ELSE After(o, c).why
                        ELSE IF t \in UNION {AnsweredOnRelease(p, b[p]) :
                                               p \in {o} \cup ParkedOn(moved.intent)}
                        THEN "Ok"
                        ELSE reply[t]]
  BY Zenon DEF Ends
<1> HIDE DEF moved
<1>5. /\ flow' = [p \in Objects |-> IF p \in freed THEN FlowReleased(p, b[p]) ELSE flow[p]]
      /\ queue' = [p \in Objects |-> IF p \in freed THEN QueueReleased(p, b[p]) ELSE queue[p]]
      /\ reply' = [t \in Tickets |->
                        IF t \in flow[o].waiters
                        THEN IF After(o, c).then = "Done" THEN "Ok" ELSE After(o, c).why
                        ELSE IF t \in ids THEN "Ok"
                        ELSE reply[t]]
  BY <1>3, <1>4
<1>6. \A s : s \in ids <=> \E p \in freed : s \in AnsweredOnRelease(p, b[p])
  OBVIOUS
<1>7. freed \subseteq Objects
  BY DEF ParkedOn
<1>8. buffer' = b
  BY <1>1
<1> HIDE DEF ids, b
<1>9. ASSUME NEW p \in Objects
      PROVE  IF p \in freed THEN Freed(p, buffer'[p]) ELSE Untouched(p)
  <2> HIDE DEF freed
  <2> QED
    BY <1>1, <1>5, <1>8 DEF Freed, Untouched
<1>10. ASSUME NEW s \in Tickets
       PROVE  IF s \in flow[o].waiters THEN reply'[s] \in Outcomes
              ELSE IF \E p \in freed : s \in AnsweredOnRelease(p, buffer'[p]) THEN reply'[s] = "Ok"
              ELSE reply'[s] = reply[s]
  <2> HIDE DEF freed
  <2> QED
    BY <1>2, <1>5, <1>6, <1>8 DEF Outcomes
<1> QED
  BY <1>7, <1>9, <1>10 DEF LetsGo

SInv == EInv /\ \A p \in Objects : Waiting(p)

\* A request that may be handed to p: one its caller made, or a directory's.
Addressed(r, p) == /\ r \in Request /\ r.intent.from # p
                   /\ r.intent.from # NoObject => r.intent.kind \in {"Delete", "Relocate"}

LEMMA NoRequestIsAddressed == \A p \in Objects : Addressed(NoRequest, p)
<1>1. NoRequest.intent.from = NoObject
  BY DEF NoRequest, Publishing, NoIntent
<1> QED
  BY <1>1, NoRequestType, ObjectsAssumption DEF Addressed

LEMMA UntouchedStayWaiting ==
    ASSUME NEW p \in Objects, Waiting(p), Untouched(p)
    PROVE  Waiting(p)'
  BY DEF Waiting, Untouched

LEMMA SendsKeepsWaiting ==
    ASSUME IInv, NEW p \in Objects, NEW r, Addressed(r, p), Takes(p, r), Waiting(p)
    PROVE  Waiting(p)'
<1>1. queue[p] \in Seq(Request) /\ r \in Request
  BY DEF IInv, Healthy, Addressed
<1>2. CASE Begun(p, r)
  <2>1. flow'[p] = Start(p, r.intent, r.id, buffer[p]) /\ queue'[p] = queue[p]
    BY <1>2 DEF Begun
  <2>2. Shape(Start(p, r.intent, r.id, buffer[p]))
    BY <1>1, StartShape DEF Addressed
  <2>3. flow'[p].intent = r.intent
    BY <2>1 DEF Start
  <2> QED
    BY <2>1, <2>2, <2>3 DEF Waiting, Shape, Stamped, Apart, Addressed
<1>3. CASE Rests(p) /\ queue'[p] = Append(queue[p], r)
  <2>1. \A k \in DOMAIN queue'[p] : queue'[p][k] = r \/ \E j \in DOMAIN queue[p] : queue'[p][k] = queue[p][j]
    BY <1>1, <1>3
  <2> QED
    BY <1>3, <2>1 DEF Waiting, Rests, Shape, Stamped, Apart, Addressed
<1> QED
  BY <1>2, <1>3 DEF Takes

LEMMA FreedStayWaiting ==
    ASSUME IInv, IInv', NEW p \in Objects, Waiting(p), Freed(p, buffer'[p])
    PROVE  Waiting(p)'
  BY NoRequestIsAddressed, BystandersKeepShape DEF Bystands, Addressed

LEMMA CompletionPlaces ==
    ASSUME EInv, NEW o \in Objects, Complete(o)
    PROVE  \/ GoesAhead(o)
           \/ \E w \in flow[o].waiters, child \in Objects : HandsOn(o, child, w)
           \/ LetsGo(o)
<1>1. IInv /\ Busy(o) /\ ~Parked(o)
  BY DEF EInv, Complete
<1>2. PICK c \in Completions(flow[o]) : Finishes(o, c)
  BY DEF Complete
<1> QED
  BY <1>1, <1>2, ContinuesGoesAhead, HandsOverHandsOn, EndsLetsGo DEF Finishes

LEMMA HandedOverIsAddressed ==
    ASSUME NEW o \in Objects, NEW i \in Intent, NEW w \in Tickets \cup {Nobody},
           NEW child \in Objects \ {o}
    PROVE  Addressed([id |-> w, intent |-> HandedOver(o, i)], child)
<1>1. HandedOver(o, i).from = o /\ HandedOver(o, i).kind \in {"Delete", "Relocate"}
  BY DEF HandedOver, Intent
<1> QED
  BY <1>1, HandedOverType DEF Addressed, Request

LEMMA CompleteKeepsWaiting ==
    ASSUME SInv, NEW o \in Objects, Complete(o)
    PROVE  SInv'
<1>1. EInv /\ EInv' /\ IInv /\ IInv' /\ flow[o] \in Flow
  BY CompleteKeepsEdits DEF SInv, EInv, IInv, Healthy
<1>2. ASSUME GoesAhead(o), NEW p \in Objects
      PROVE  Waiting(p)'
  <2>1. CASE p = o
    BY <1>2, <2>1 DEF SInv, Waiting, GoesAhead, Shape, Stamped, Apart
  <2>2. CASE p # o
    BY <1>2, <2>2, UntouchedStayWaiting DEF SInv, GoesAhead
  <2> QED
    BY <2>1, <2>2
<1>3. ASSUME NEW w \in flow[o].waiters, NEW child \in Objects, HandsOn(o, child, w),
             NEW p \in Objects
      PROVE  Waiting(p)'
  <2>1. CASE p = o
    BY <1>3, <2>1 DEF SInv, Waiting, HandsOn, Shape, Stamped, Apart
  <2>2. CASE p = child
    <3>1. Addressed([id |-> w, intent |-> HandedOver(o, flow[o].intent)], child)
      BY <1>1, <1>3, HandedOverIsAddressed DEF Flow, HandsOn
    <3> QED
      BY <1>1, <1>3, <2>2, <3>1, SendsKeepsWaiting DEF SInv, HandsOn
  <2>3. CASE p \notin {o, child}
    BY <1>3, <2>3, UntouchedStayWaiting DEF SInv, HandsOn
  <2> QED
    BY <2>1, <2>2, <2>3
<1>4. ASSUME LetsGo(o), NEW p \in Objects
      PROVE  Waiting(p)'
  BY <1>1, <1>4, FreedStayWaiting, UntouchedStayWaiting DEF SInv, LetsGo
<1> QED
  BY <1>1, <1>2, <1>3, <1>4, CompletionPlaces DEF SInv

LEMMA NextKeepsWaiting == SInv /\ [Next]_vars => SInv'
<1> SUFFICES ASSUME SInv, [Next]_vars PROVE SInv'
  OBVIOUS
<1>1. IInv /\ IInv' /\ EInv'
  BY NextKeepsEdits DEF SInv, EInv
<1>2. ASSUME NEW r, \A p \in Objects : Bystands(p, r) /\ Addressed(r, p)
      PROVE  SInv'
  BY <1>1, <1>2, BystandersKeepShape DEF SInv, Addressed
<1>3. ASSUME NEW t \in Tickets, Submit(t) PROVE SInv'
  <2>1. PICK a \in Asks : Receives(t, a)
    BY <1>3 DEF Submit
  <2> DEFINE r == [id |-> t, intent |-> a.intent]
  <2>2. Arrives(a.on, r) /\ a.on \in Objects /\ r \in Request /\ r.intent.from = NoObject
    BY <2>1, AsksAssumption DEF Receives, Request
  <2> HIDE DEF r
  <2> QED
    BY <1>1, <1>2, <2>2, ArrivalDecidesFates, ObjectsAssumption DEF Addressed
<1>4. CASE Deliver
  <2>1. Head(posted) \in [on : Objects, intent : {Publishing}]
    BY <1>1, <1>4, HeadAndTail DEF Deliver, IInv, RestOK
  <2>2. Head(posted).on \in Objects /\ Head(posted).intent = Publishing
    BY <2>1
  <2>3. Arrives(Head(posted).on, NoRequest)
    BY <1>4, <2>2 DEF Deliver, NoRequest
  <2> QED
    BY <1>1, <1>2, <2>2, <2>3, ArrivalDecidesFates, NoRequestIsAddressed
<1>5. ASSUME NEW t \in Tickets, Abandon(t) PROVE SInv'
  BY <1>1, <1>2, <1>5, AbandonDecidesFates, NoRequestIsAddressed
<1>6. ASSUME NEW o \in Objects, Complete(o) PROVE SInv'
  BY <1>6, CompleteKeepsWaiting
<1>7. CASE CompleteBeside \/ Rest \/ UNCHANGED vars
  <2>1. flow' = flow /\ queue' = queue
    BY <1>7 DEF CompleteBeside, Rest, vars
  <2> QED
    BY <1>1, <2>1, UntouchedStayWaiting DEF SInv, Untouched
<1> QED
  BY <1>3, <1>4, <1>5, <1>6, <1>7 DEF Next

LEMMA InitSInv == Init => SInv
<1> SUFFICES ASSUME Init PROVE SInv
  OBVIOUS
<1>1. \A p \in Objects : flow[p] = IdleFlow /\ queue[p] = <<>>
  BY DEF Init
<1>2. Shape(IdleFlow) /\ IdleFlow.intent.from = NoObject /\ DOMAIN <<>> = {}
  BY DEF Shape, IdleFlow, NoIntent
<1> QED
  BY <1>1, <1>2, InitEInv, ObjectsAssumption DEF SInv, Waiting, Stamped, Apart

-----------------------------------------------------------------------------
(* What a step does to a ticket's place on one object.                      *)

AloneAt(t, p) == Alone(Which(t), Rides(t, p), queue[p])

LEMMA UntouchedKeepsTickets ==
    ASSUME NEW t, NEW p, Untouched(p)
    PROVE  (AloneAt(t, p)' <=> AloneAt(t, p)) /\ (At(t, p)' <=> At(t, p))
<1>1. Rides(t, p)' = Rides(t, p) /\ queue'[p] = queue[p]
  BY DEF Untouched, Rides
<1> QED
  BY <1>1 DEF AloneAt, At, Alone, Sits, Which

LEMMA SendingKeepsTickets ==
    ASSUME IInv, NEW p \in Objects, Waiting(p), NEW r \in Request, Takes(p, r) \/ Joined(p, r),
           NEW t \in Tickets, AloneAt(t, p), r.id = t => ~At(t, p)
    PROVE  AloneAt(t, p)' /\ (At(t, p)' <=> At(t, p) \/ r.id = t)
<1>1. flow[p] \in Flow /\ queue[p] \in Seq(Request) /\ (~Busy(p) => queue[p] = <<>>)
  BY DEF IInv, Healthy, Busy
<1>2. r \in Which(t) <=> r.id = t
  BY DEF Which
<1>3. CASE Begun(p, r)
  <2>1. /\ flow[p].waiters = {} /\ queue[p] = <<>> /\ queue'[p] = <<>>
        /\ flow'[p].waiters = {r.id}
    BY <1>1, <1>3 DEF Begun, Waiting, Shape, Busy, Start
  <2>2. Rides(t, p) = {} /\ (Rides(t, p)' # {} <=> r.id = t)
    BY <2>1 DEF Rides
  <2>3. DOMAIN queue'[p] = {} /\ DOMAIN queue[p] = {}
    BY <2>1
  <2> QED
    BY <2>2, <2>3 DEF AloneAt, At, Alone, Sits
<1>4. CASE Rests(p) /\ queue'[p] = Append(queue[p], r)
  <2>1. Rides(t, p)' = Rides(t, p)
    BY <1>4 DEF Rests, Rides
  <2>2. /\ Sits(Which(t), Rides(t, p), Append(queue[p], r)) <=> At(t, p) \/ r.id = t
        /\ Alone(Which(t), Rides(t, p), Append(queue[p], r))
    BY <1>1, <1>2, AppendingSits DEF AloneAt, At
  <2> QED
    BY <1>4, <2>1, <2>2 DEF AloneAt, At, Sits, Alone, Which
<1>5. CASE Joined(p, r)
  <2>1. flow'[p].waiters = flow[p].waiters \cup {r.id} /\ queue'[p] = queue[p]
    BY <1>1, <1>5 DEF Joined, Flow
  <2>2. Rides(t, p)' # {} <=> Rides(t, p) # {} \/ r.id = t
    BY <2>1 DEF Rides
  <2> QED
    BY <2>1, <2>2 DEF AloneAt, At, Alone, Sits, Which
<1> QED
  BY <1>3, <1>4, <1>5 DEF Takes

\* An object that is freed: who queued there is still there, or was answered.
LEMMA FreedKeepsTickets ==
    ASSUME IInv, NEW p \in Objects, NEW b \in Buffer, Freed(p, b), queue'[p] \in Seq(Request),
           NEW t \in Tickets, AloneAt(t, p)
    PROVE  /\ AloneAt(t, p)'
           /\ t \in AnsweredOnRelease(p, b) => At(t, p)
           /\ At(t, p)' <=> /\ \E k \in DOMAIN queue[p] : queue[p][k].id = t
                            /\ t \notin AnsweredOnRelease(p, b)
<1>1. TypeOK /\ queue[p] \in Seq(Request)
  BY IInvSaysSo DEF IInv, Healthy
<1>2. Rides(t, p)' # {} <=> NeedsAJob(p, b) # {} /\ queue[p][NextUp(p, b)] \in Which(t)
  <2>1. CASE NeedsAJob(p, b) = {}
    BY <2>1 DEF Freed, FlowReleased, IdleFlow, Rides
  <2>2. CASE NeedsAJob(p, b) # {}
    <3> DEFINE x == queue[p][NextUp(p, b)]
    <3>1. flow'[p] = Start(p, x.intent, x.id, b) /\ x \in Request
      BY <1>1, <2>2, ReleasingShifts DEF Freed
    <3>2. flow'[p].waiters = {x.id}
      BY <3>1 DEF Start
    <3> QED
      BY <2>2, <3>1, <3>2 DEF Rides, Which
  <2> QED
    BY <2>1, <2>2
<1>3. /\ Alone(Which(t), Rides(t, p)', queue'[p])
      /\ Sits(Which(t), Rides(t, p)', queue'[p]) <=>
            \E k \in DOMAIN queue[p] : queue[p][k] \in Which(t) /\ ~OnTheWay(p, b, k)
  <2>1. ASSUME NEW now, now = Rides(t, p)'
        PROVE  /\ Alone(Which(t), now, queue'[p])
               /\ Sits(Which(t), now, queue'[p]) <=>
                    \E k \in DOMAIN queue[p] : queue[p][k] \in Which(t) /\ ~OnTheWay(p, b, k)
    BY <1>1, <1>2, <2>1, ReleasesSit DEF AloneAt
  <2> QED
    BY <2>1
<1>4. \A k \in DOMAIN queue[p] : queue[p][k].id = t <=> queue[p][k] \in Which(t)
  BY <1>1 DEF Which
<1>5. t \in AnsweredOnRelease(p, b) <=>
        \E k \in DOMAIN queue[p] : queue[p][k] \in Which(t) /\ OnTheWay(p, b, k)
  BY <1>4 DEF AnsweredOnRelease, OnTheWay
<1>6. \A j, k \in DOMAIN queue[p] :
        queue[p][j] \in Which(t) /\ queue[p][k] \in Which(t) => j = k
  BY DEF AloneAt, Alone
<1>7. (At(t, p)' <=> Sits(Which(t), Rides(t, p)', queue'[p]))
      /\ (AloneAt(t, p)' <=> Alone(Which(t), Rides(t, p)', queue'[p]))
  BY DEF At, AloneAt, Sits, Alone, Which
<1> QED
  BY <1>3, <1>4, <1>5, <1>6, <1>7 DEF At, Sits

\* L: who is answered.
LEMMA AnsweringKeepsOnce ==
    ASSUME NEW t \in Tickets, KeptOnce(t), NEW L, \A r \in beside' : r.id = t => r \in beside,
           \A p \in Objects : AloneAt(t, p)' /\ (At(t, p)' <=> At(t, p) /\ t \notin L),
           Beside(t)' <=> Beside(t) /\ t \notin L,
           reply'[t] = "open" <=> reply[t] = "open" /\ t \notin L
    PROVE  KeptOnce(t)'
<1>1. \A r, s \in beside' : r.id = t /\ s.id = t => r = s
  BY DEF KeptOnce
<1>2. \A p, q \in Objects : At(t, p)' /\ At(t, q)' => p = q
  BY DEF KeptOnce
<1>3. \A p \in Objects : At(t, p)' => ~Beside(t)'
  BY DEF KeptOnce
<1>4. reply'[t] = "open" <=> Beside(t)' \/ \E p \in Objects : At(t, p)'
  BY DEF KeptOnce
<1>5. \A p \in Objects : Alone(Which(t), Rides(t, p), queue[p])'
  BY DEF AloneAt
<1> QED
  BY <1>1, <1>2, <1>3, <1>4, <1>5 DEF KeptOnce

\* The answered leave one object, and nobody else's ticket moves.
LEMMA LeavingKeepsOnce ==
    ASSUME NEW t \in Tickets, KeptOnce(t), NEW L, beside' = beside,
           \A p \in Objects : AloneAt(t, p)' /\ (At(t, p)' => At(t, p)),
           t \in L => \E q \in Objects : At(t, q) /\ ~At(t, q)',
           t \notin L => \A p \in Objects : At(t, p) => At(t, p)',
           reply'[t] = "open" <=> reply[t] = "open" /\ t \notin L
    PROVE  KeptOnce(t)'
<1>1. \A p \in Objects : At(t, p)' <=> At(t, p) /\ t \notin L
  BY DEF KeptOnce
<1>2. Beside(t)' = Beside(t)
  BY DEF Beside
<1>3. t \in L => ~Beside(t)
  BY DEF KeptOnce
<1> QED
  BY <1>1, <1>2, <1>3, AnsweringKeepsOnce

LEMMA ArrivalKeepsOnce ==
    ASSUME SInv, NEW o \in Objects, NEW r \in Request, Arrives(o, r),
           NEW t \in Tickets, KeptOnce(t), r.id = t => reply[t] = "new"
    PROVE  KeptOnce(t)'
<1>1. IInv /\ Waiting(o) /\ reply \in [Tickets -> {"new", "open"} \cup Outcomes]
  BY DEF SInv, EInv, IInv, RestOK
<1>2. \A p \in Objects : AloneAt(t, p)
  BY DEF KeptOnce, AloneAt
<1>3. r.id = t => /\ \A p \in Objects : ~At(t, p)
                  /\ ~Beside(t)
  BY DEF KeptOnce
<1>4. \A p \in Objects \ {o} : AloneAt(t, p)' /\ (At(t, p)' <=> At(t, p))
  BY <1>1, <1>2, ArrivalPlaces, UntouchedKeepsTickets
<1>5. CASE /\ Takes(o, r) \/ Joined(o, r)
           /\ beside' = beside /\ reply' = Answered({r.id}, "open")
  <2>1. AloneAt(t, o)' /\ (At(t, o)' <=> At(t, o) \/ r.id = t)
    BY <1>1, <1>2, <1>3, <1>5, SendingKeepsTickets
  <2>2. Beside(t)' = Beside(t)
    BY <1>5 DEF Beside
  <2>3. CASE r.id = t
    <3>1. reply'[t] = "open"
      BY <1>5, <2>3 DEF Answered
    <3> QED
      BY <1>3, <1>4, <1>5, <2>1, <2>2, <2>3, <3>1 DEF KeptOnce, AloneAt
  <2>4. CASE r.id # t
    <3>1. reply'[t] = reply[t]
      BY <1>5, <2>4 DEF Answered
    <3> QED
      BY <1>4, <1>5, <2>1, <2>2, <2>4, <3>1 DEF KeptOnce, AloneAt
  <2> QED
    BY <2>3, <2>4
<1>6. CASE /\ Untouched(o)
           /\ beside' = beside \cup {[id |-> r.id, on |-> o, intent |-> r.intent]}
           /\ reply' = Answered({r.id}, "open")
  <2>1. AloneAt(t, o)' /\ (At(t, o)' <=> At(t, o))
    BY <1>2, <1>6, UntouchedKeepsTickets
  <2> DEFINE x == [id |-> r.id, on |-> o, intent |-> r.intent]
  <2>2. x.id = r.id
    OBVIOUS
  <2>0. beside' = beside \cup {x}
    BY <1>6
  <2> HIDE DEF x
  <2>3. CASE r.id = t
    <3>1. reply'[t] = "open"
      BY <1>6, <2>3 DEF Answered
    <3>2. \A y \in beside' : y.id = t => y = x
      BY <1>3, <2>0, <2>3 DEF Beside
    <3>3. Beside(t)'
      BY <2>0, <2>2, <2>3 DEF Beside
    <3> QED
      BY <1>3, <1>4, <2>1, <2>3, <3>1, <3>2, <3>3 DEF KeptOnce, AloneAt
  <2>4. CASE r.id # t
    <3>1. reply'[t] = reply[t]
      BY <1>6, <2>4 DEF Answered
    <3>2. \A y \in beside' : y.id = t => y \in beside
      BY <2>0, <2>2, <2>4
    <3>3. Beside(t)' <=> Beside(t)
      BY <2>0, <3>2 DEF Beside
    <3>4. \A p \in Objects : AloneAt(t, p)' /\ (At(t, p)' <=> At(t, p))
      BY <1>4, <2>1
    <3>5. ASSUME NEW L, t \notin L PROVE KeptOnce(t)'
      BY <3>1, <3>2, <3>3, <3>4, <3>5, AnsweringKeepsOnce
    <3>6. t \notin {}
      OBVIOUS
    <3> QED
      BY <3>5, <3>6, Zenon
  <2> QED
    BY <2>3, <2>4
<1>7. CASE Untouched(o) /\ beside' = beside /\ reply' = Answered({r.id}, "Ok")
  <2>1. \A p \in Objects : AloneAt(t, p)' /\ (At(t, p)' <=> At(t, p))
    BY <1>2, <1>4, <1>7, UntouchedKeepsTickets
  <2>2. reply'[t] = "open" <=> reply[t] = "open"
    BY <1>7 DEF Answered
  <2>3. Beside(t)' = Beside(t)
    BY <1>7 DEF Beside
  <2> QED
    BY <1>7, <2>1, <2>2, <2>3 DEF KeptOnce, AloneAt
<1> QED
  BY <1>1, <1>5, <1>6, <1>7, ArrivalPlaces

\* A directory parked on the request that left, or ended.
LEMMA TheParkedKeepTickets ==
    ASSUME SInv, IInv', NEW p \in Objects, Parked(p), Freed(p, buffer'[p]),
           NEW t \in Tickets, AloneAt(t, p)
    PROVE  /\ AloneAt(t, p)'
           /\ t \in AnsweredOnRelease(p, buffer'[p]) => At(t, p)
           /\ At(t, p)' <=> At(t, p) /\ t \notin AnsweredOnRelease(p, buffer'[p])
<1>1. /\ IInv /\ buffer'[p] \in Buffer /\ queue'[p] \in Seq(Request) /\ queue[p] \in Seq(Request)
      /\ Rides(t, p) = {}
  BY DEF SInv, EInv, IInv, RestOK, Healthy, Waiting, Shape, Parked, Rides
<1>2. At(t, p) <=> \E k \in DOMAIN queue[p] : queue[p][k].id = t
  BY <1>1 DEF At, Sits, Which
<1> QED
  BY <1>1, <1>2, FreedKeepsTickets

-----------------------------------------------------------------------------
(* No step loses a ticket or holds it twice.                                *)

HInv == SInv /\ \A t \in Tickets : KeptOnce(t)

\* Who rides a flow or queues at it is there, and one that rides does not queue.
LEMMA RidersAreThere ==
    ASSUME NEW p, NEW t \in flow[p].waiters, AloneAt(t, p)
    PROVE  At(t, p) /\ \A k \in DOMAIN queue[p] : queue[p][k] \notin Which(t)
  BY DEF AloneAt, Alone, At, Sits, Rides

\* An object whose callers were answered, and whose queue stays.
LEMMA AnsweringRiders ==
    ASSUME NEW p, NEW t, AloneAt(t, p), queue'[p] = queue[p],
           NEW S, flow'[p].waiters = flow[p].waiters \ S, t \in S => t \in flow[p].waiters
    PROVE  AloneAt(t, p)' /\ (At(t, p)' <=> At(t, p) /\ t \notin S)
<1>1. Rides(t, p)' = IF t \in S THEN {} ELSE Rides(t, p)
  BY DEF Rides
<1>2. Which(t)' = Which(t)
  BY DEF Which
<1>3. CASE t \in S
  <2>1. \A k \in DOMAIN queue[p] : queue[p][k] \notin Which(t)
    BY <1>3, RidersAreThere
  <2> QED
    BY <1>1, <1>2, <1>3, <2>1 DEF AloneAt, Alone, At, Sits
<1>4. CASE t \notin S
  BY <1>1, <1>2, <1>4 DEF AloneAt, Alone, At, Sits
<1> QED
  BY <1>3, <1>4

LEMMA LeavingTheFlow ==
    ASSUME HInv, NEW u \in Tickets, NEW o \in Objects, LeavesFlow(u, o), beside' = beside,
           NEW t \in Tickets
    PROVE  KeptOnce(t)'
<1>1. KeptOnce(t) /\ \A p \in Objects : AloneAt(t, p)
  BY DEF HInv, KeptOnce, AloneAt
<1>2. AloneAt(t, o)' /\ (At(t, o)' <=> At(t, o) /\ t \notin {u})
  <2>1. t \in {u} => t \in flow[o].waiters
    BY DEF LeavesFlow
  <2> QED
    BY <1>1, <2>1, AnsweringRiders DEF LeavesFlow
<1>3. \A p \in Objects \ {o} : AloneAt(t, p)' /\ (At(t, p)' <=> At(t, p))
  BY <1>1, UntouchedKeepsTickets DEF LeavesFlow
<1>4. t \in {u} => At(t, o)
  BY <1>1, RidersAreThere DEF LeavesFlow
<1>5. reply'[t] = "open" <=> reply[t] = "open" /\ t \notin {u}
  BY DEF LeavesFlow, Answered
<1>6. \A p \in Objects : AloneAt(t, p)' /\ (At(t, p)' => At(t, p))
  BY <1>2, <1>3
<1>7. t \in {u} => \E q \in Objects : At(t, q) /\ ~At(t, q)'
  BY <1>2, <1>4
<1>8. t \notin {u} => \A p \in Objects : At(t, p) => At(t, p)'
  BY <1>2, <1>3
<1> QED
  BY <1>1, <1>5, <1>6, <1>7, <1>8, LeavingKeepsOnce

LEMMA LeavingTheQueue ==
    ASSUME HInv, IInv', NEW u \in Tickets, NEW o \in Objects, NEW k \in DOMAIN queue[o],
           LeavesQueue(u, o, k), beside' = beside, buffer' = buffer, NEW t \in Tickets
    PROVE  KeptOnce(t)'
<1> DEFINE freed == ParkedOn(queue[o][k].intent)
<1>1. KeptOnce(t) /\ SInv /\ \A p \in Objects : AloneAt(t, p)
  BY DEF HInv, KeptOnce, AloneAt
<1>2. /\ freed \subseteq Objects /\ o \notin freed /\ \A p \in freed : Parked(p)
      /\ queue[o] \in Seq(Request)
  <2>1. Apart(o, flow[o], queue[o]) /\ queue[o] \in Seq(Request)
    BY <1>1 DEF SInv, Waiting, EInv, IInv, Healthy
  <2> QED
    BY <2>1 DEF ParkedOn, Apart
<1>3. /\ queue[o][k].id = u
      /\ \A p \in freed : Freed(p, buffer[p])
      /\ flow'[o] = flow[o] /\ queue'[o] = RemoveAt(queue[o], k)
      /\ \A p \in Objects : p \notin freed /\ p # o => Untouched(p)
      /\ reply'[t] = IF t = u THEN "Interrupted"
              ELSE IF \E p \in freed : t \in AnsweredOnRelease(p, buffer[p]) THEN "Ok"
              ELSE reply[t]
  BY <1>2 DEF LeavesQueue
<1> HIDE DEF freed
<1> DEFINE L == {u} \cup {s \in Tickets : \E p \in freed : s \in AnsweredOnRelease(p, buffer[p])}
<1>4. t \in L <=> t = u \/ \E p \in freed : t \in AnsweredOnRelease(p, buffer[p])
  OBVIOUS
<1> HIDE DEF L
<1>5. AloneAt(t, o)' /\ (At(t, o)' <=> At(t, o) /\ t # u)
  <2>1. Rides(t, o)' = Rides(t, o) /\ Which(t)' = Which(t)
    BY <1>3 DEF Rides, Which
  <2>2. queue[o][k] \in Which(t) <=> t = u
    BY <1>2, <1>3 DEF Which
  <2>3. /\ Alone(Which(t), Rides(t, o), RemoveAt(queue[o], k))
        /\ Sits(Which(t), Rides(t, o), RemoveAt(queue[o], k)) <=> At(t, o) /\ t # u
    BY <1>1, <1>2, <2>2, RemovingSits DEF AloneAt, At
  <2> QED
    BY <1>3, <2>1, <2>3 DEF AloneAt, At, Alone, Sits
<1>6. t = u => At(t, o)
  BY <1>2, <1>3 DEF At, Sits, Which
<1>7. ASSUME NEW p \in freed
      PROVE  /\ AloneAt(t, p)'
             /\ t \in AnsweredOnRelease(p, buffer[p]) => At(t, p)
             /\ At(t, p)' <=> At(t, p) /\ t \notin AnsweredOnRelease(p, buffer[p])
  <2>1. p \in Objects /\ Parked(p) /\ Freed(p, buffer'[p]) /\ AloneAt(t, p)
    BY <1>1, <1>2, <1>3, <1>7
  <2> QED
    BY <1>1, <2>1, TheParkedKeepTickets
<1>8. \A p \in Objects : p \notin freed /\ p # o => AloneAt(t, p)' /\ (At(t, p)' <=> At(t, p))
  BY <1>1, <1>3, UntouchedKeepsTickets
<1>9. \A p \in Objects : AloneAt(t, p)' /\ (At(t, p)' => At(t, p))
  BY <1>5, <1>7, <1>8
<1>10. t \in L => \E q \in Objects : At(t, q) /\ ~At(t, q)'
  BY <1>2, <1>4, <1>5, <1>6, <1>7
<1>11. t \notin L => \A p \in Objects : At(t, p) => At(t, p)'
  BY <1>4, <1>5, <1>7, <1>8
<1>12. reply'[t] = "open" <=> reply[t] = "open" /\ t \notin L
  BY <1>3, <1>4
<1> QED
  BY <1>1, <1>9, <1>10, <1>11, <1>12, LeavingKeepsOnce

LEMMA AbandonKeepsHeld ==
    ASSUME HInv, IInv', NEW u \in Tickets, Abandon(u), NEW t \in Tickets
    PROVE  KeptOnce(t)'
<1>1. IInv /\ beside' = beside /\ buffer' = buffer
  BY DEF HInv, SInv, EInv, Abandon
<1> QED
  BY <1>1, AbandonPlaces, LeavingTheFlow, LeavingTheQueue

LEMMA GoingAheadKeepsHeld ==
    ASSUME HInv, NEW o \in Objects, GoesAhead(o), beside' = beside, NEW t \in Tickets
    PROVE  KeptOnce(t)'
<1>1. KeptOnce(t) /\ \A p \in Objects : AloneAt(t, p)
  BY DEF HInv, KeptOnce, AloneAt
<1>2. \A p \in Objects \ {o} : AloneAt(t, p)' /\ (At(t, p)' <=> At(t, p))
  BY <1>1, UntouchedKeepsTickets DEF GoesAhead
<1>3. \E S : /\ flow'[o].waiters = flow[o].waiters \ S /\ S \subseteq flow[o].waiters
             /\ reply'[t] = "open" <=> reply[t] = "open" /\ t \notin S
  <2>1. CASE flow'[o].waiters = flow[o].waiters /\ reply' = reply
    <3> DEFINE S == {}
    <3>1. /\ flow'[o].waiters = flow[o].waiters \ S /\ S \subseteq flow[o].waiters
          /\ reply'[t] = "open" <=> reply[t] = "open" /\ t \notin S
      BY <2>1
    <3> HIDE DEF S
    <3> QED
      BY <3>1
  <2>2. CASE flow'[o].waiters = {} /\ reply' = Answered(flow[o].waiters, "Ok")
    <3> DEFINE S == flow[o].waiters
    <3>1. /\ flow'[o].waiters = flow[o].waiters \ S /\ S \subseteq flow[o].waiters
          /\ reply'[t] = "open" <=> reply[t] = "open" /\ t \notin S
      BY <2>2 DEF Answered
    <3> HIDE DEF S
    <3> QED
      BY <3>1
  <2> QED
    BY <2>1, <2>2 DEF GoesAhead
<1>4. PICK S : /\ flow'[o].waiters = flow[o].waiters \ S /\ S \subseteq flow[o].waiters
               /\ reply'[t] = "open" <=> reply[t] = "open" /\ t \notin S
  BY <1>3
<1>5. AloneAt(t, o)' /\ (At(t, o)' <=> At(t, o) /\ t \notin S)
  BY <1>1, <1>4, AnsweringRiders DEF GoesAhead
<1>6. t \in S => At(t, o)
  BY <1>1, <1>4, RidersAreThere
<1>7. \A p \in Objects : AloneAt(t, p)' /\ (At(t, p)' => At(t, p))
  BY <1>2, <1>5
<1>8. t \in S => \E q \in Objects : At(t, q) /\ ~At(t, q)'
  BY <1>5, <1>6
<1>9. t \notin S => \A p \in Objects : At(t, p) => At(t, p)'
  BY <1>2, <1>5
<1> QED
  BY <1>1, <1>4, <1>7, <1>8, <1>9, LeavingKeepsOnce

LEMMA HandingOnKeepsHeld ==
    ASSUME HInv, NEW o \in Objects, NEW w \in flow[o].waiters, NEW child \in Objects,
           HandsOn(o, child, w), beside' = beside, NEW t \in Tickets
    PROVE  KeptOnce(t)'
<1> DEFINE r == [id |-> w, intent |-> HandedOver(o, flow[o].intent)]
<1>1. /\ KeptOnce(t) /\ \A p \in Objects : AloneAt(t, p)
      /\ IInv /\ Waiting(child) /\ Waiting(o)
  BY DEF HInv, SInv, EInv, KeptOnce, AloneAt
<1>2. r \in Request /\ r.id = w
  <2>1. flow[o] \in Flow /\ child \in Objects \ {o}
    BY <1>1 DEF IInv, Healthy, HandsOn
  <2>2. Addressed(r, child)
    BY <2>1, HandedOverIsAddressed DEF Flow
  <2> QED
    BY <2>2 DEF Addressed
<1> HIDE DEF r
<1>3. Takes(child, r) /\ child # o
  BY DEF HandsOn, r
<1>4. \A p \in Objects \ {o, child} : AloneAt(t, p)' /\ (At(t, p)' <=> At(t, p))
  BY <1>1, UntouchedKeepsTickets DEF HandsOn
<1>5. \A v \in flow[o].waiters : v = w
  BY <1>1 DEF Waiting, Shape, HandsOn
<1>6. AloneAt(t, o)' /\ (At(t, o)' <=> At(t, o) /\ t # w)
  <2>1. /\ t \in {w} => t \in flow[o].waiters
        /\ flow'[o].waiters = flow[o].waiters \ {w} /\ queue'[o] = queue[o]
    BY <1>5 DEF HandsOn
  <2>2. AloneAt(t, o)' /\ (At(t, o)' <=> At(t, o) /\ t \notin {w})
    BY <1>1, <2>1, AnsweringRiders
  <2> QED
    BY <2>2
<1>7. t = w => At(t, o)
  BY <1>1, RidersAreThere
<1>8. t = w => ~At(t, child)
  BY <1>1, <1>3, <1>7 DEF KeptOnce
<1>9. AloneAt(t, child)' /\ (At(t, child)' <=> At(t, child) \/ t = w)
  BY <1>1, <1>2, <1>3, <1>8, SendingKeepsTickets
<1>10. Beside(t)' = Beside(t) /\ reply'[t] = reply[t]
  BY DEF Beside, HandsOn
<1>11. CASE t = w
  <2>1. ~Beside(t) /\ reply[t] = "open" /\ \A p \in Objects \ {o} : ~At(t, p)
    BY <1>1, <1>7, <1>11 DEF KeptOnce
  <2>2. \A p \in Objects : AloneAt(t, p)' /\ (At(t, p)' <=> p = child)
    BY <1>3, <1>4, <1>6, <1>9, <1>11, <2>1
  <2>3. /\ \A p, q \in Objects : At(t, p)' /\ At(t, q)' => p = q
        /\ \A p \in Objects : At(t, p)' => ~Beside(t)'
        /\ reply'[t] = "open" <=> Beside(t)' \/ \E p \in Objects : At(t, p)'
    BY <1>10, <2>1, <2>2
  <2>4. \A x, y \in beside' : x.id = t /\ y.id = t => x = y
    BY <1>1 DEF KeptOnce
  <2>5. \A p \in Objects : Alone(Which(t), Rides(t, p), queue[p])'
    BY <2>2 DEF AloneAt
  <2> QED
    BY <2>3, <2>4, <2>5 DEF KeptOnce
<1>12. CASE t # w
  <2>1. \A p \in Objects : AloneAt(t, p)' /\ (At(t, p)' <=> At(t, p))
    BY <1>4, <1>6, <1>9, <1>12
  <2>2. ASSUME NEW L, t \notin L PROVE KeptOnce(t)'
    BY <1>1, <1>10, <2>1, <2>2, AnsweringKeepsOnce
  <2>3. t \notin {}
    OBVIOUS
  <2> QED
    BY <2>2, <2>3, Zenon
<1> QED
  BY <1>11, <1>12

LEMMA LettingGoKeepsHeld ==
    ASSUME HInv, IInv', NEW o \in Objects, ~Parked(o), LetsGo(o), beside' = beside,
           NEW t \in Tickets
    PROVE  KeptOnce(t)'
<1> DEFINE kin == ParkedOn(flow[o].intent)
           freed == {o} \cup kin
           onTheWay == \E p \in freed : t \in AnsweredOnRelease(p, buffer'[p])
           L == {s \in Tickets : \/ s \in flow[o].waiters
                                 \/ \E p \in freed : s \in AnsweredOnRelease(p, buffer'[p])}
<1>1. KeptOnce(t) /\ SInv /\ IInv /\ \A p \in Objects : AloneAt(t, p)
  BY DEF HInv, SInv, EInv, KeptOnce, AloneAt
<1>2. kin \subseteq Objects /\ o \notin kin /\ \A p \in kin : Parked(p)
  BY DEF ParkedOn
<1>3. /\ \A p \in kin : Freed(p, buffer'[p])
      /\ Freed(o, buffer'[o])
      /\ \A p \in Objects : p \notin kin /\ p # o => Untouched(p)
      /\ IF t \in flow[o].waiters THEN reply'[t] \in Outcomes
         ELSE IF onTheWay THEN reply'[t] = "Ok"
         ELSE reply'[t] = reply[t]
  BY DEF LetsGo
<1>4. /\ t \in L <=> t \in flow[o].waiters \/ onTheWay
      /\ onTheWay <=> \/ t \in AnsweredOnRelease(o, buffer'[o])
                      \/ \E p \in kin : t \in AnsweredOnRelease(p, buffer'[p])
  OBVIOUS
<1> HIDE DEF L, onTheWay, freed, kin
<1>5. /\ AloneAt(t, o)'
      /\ t \in AnsweredOnRelease(o, buffer'[o]) => At(t, o)
      /\ At(t, o)' <=> /\ \E k \in DOMAIN queue[o] : queue[o][k].id = t
                       /\ t \notin AnsweredOnRelease(o, buffer'[o])
  <2>1. buffer'[o] \in Buffer /\ queue'[o] \in Seq(Request)
    BY DEF IInv, RestOK, Healthy
  <2> QED
    BY <1>1, <1>3, <2>1, FreedKeepsTickets
<1>6. At(t, o) <=> t \in flow[o].waiters \/ \E k \in DOMAIN queue[o] : queue[o][k].id = t
  <2>1. queue[o] \in Seq(Request)
    BY <1>1 DEF IInv, Healthy
  <2> QED
    BY <2>1 DEF At, Sits, Rides, Which
<1>7. t \in flow[o].waiters => ~\E k \in DOMAIN queue[o] : queue[o][k].id = t
  <2>1. queue[o] \in Seq(Request)
    BY <1>1 DEF IInv, Healthy
  <2> QED
    BY <1>1, <2>1, RidersAreThere DEF Which
<1>8. ASSUME NEW p \in kin
      PROVE  /\ AloneAt(t, p)'
             /\ t \in AnsweredOnRelease(p, buffer'[p]) => At(t, p)
             /\ At(t, p)' <=> At(t, p) /\ t \notin AnsweredOnRelease(p, buffer'[p])
  <2>1. p \in Objects /\ Parked(p) /\ Freed(p, buffer'[p]) /\ AloneAt(t, p)
    BY <1>1, <1>2, <1>3, <1>8
  <2> QED
    BY <1>1, <2>1, TheParkedKeepTickets
<1>9. \A p \in Objects : p \notin kin /\ p # o => AloneAt(t, p)' /\ (At(t, p)' <=> At(t, p))
  BY <1>1, <1>3, UntouchedKeepsTickets
<1>10. \A p \in Objects : AloneAt(t, p)' /\ (At(t, p)' => At(t, p))
  BY <1>5, <1>6, <1>8, <1>9
<1>11. t \in L => \E q \in Objects : At(t, q) /\ ~At(t, q)'
  BY <1>2, <1>4, <1>5, <1>6, <1>7, <1>8
<1>12. t \notin L => \A p \in Objects : At(t, p) => At(t, p)'
  BY <1>4, <1>5, <1>6, <1>8, <1>9
<1>13. reply'[t] = "open" <=> reply[t] = "open" /\ t \notin L
  BY <1>3, <1>4 DEF Outcomes, Failures
<1> QED
  BY <1>1, <1>10, <1>11, <1>12, <1>13, LeavingKeepsOnce

LEMMA CompleteKeepsHeld ==
    ASSUME HInv, IInv', NEW o \in Objects, Complete(o), NEW t \in Tickets
    PROVE  KeptOnce(t)'
<1>1. EInv /\ beside' = beside /\ ~Parked(o)
  BY DEF HInv, SInv, Complete, Finishes
<1> QED
  BY <1>1, CompletionPlaces, GoingAheadKeepsHeld, HandingOnKeepsHeld, LettingGoKeepsHeld

LEMMA CompleteBesideKeepsHeld ==
    ASSUME HInv, CompleteBeside, NEW t \in Tickets
    PROVE  KeptOnce(t)'
<1>1. KeptOnce(t) /\ IInv /\ \A p \in Objects : AloneAt(t, p)
  BY DEF HInv, SInv, EInv, KeptOnce, AloneAt
<1>2. PICK r \in beside : \E outcome \in Outcomes \ {"Interrupted"} :
             /\ reply' = Answered({r.id}, outcome)
             /\ beside' = beside \ {r}
             /\ UNCHANGED <<flow, queue, buffer, posted, abandoned, unsent>>
  BY <1>1, BesideIsAnswered
<1> DEFINE L == {r.id}
<1>3. reply'[t] = "open" <=> reply[t] = "open" /\ t \notin L
  BY <1>2 DEF Answered, Outcomes, Failures
<1>4. t \in L => Beside(t) /\ \A s \in beside : s.id = t => s = r
  BY <1>1, <1>2 DEF Beside, KeptOnce
<1>5. Beside(t)' <=> Beside(t) /\ t \notin L
  <2>1. CASE t \in L
    BY <1>2, <1>4, <2>1 DEF Beside
  <2>2. CASE t \notin L
    BY <1>2, <2>2 DEF Beside
  <2> QED
    BY <2>1, <2>2
<1> HIDE DEF L
<1>6. \A p \in Objects : Untouched(p)
  BY <1>2 DEF Untouched
<1>7. \A p \in Objects : AloneAt(t, p)' /\ (At(t, p)' <=> At(t, p) /\ t \notin L)
  BY <1>1, <1>4, <1>6, UntouchedKeepsTickets DEF KeptOnce
<1>8. \A s \in beside' : s.id = t => s \in beside
  BY <1>2
<1> QED
  BY <1>1, <1>3, <1>5, <1>7, <1>8, AnsweringKeepsOnce

LEMMA NextKeepsHeld == HInv /\ [Next]_vars => HInv'
<1> SUFFICES ASSUME HInv, [Next]_vars PROVE HInv'
  OBVIOUS
<1>1. SInv /\ IInv /\ IInv' /\ SInv' /\ \A t \in Tickets : KeptOnce(t)
  BY NextKeepsWaiting DEF HInv, SInv, EInv
<1> SUFFICES ASSUME NEW t \in Tickets PROVE KeptOnce(t)'
  BY <1>1 DEF HInv
<1>2. ASSUME NEW u \in Tickets, Submit(u) PROVE KeptOnce(t)'
  <2>1. PICK a \in Asks : Receives(u, a)
    BY <1>2 DEF Submit
  <2> DEFINE r == [id |-> u, intent |-> a.intent]
  <2>2. Arrives(a.on, r) /\ a.on \in Objects /\ r \in Request /\ r.id = u
    BY <2>1, AsksAssumption DEF Receives, Request
  <2>3. reply[u] = "new"
    BY <2>1 DEF Receives, IsNext
  <2> HIDE DEF r
  <2> QED
    BY <1>1, <2>2, <2>3, ArrivalKeepsOnce
<1>3. CASE Deliver
  <2>1. Head(posted) \in [on : Objects, intent : {Publishing}]
    BY <1>1, <1>3, HeadAndTail DEF Deliver, IInv, RestOK
  <2>2. Head(posted).on \in Objects /\ Head(posted).intent = Publishing
    BY <2>1
  <2>3. Arrives(Head(posted).on, NoRequest)
    BY <1>3, <2>2 DEF Deliver, NoRequest
  <2> QED
    BY <1>1, <2>2, <2>3, NoRequestType, TicketsAssumption, ArrivalKeepsOnce
<1>4. ASSUME NEW u \in Tickets, Abandon(u) PROVE KeptOnce(t)'
  BY <1>1, <1>4, AbandonKeepsHeld
<1>5. ASSUME NEW o \in Objects, Complete(o) PROVE KeptOnce(t)'
  BY <1>1, <1>5, CompleteKeepsHeld
<1>6. CASE CompleteBeside
  BY <1>6, CompleteBesideKeepsHeld
<1>7. CASE Rest \/ UNCHANGED vars
  <2>1. UNCHANGED vars
    BY <1>7 DEF Rest
  <2> QED
    BY <1>1, <2>1 DEF vars, KeptOnce, At, Sits, Alone, Rides, Which, Beside
<1> QED
  BY <1>2, <1>3, <1>4, <1>5, <1>6, <1>7 DEF Next

LEMMA InitHInv == Init => HInv
<1> SUFFICES ASSUME Init PROVE HInv
  OBVIOUS
<1>1. /\ \A p \in Objects : flow[p] = IdleFlow /\ queue[p] = <<>>
      /\ beside = {} /\ \A t \in Tickets : reply[t] = "new"
  BY DEF Init
<1>2. IdleFlow.waiters = {} /\ DOMAIN <<>> = {}
  BY DEF IdleFlow
<1>3. \A t \in Tickets : KeptOnce(t)
  BY <1>1, <1>2 DEF KeptOnce, At, Sits, Alone, Rides, Beside
<1> QED
  BY <1>3, InitSInv DEF HInv

\* A caller that is owed an answer is held in exactly one place, and nobody who
\* was answered is held anywhere (machine.rs request, settle, abandon,
\* on_beside): whatever joins, queues, is handed to a child, is answered on the
\* way or gives up, nobody is forgotten and nobody is answered twice.
THEOREM EveryCallerIsHeldOnce == Spec => []HeldOnce
<1>1. HInv => HeldOnce
  BY HeldOnceFollows DEF HInv, SInv, EInv
<1> QED
  BY <1>1, InitHInv, NextKeepsHeld, PTL DEF Spec

-----------------------------------------------------------------------------
(* Hand-overs. HandsFor(q, o): a hand-over of directory q runs on o, or     *)
(* queues there.                                                            *)

From(q) == {r \in Request : r.intent.from = q}
Bears(q, o) == {flow[o].intent.from} \cap {q}
HandsFor(q, o) == Sits(From(q), Bears(q, o), queue[o])
AloneFor(q, o) == Alone(From(q), Bears(q, o), queue[o])

OnceFor(q) ==
    /\ \A o \in Objects : AloneFor(q, o)
    /\ \A o, p \in Objects : HandsFor(q, o) /\ HandsFor(q, p) => o = p
    /\ Parked(q) <=> \E o \in Objects : HandsFor(q, o)

PInv == SInv /\ \A q \in Objects : OnceFor(q)

LEMMA OneHandoverFollows ==
    ASSUME PInv PROVE ParkedHasOneHandover
<1> SUFFICES ASSUME NEW q \in Objects
             PROVE  IF Parked(q) THEN \E h \in HandOvers(q) : HandOvers(q) = {h}
                                 ELSE HandOvers(q) = {}
  BY DEF ParkedHasOneHandover
<1>1. /\ OnceFor(q)
      /\ \A o \in Objects : queue[o] \in Seq(Request) /\ (~Busy(o) => flow[o].intent.from # q)
  BY ObjectsAssumption DEF PInv, SInv, EInv, IInv, Healthy, Waiting, Shape, Busy
<1>2. \A o \in Objects : \A k \in DOMAIN queue[o] :
        queue[o][k].intent.from = q <=> queue[o][k] \in From(q)
  BY <1>1 DEF From
<1>3. \A x : x \in HandOvers(q) <=>
        \/ \E o \in Objects : Bears(q, o) # {} /\ x = <<o, 0>>
        \/ \E o \in Objects : \E k \in DOMAIN queue[o] :
              queue[o][k] \in From(q) /\ x = <<o, k>>
  <2> DEFINE running == {<<o, 0>> : o \in {o \in Objects : Busy(o) /\ flow[o].intent.from = q}}
             queueing(o) == {<<o, k>> : k \in {k \in DOMAIN queue[o] : queue[o][k].intent.from = q}}
             queued  == UNION {queueing(o) : o \in Objects}
  <2>1. HandOvers(q) = running \cup queued
    BY DEF HandOvers, running, queued, queueing
  <2>2. \A x : x \in running <=> \E o \in Objects : Bears(q, o) # {} /\ x = <<o, 0>>
    BY <1>1 DEF Bears
  <2>3. \A o \in Objects : \A x : x \in queueing(o) <=>
            \E k \in DOMAIN queue[o] : queue[o][k] \in From(q) /\ x = <<o, k>>
    BY <1>2
  <2> HIDE DEF running, queueing
  <2>5. \A x : x \in queued <=> \E o \in Objects : x \in queueing(o)
    OBVIOUS
  <2> HIDE DEF queued
  <2>6. \A x : x \in HandOvers(q) <=> x \in running \/ x \in queued
    BY <2>1
  <2> QED
    BY <2>2, <2>3, <2>5, <2>6
<1>4. CASE ~Parked(q)
  <2>1. \A o \in Objects : ~HandsFor(q, o)
    BY <1>1, <1>4 DEF OnceFor
  <2>2. HandOvers(q) = {}
    BY <1>3, <2>1 DEF HandsFor, Sits
  <2> QED
    BY <1>4, <2>2
<1>5. CASE Parked(q)
  <2>1. PICK o \in Objects : HandsFor(q, o)
    BY <1>1, <1>5 DEF OnceFor
  <2>2. \A p \in Objects : HandsFor(q, p) => p = o
    BY <1>1, <2>1 DEF OnceFor
  <2>3. AloneFor(q, o)
    BY <1>1 DEF OnceFor
  <2>4. CASE Bears(q, o) # {}
    <3>1. HandOvers(q) = {<<o, 0>>}
      BY <1>3, <2>2, <2>3, <2>4 DEF HandsFor, Sits, AloneFor, Alone
    <3> QED
      BY <1>5, <3>1
  <2>5. ASSUME NEW k \in DOMAIN queue[o], queue[o][k] \in From(q)
        PROVE  HandOvers(q) = {<<o, k>>}
    BY <1>3, <2>2, <2>3, <2>5 DEF HandsFor, Sits, AloneFor, Alone
  <2> QED
    BY <1>5, <2>1, <2>4, <2>5 DEF HandsFor, Sits
<1> QED
  BY <1>4, <1>5

LEMMA SameStepKeepsHandovers ==
    ASSUME NEW q, NEW o, flow'[o].intent = flow[o].intent, queue'[o] = queue[o]
    PROVE  (AloneFor(q, o)' <=> AloneFor(q, o)) /\ (HandsFor(q, o)' <=> HandsFor(q, o))
<1>1. Bears(q, o)' = Bears(q, o) /\ From(q)' = From(q)
  BY DEF Bears, From
<1> QED
  BY <1>1 DEF AloneFor, HandsFor, Alone, Sits

LEMMA SendingKeepsHandovers ==
    ASSUME IInv, NEW o \in Objects, Waiting(o), NEW r, Addressed(r, o), Takes(o, r) \/ Joined(o, r),
           NEW q \in Objects, AloneFor(q, o), r.intent.from = q => ~HandsFor(q, o)
    PROVE  /\ AloneFor(q, o)'
           /\ HandsFor(q, o)' <=> HandsFor(q, o) \/ r.intent.from = q
           /\ Parked(o)' <=> Parked(o)
<1>1. /\ flow[o] \in Flow /\ queue[o] \in Seq(Request) /\ (~Busy(o) => queue[o] = <<>>)
      /\ r \in Request
  BY DEF IInv, Healthy, Busy, Addressed
<1>2. r \in From(q) <=> r.intent.from = q
  BY <1>1 DEF From
<1>3. From(q)' = From(q)
  BY DEF From
<1>4. CASE Begun(o, r)
  <2>1. /\ flow[o].intent.from = NoObject /\ queue[o] = <<>> /\ queue'[o] = <<>>
        /\ flow'[o].intent = r.intent
    BY <1>1, <1>4 DEF Begun, Waiting, Shape, Busy, Start
  <2>2. Bears(q, o) = {} /\ (Bears(q, o)' # {} <=> r.intent.from = q)
    BY <2>1, ObjectsAssumption DEF Bears
  <2>3. DOMAIN queue'[o] = {} /\ DOMAIN queue[o] = {}
    BY <2>1
  <2>4. ~Parked(o) /\ ~Parked(o)'
    BY <1>1, <1>4, StartShape DEF Begun, Parked, Busy, Addressed
  <2> QED
    BY <2>2, <2>3, <2>4 DEF AloneFor, HandsFor, Alone, Sits
<1>5. CASE Rests(o) /\ queue'[o] = Append(queue[o], r)
  <2>1. Bears(q, o)' = Bears(q, o) /\ (Parked(o)' <=> Parked(o))
    BY <1>5 DEF Rests, Bears, Parked
  <2>2. /\ Sits(From(q), Bears(q, o), Append(queue[o], r)) <=> HandsFor(q, o) \/ r.intent.from = q
        /\ Alone(From(q), Bears(q, o), Append(queue[o], r))
    BY <1>1, <1>2, AppendingSits DEF AloneFor, HandsFor
  <2> QED
    BY <1>3, <1>5, <2>1, <2>2 DEF AloneFor, HandsFor, Sits, Alone
<1>6. CASE Joined(o, r)
  <2>1. /\ flow'[o].intent = flow[o].intent /\ flow'[o].step = flow[o].step /\ queue'[o] = queue[o]
        /\ r.intent.kind \in {"Fetch", "Enumerate"}
    BY <1>1, <1>6 DEF Joined, Flow
  <2>2. r.intent.from # q
    BY <2>1, ObjectsAssumption DEF Addressed
  <2> QED
    BY <2>1, <2>2, SameStepKeepsHandovers DEF Parked
<1> QED
  BY <1>4, <1>5, <1>6 DEF Takes

\* An object that is freed is not parked; what was handed to its queue is there.
LEMMA FreedKeepsHandovers ==
    ASSUME IInv, NEW o \in Objects, Waiting(o), NEW b \in Buffer, Freed(o, b),
           queue'[o] \in Seq(Request), NEW q \in Objects, AloneFor(q, o)
    PROVE  /\ AloneFor(q, o)'
           /\ HandsFor(q, o)' <=> \E k \in DOMAIN queue[o] : queue[o][k].intent.from = q
           /\ ~Parked(o)'
<1>1. TypeOK /\ queue[o] \in Seq(Request) /\ Stamped(queue[o])
  BY IInvSaysSo DEF IInv, Healthy, Waiting
<1>2. /\ Bears(q, o)' # {} <=> NeedsAJob(o, b) # {} /\ queue[o][NextUp(o, b)] \in From(q)
      /\ ~Parked(o)'
  <2>1. CASE NeedsAJob(o, b) = {}
    BY <2>1, ObjectsAssumption DEF Freed, FlowReleased, IdleFlow, NoIntent, Bears, Parked
  <2>2. CASE NeedsAJob(o, b) # {}
    <3> DEFINE x == queue[o][NextUp(o, b)]
    <3>1. flow'[o] = Start(o, x.intent, x.id, b) /\ x \in Request /\ NextUp(o, b) \in DOMAIN queue[o]
      BY <1>1, <2>2, ReleasingShifts DEF Freed
    <3>2. x.intent.from # NoObject => x.intent.kind \in {"Delete", "Relocate"}
      BY <1>1, <3>1 DEF Stamped
    <3>3. flow'[o].intent = x.intent
      BY <3>1 DEF Start
    <3>4. ~Parked(o)'
      <4> HIDE DEF x
      <4> QED
        BY <3>1, <3>2, StartShape DEF Parked
    <3> QED
      BY <2>2, <3>1, <3>3, <3>4 DEF Bears, From
  <2> QED
    BY <2>1, <2>2
<1>3. /\ Alone(From(q), Bears(q, o)', queue'[o])
      /\ Sits(From(q), Bears(q, o)', queue'[o]) <=>
            \E k \in DOMAIN queue[o] : queue[o][k] \in From(q) /\ ~OnTheWay(o, b, k)
  <2>1. ASSUME NEW now, now = Bears(q, o)'
        PROVE  /\ Alone(From(q), now, queue'[o])
               /\ Sits(From(q), now, queue'[o]) <=>
                    \E k \in DOMAIN queue[o] : queue[o][k] \in From(q) /\ ~OnTheWay(o, b, k)
    BY <1>1, <1>2, <2>1, ReleasesSit DEF AloneFor
  <2> QED
    BY <2>1
<1>4. \A k \in DOMAIN queue[o] : queue[o][k].intent.from = q <=> queue[o][k] \in From(q)
  BY <1>1 DEF From
<1>5. ASSUME NEW k \in DOMAIN queue[o], OnTheWay(o, b, k), queue[o][k].intent.from = q
      PROVE  FALSE
  <2>1. k \notin NeedsAJob(o, b)
    <3>1. k \in Nat /\ ~(k < k)
      BY <1>1
    <3> QED
      BY <1>5, <3>1 DEF OnTheWay
  <2>2. queue[o][k].intent.kind = "Publish"
    BY <2>1 DEF NeedsAJob, AtOnce
  <2> QED
    BY <1>1, <1>5, <2>2, ObjectsAssumption DEF Stamped
<1>6. (HandsFor(q, o)' <=> Sits(From(q), Bears(q, o)', queue'[o]))
      /\ (AloneFor(q, o)' <=> Alone(From(q), Bears(q, o)', queue'[o]))
  BY DEF HandsFor, AloneFor, Sits, Alone, From
<1> QED
  BY <1>2, <1>3, <1>4, <1>5, <1>6

\* A directory that is parked runs a request of its own caller.
LEMMA TheParkedKeepHandovers ==
    ASSUME SInv, IInv', NEW p \in Objects, Parked(p), Freed(p, buffer'[p]),
           NEW q \in Objects, AloneFor(q, p)
    PROVE  /\ AloneFor(q, p)'
           /\ HandsFor(q, p)' <=> HandsFor(q, p)
           /\ ~Parked(p)'
<1>1. /\ IInv /\ buffer'[p] \in Buffer /\ queue'[p] \in Seq(Request) /\ queue[p] \in Seq(Request)
      /\ Waiting(p) /\ Bears(q, p) = {}
  BY ObjectsAssumption
  DEF SInv, EInv, IInv, RestOK, Healthy, Waiting, Shape, Parked, Bears
<1>2. HandsFor(q, p) <=> \E k \in DOMAIN queue[p] : queue[p][k].intent.from = q
  BY <1>1 DEF HandsFor, Sits, From
<1> QED
  BY <1>1, <1>2, FreedKeepsHandovers

LEMMA NothingHandedOver ==
    ASSUME NEW q \in Objects, OnceFor(q),
           \A o \in Objects : AloneFor(q, o)' /\ (HandsFor(q, o)' <=> HandsFor(q, o)),
           Parked(q)' <=> Parked(q)
    PROVE  OnceFor(q)'
  BY DEF OnceFor

\* The hand-over of q, on o, is over, and q goes on.
LEMMA HandoverIsOver ==
    ASSUME NEW q \in Objects, OnceFor(q), NEW o \in Objects, HandsFor(q, o),
           \A p \in Objects : AloneFor(q, p)' /\ (HandsFor(q, p)' <=> HandsFor(q, p) /\ p # o),
           ~Parked(q)'
    PROVE  OnceFor(q)'
<1>1. \A p \in Objects : ~HandsFor(q, p)'
  BY DEF OnceFor
<1> QED
  BY <1>1 DEF OnceFor

\* A request made for the object itself arrives: no hand-over starts or ends.
LEMMA ArrivalKeepsHandovers ==
    ASSUME PInv, NEW o \in Objects, NEW r, Addressed(r, o), r.intent.from = NoObject,
           Arrives(o, r), NEW q \in Objects
    PROVE  OnceFor(q)'
<1>1. /\ IInv /\ Waiting(o) /\ OnceFor(q) /\ \A p \in Objects : AloneFor(q, p)
      /\ r.intent.from # q
  BY ObjectsAssumption DEF PInv, SInv, EInv, OnceFor
<1>2. /\ \A p \in Objects \ {o} : Untouched(p)
      /\ Untouched(o) \/ Takes(o, r) \/ Joined(o, r)
  BY <1>1, ArrivalPlaces
<1>3. \A p \in Objects : Untouched(p) =>
        AloneFor(q, p)' /\ (HandsFor(q, p)' <=> HandsFor(q, p)) /\ (Parked(p)' <=> Parked(p))
  BY <1>1, SameStepKeepsHandovers DEF Untouched, Parked
<1>4. AloneFor(q, o)' /\ (HandsFor(q, o)' <=> HandsFor(q, o)) /\ (Parked(o)' <=> Parked(o))
  BY <1>1, <1>2, <1>3, SendingKeepsHandovers
<1> QED
  BY <1>1, <1>2, <1>3, <1>4, NothingHandedOver

LEMMA AbandonKeepsHandovers ==
    ASSUME PInv, IInv', NEW u \in Tickets, Abandon(u), NEW q \in Objects
    PROVE  OnceFor(q)'
<1>1. /\ SInv /\ IInv /\ OnceFor(q) /\ \A p \in Objects : AloneFor(q, p)
      /\ buffer' = buffer
  BY DEF PInv, SInv, EInv, OnceFor, Abandon
<1>2. \A p \in Objects : Untouched(p) =>
        AloneFor(q, p)' /\ (HandsFor(q, p)' <=> HandsFor(q, p)) /\ (Parked(p)' <=> Parked(p))
  BY <1>1, SameStepKeepsHandovers DEF Untouched, Parked
<1>3. ASSUME NEW o \in Objects, LeavesFlow(u, o) PROVE OnceFor(q)'
  <2>1. AloneFor(q, o)' /\ (HandsFor(q, o)' <=> HandsFor(q, o)) /\ (Parked(o)' <=> Parked(o))
    BY <1>1, <1>3, SameStepKeepsHandovers DEF LeavesFlow, Parked
  <2> QED
    BY <1>1, <1>2, <1>3, <2>1, NothingHandedOver DEF LeavesFlow
<1>4. ASSUME NEW o \in Objects, NEW k \in DOMAIN queue[o], LeavesQueue(u, o, k)
      PROVE  OnceFor(q)'
  <2> DEFINE i == queue[o][k].intent
             freed == ParkedOn(i)
  <2>1. /\ freed \subseteq Objects /\ o \notin freed /\ \A p \in freed : Parked(p)
        /\ queue[o] \in Seq(Request) /\ (q \in freed <=> q = i.from /\ Parked(q))
    <3>1. Apart(o, flow[o], queue[o]) /\ queue[o] \in Seq(Request)
      BY <1>1 DEF SInv, Waiting, EInv, IInv, Healthy
    <3> QED
      BY <3>1 DEF ParkedOn, Apart
  <2>2. /\ \A p \in freed : Freed(p, buffer[p])
        /\ flow'[o] = flow[o] /\ queue'[o] = RemoveAt(queue[o], k)
        /\ \A p \in Objects : p \notin freed /\ p # o => Untouched(p)
    BY <1>4, <2>1 DEF LeavesQueue
  <2> HIDE DEF freed
  <2>3. AloneFor(q, o)' /\ (HandsFor(q, o)' <=> HandsFor(q, o) /\ i.from # q)
                        /\ (Parked(o)' <=> Parked(o))
    <3>1. Bears(q, o)' = Bears(q, o) /\ From(q)' = From(q) /\ (Parked(o)' <=> Parked(o))
      BY <2>2 DEF Bears, From, Parked
    <3>2. queue[o][k] \in From(q) <=> i.from = q
      BY <2>1 DEF From
    <3>3. /\ Alone(From(q), Bears(q, o), RemoveAt(queue[o], k))
          /\ Sits(From(q), Bears(q, o), RemoveAt(queue[o], k)) <=> HandsFor(q, o) /\ i.from # q
      BY <1>1, <2>1, <3>2, RemovingSits DEF AloneFor, HandsFor
    <3> QED
      BY <2>2, <3>1, <3>3 DEF AloneFor, HandsFor, Alone, Sits
  <2>4. ASSUME NEW p \in freed
        PROVE  AloneFor(q, p)' /\ (HandsFor(q, p)' <=> HandsFor(q, p)) /\ ~Parked(p)'
    <3>1. p \in Objects /\ Parked(p) /\ Freed(p, buffer'[p]) /\ AloneFor(q, p)
      BY <1>1, <2>1, <2>2, <2>4
    <3> QED
      BY <1>1, <3>1, TheParkedKeepHandovers
  <2>5. CASE i.from = q
    <3>1. HandsFor(q, o)
      BY <2>1, <2>5 DEF HandsFor, Sits, From
    <3>2. Parked(q) /\ \A p \in Objects : HandsFor(q, p) => p = o
      BY <1>1, <3>1 DEF OnceFor
    <3>3. \A p \in Objects : AloneFor(q, p)' /\ (HandsFor(q, p)' <=> HandsFor(q, p) /\ p # o)
      BY <1>2, <2>2, <2>3, <2>4, <2>5, <3>2
    <3>4. ~Parked(q)'
      BY <2>1, <2>4, <2>5, <3>2
    <3> QED
      BY <1>1, <3>1, <3>3, <3>4, HandoverIsOver
  <2>6. CASE i.from # q
    <3>1. \A p \in Objects : AloneFor(q, p)' /\ (HandsFor(q, p)' <=> HandsFor(q, p))
      BY <1>2, <2>2, <2>3, <2>4, <2>6
    <3>2. Parked(q)' <=> Parked(q)
      BY <1>2, <2>1, <2>2, <2>3, <2>6
    <3> QED
      BY <1>1, <3>1, <3>2, NothingHandedOver
  <2> QED
    BY <2>5, <2>6
<1> QED
  BY <1>1, <1>3, <1>4, AbandonPlaces

LEMMA CompleteKeepsHandovers ==
    ASSUME PInv, IInv', NEW o \in Objects, Complete(o), NEW q \in Objects
    PROVE  OnceFor(q)'
<1>1. /\ SInv /\ EInv /\ IInv /\ OnceFor(q) /\ \A p \in Objects : AloneFor(q, p)
      /\ ~Parked(o) /\ flow[o] \in Flow
  BY DEF PInv, SInv, EInv, IInv, Healthy, OnceFor, Complete
<1>2. \A p \in Objects : Untouched(p) =>
        AloneFor(q, p)' /\ (HandsFor(q, p)' <=> HandsFor(q, p)) /\ (Parked(p)' <=> Parked(p))
  BY <1>1, SameStepKeepsHandovers DEF Untouched, Parked
<1>3. CASE GoesAhead(o)
  <2>1. AloneFor(q, o)' /\ (HandsFor(q, o)' <=> HandsFor(q, o)) /\ (Parked(o)' <=> Parked(o))
    BY <1>1, <1>3, SameStepKeepsHandovers DEF GoesAhead, Parked
  <2> QED
    BY <1>1, <1>2, <1>3, <2>1, NothingHandedOver DEF GoesAhead
<1>4. ASSUME NEW w \in flow[o].waiters, NEW child \in Objects, HandsOn(o, child, w)
      PROVE  OnceFor(q)'
  <2> DEFINE r == [id |-> w, intent |-> HandedOver(o, flow[o].intent)]
  <2>1. AloneFor(q, o)' /\ (HandsFor(q, o)' <=> HandsFor(q, o)) /\ Parked(o)' /\ child # o
    BY <1>1, <1>4, SameStepKeepsHandovers DEF HandsOn, Parked
  <2>2. Addressed(r, child) /\ r.intent.from = o
    BY <1>1, <1>4, <2>1, HandedOverIsAddressed DEF Flow, HandedOver, Intent
  <2> HIDE DEF r
  <2>3. Takes(child, r) /\ \A p \in Objects \ {o, child} : Untouched(p)
    BY <1>4 DEF HandsOn, r
  <2>4. r.intent.from = q => ~HandsFor(q, child)
    BY <1>1, <2>2 DEF OnceFor
  <2>5. Waiting(child)
    BY <1>1 DEF SInv
  <2>6. /\ AloneFor(q, child)'
        /\ HandsFor(q, child)' <=> HandsFor(q, child) \/ q = o
        /\ Parked(child)' <=> Parked(child)
    BY <1>1, <2>2, <2>3, <2>4, <2>5, SendingKeepsHandovers
  <2>7. CASE q = o
    <3>1. \A p \in Objects : ~HandsFor(q, p)
      BY <1>1, <2>7 DEF OnceFor
    <3>2. \A p \in Objects : AloneFor(q, p)' /\ (HandsFor(q, p)' <=> p = child)
      BY <1>2, <2>1, <2>3, <2>6, <2>7, <3>1
    <3> QED
      BY <2>1, <2>7, <3>2 DEF OnceFor
  <2>8. CASE q # o
    <3>1. \A p \in Objects : AloneFor(q, p)' /\ (HandsFor(q, p)' <=> HandsFor(q, p))
      BY <1>2, <2>1, <2>3, <2>6, <2>8
    <3>2. Parked(q)' <=> Parked(q)
      BY <1>2, <2>3, <2>6, <2>8
    <3> QED
      BY <1>1, <3>1, <3>2, NothingHandedOver
  <2> QED
    BY <2>7, <2>8
<1>5. CASE LetsGo(o)
  <2> DEFINE kin == ParkedOn(flow[o].intent)
  <2>1. /\ kin \subseteq Objects /\ o \notin kin /\ \A p \in kin : Parked(p)
        /\ q \in kin <=> q = flow[o].intent.from /\ Parked(q)
    BY <1>1 DEF ParkedOn
  <2>2. /\ \A p \in kin : Freed(p, buffer'[p])
        /\ Freed(o, buffer'[o])
        /\ \A p \in Objects : p \notin kin /\ p # o => Untouched(p)
    BY <1>5 DEF LetsGo
  <2> HIDE DEF kin
  <2>3. /\ AloneFor(q, o)' /\ ~Parked(o)'
        /\ HandsFor(q, o)' <=> \E k \in DOMAIN queue[o] : queue[o][k].intent.from = q
    <3>1. buffer'[o] \in Buffer /\ queue'[o] \in Seq(Request) /\ Waiting(o)
      BY <1>1 DEF IInv, RestOK, Healthy, SInv
    <3> QED
      BY <1>1, <2>2, <3>1, FreedKeepsHandovers
  <2>4. HandsFor(q, o)' <=> HandsFor(q, o) /\ flow[o].intent.from # q
    <3>1. queue[o] \in Seq(Request) /\ AloneFor(q, o)
      BY <1>1 DEF IInv, Healthy
    <3>2. \A k \in DOMAIN queue[o] : queue[o][k].intent.from = q <=> queue[o][k] \in From(q)
      BY <3>1 DEF From
    <3> QED
      BY <2>3, <3>1, <3>2 DEF HandsFor, AloneFor, Sits, Alone, Bears
  <2>5. ASSUME NEW p \in kin
        PROVE  AloneFor(q, p)' /\ (HandsFor(q, p)' <=> HandsFor(q, p)) /\ ~Parked(p)'
    <3>1. p \in Objects /\ Parked(p) /\ Freed(p, buffer'[p]) /\ AloneFor(q, p)
      BY <1>1, <2>1, <2>2, <2>5
    <3> QED
      BY <1>1, <3>1, TheParkedKeepHandovers
  <2>6. CASE flow[o].intent.from = q
    <3>1. HandsFor(q, o)
      BY <2>6 DEF HandsFor, Sits, Bears
    <3>2. Parked(q) /\ \A p \in Objects : HandsFor(q, p) => p = o
      BY <1>1, <3>1 DEF OnceFor
    <3>3. \A p \in Objects : AloneFor(q, p)' /\ (HandsFor(q, p)' <=> HandsFor(q, p) /\ p # o)
      BY <1>2, <2>2, <2>3, <2>4, <2>5, <2>6, <3>2
    <3>4. ~Parked(q)'
      BY <2>1, <2>5, <2>6, <3>2
    <3> QED
      BY <1>1, <3>1, <3>3, <3>4, HandoverIsOver
  <2>7. CASE flow[o].intent.from # q
    <3>1. \A p \in Objects : AloneFor(q, p)' /\ (HandsFor(q, p)' <=> HandsFor(q, p))
      BY <1>2, <2>2, <2>3, <2>4, <2>5, <2>7
    <3>2. Parked(q)' <=> Parked(q)
      BY <1>1, <1>2, <2>1, <2>2, <2>3, <2>7
    <3> QED
      BY <1>1, <3>1, <3>2, NothingHandedOver
  <2> QED
    BY <2>6, <2>7
<1> QED
  BY <1>1, <1>3, <1>4, <1>5, CompletionPlaces

LEMMA NextKeepsHandovers == PInv /\ [Next]_vars => PInv'
<1> SUFFICES ASSUME PInv, [Next]_vars PROVE PInv'
  OBVIOUS
<1>1. SInv /\ IInv /\ IInv' /\ SInv' /\ \A q \in Objects : OnceFor(q)
  BY NextKeepsWaiting DEF PInv, SInv, EInv
<1> SUFFICES ASSUME NEW q \in Objects PROVE OnceFor(q)'
  BY <1>1 DEF PInv
<1>2. ASSUME NEW u \in Tickets, Submit(u) PROVE OnceFor(q)'
  <2>1. PICK a \in Asks : Receives(u, a)
    BY <1>2 DEF Submit
  <2> DEFINE r == [id |-> u, intent |-> a.intent]
  <2>2. /\ Arrives(a.on, r) /\ a.on \in Objects /\ r \in Request /\ r.intent.from = NoObject
    BY <2>1, AsksAssumption DEF Receives, Request
  <2> HIDE DEF r
  <2>3. Addressed(r, a.on)
    BY <2>2, ObjectsAssumption DEF Addressed
  <2> QED
    BY <2>2, <2>3, ArrivalKeepsHandovers
<1>3. CASE Deliver
  <2>1. Head(posted) \in [on : Objects, intent : {Publishing}]
    BY <1>1, <1>3, HeadAndTail DEF Deliver, IInv, RestOK
  <2>2. Head(posted).on \in Objects /\ Head(posted).intent = Publishing
    BY <2>1
  <2>3. Arrives(Head(posted).on, NoRequest)
    BY <1>3, <2>2 DEF Deliver, NoRequest
  <2>4. NoRequest.intent.from = NoObject
    BY DEF NoRequest, Publishing, NoIntent
  <2> QED
    BY <2>2, <2>3, <2>4, NoRequestIsAddressed, ArrivalKeepsHandovers
<1>4. ASSUME NEW u \in Tickets, Abandon(u) PROVE OnceFor(q)'
  BY <1>1, <1>4, AbandonKeepsHandovers
<1>5. ASSUME NEW o \in Objects, Complete(o) PROVE OnceFor(q)'
  BY <1>1, <1>5, CompleteKeepsHandovers
<1>6. CASE CompleteBeside \/ Rest \/ UNCHANGED vars
  <2>1. flow' = flow /\ queue' = queue
    BY <1>6 DEF CompleteBeside, Rest, vars
  <2>2. \A o \in Objects : AloneFor(q, o)' /\ (HandsFor(q, o)' <=> HandsFor(q, o))
    BY <1>1, <2>1, SameStepKeepsHandovers DEF OnceFor
  <2>3. Parked(q)' <=> Parked(q)
    BY <2>1 DEF Parked
  <2> QED
    BY <1>1, <2>2, <2>3, NothingHandedOver
<1> QED
  BY <1>2, <1>3, <1>4, <1>5, <1>6 DEF Next

LEMMA InitPInv == Init => PInv
<1> SUFFICES ASSUME Init PROVE PInv
  OBVIOUS
<1>1. \A p \in Objects : flow[p] = IdleFlow /\ queue[p] = <<>>
  BY DEF Init
<1>2. IdleFlow.step = "Idle" /\ IdleFlow.intent.from = NoObject /\ DOMAIN <<>> = {}
  BY DEF IdleFlow, NoIntent
<1>3. \A q \in Objects : OnceFor(q)
  BY <1>1, <1>2, ObjectsAssumption DEF OnceFor, HandsFor, AloneFor, Sits, Alone, Bears, Parked
<1> QED
  BY <1>3, InitSInv DEF PInv

\* A directory is parked exactly while one hand-over of it is under way, running
\* on a child or queued there (machine.rs settle, release_ended, abandon): a
\* parked directory is always set free by somebody, and no listing is applied
\* to a directory halfway through its rename or delete.
THEOREM EveryParkedDirectoryHasItsHandover == Spec => []ParkedHasOneHandover
<1>1. PInv => ParkedHasOneHandover
  BY OneHandoverFollows
<1> QED
  BY <1>1, InitPInv, NextKeepsHandovers, PTL DEF Spec

=============================================================================
