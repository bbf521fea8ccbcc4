------------------------------- MODULE Script -------------------------------
(***************************************************************************)
(* The scripts of wusel's operations: what `start` and `advance` of        *)
(* wusel-fsm/src/script.rs decide, the collision policy of collision.rs    *)
(* and the buffer registry of registry.rs.                                 *)
(*                                                                         *)
(* Everything here is a pure operator, as it is in the code: a decision    *)
(* reads the flow, the completion that came back and the registry's facts, *)
(* and returns a move. Who runs flows, and when, is module Machine.        *)
(*                                                                         *)
(* Data is kept only as far as a decision reads it. Names, offsets, sizes  *)
(* and timestamps do not appear; a byte range and a version (etag) are     *)
(* opaque values, and a row is the set of yes/no facts that hold of it.    *)
(***************************************************************************)
EXTENDS Naturals, FiniteSets

CONSTANTS
    Objects,    \* inode numbers the model has
    NoObject,   \* ObjectId::default(), and "no parent is parked on this"
    Tickets,    \* RequestIds of callers; one request each
    Nobody,     \* RequestId(0): the id the decider gives to work it scheduled
    Ranges,     \* (offset, len) pairs a read may ask for
    NoRange,
    Versions,   \* etags the server hands out
    NoVersion   \* the empty etag

ASSUME ObjectsAssumption == NoObject \notin Objects
ASSUME TicketsAssumption == Nobody \notin Tickets
ASSUME RangesAssumption  == NoRange \notin Ranges
ASSUME VersionsAssumption == NoVersion \notin Versions

-----------------------------------------------------------------------------
(* Intents, jobs, rows, completions, buffers (lib.rs, registry.rs).        *)

Kinds == {"Fetch", "Write", "Stat", "Lookup", "State", "SetAttr", "Enumerate",
          "Materialise", "Publish", "Remove", "Move", "Relocate", "Delete",
          "Refresh", "Relist"}

\* What a SetAttr asks for -- size 0, another size, a timestamp, the executable
\* bit -- and whether a Materialise wants a directory.
Wishes == {"empty", "resize", "mtime", "exec", "dir"}

\* `from` is the parent a Relocate or Delete was handed over from.
Intent == [kind  : Kinds,
           range : Ranges \cup {NoRange},
           asks  : SUBSET Wishes,
           from  : Objects \cup {NoObject}]

\* Intent::changes_state
ChangesState(i) == i.kind \in {"Write", "SetAttr", "Materialise", "Publish",
                               "Remove", "Move", "Relocate", "Delete"}

Ops == {"ReadNode", "ReadChildren", "ReadChild", "ReadState", "TruncateBuffer",
        "RecordMtime", "RecordExec", "ReadBuffer", "ReadBlob", "FetchRange",
        "ListRemote", "BufferSize", "Upload", "ResolveConflict",
        "RecordVersion", "StoreBlob", "MarkPending", "ClearPending",
        "SetUploadError", "DiscardBuffer", "CreateBuffer", "WriteBuffer",
        "HydrateBuffer", "HydrateCache", "InsertNode", "CreateRemoteDir",
        "DeleteRemote", "MoveRemote", "RemoveRows", "MoveRows"}

Job(op, on) == [op |-> op, on |-> on]
NoJob == Job("None", NoObject)
Jobs == [op : Ops \cup {"None"}, on : Objects \cup {NoObject}]

RowFacts == {"found", "ignored", "dir", "writable", "nonempty", "blob_current",
             "stale_copy_ok", "materialised", "identified", "children_loaded",
             "listing_stale"}

Node == [id     : Objects \cup {NoObject},
         parent : Objects \cup {NoObject},
         is     : SUBSET RowFacts,
         etag   : Versions \cup {NoVersion}]

NoNode == [id |-> NoObject, parent |-> NoObject, is |-> {}, etag |-> NoVersion]

Failures == {"NotFound", "Stale", "WrongKind", "NotWritable", "Io",
             "Interrupted", "Permanent"}

\* Bytes, Listed, StateKnown, Size and Done say the same to every decision.
Completion == [kind : {"Done", "Node", "Uploaded", "Rejected", "Failed"},
               node : Node,
               etag : Versions \cup {NoVersion},
               why  : Failures \cup {"None"}]

Buffer == [open : BOOLEAN, dirty : BOOLEAN, ignored : BOOLEAN,
           mtime : BOOLEAN, base : Versions \cup {NoVersion}]

\* Facts::default(): no buffer in the registry.
NoBuffer == [open |-> FALSE, dirty |-> FALSE, ignored |-> FALSE,
             mtime |-> FALSE, base |-> NoVersion]

-----------------------------------------------------------------------------
(* Flows and moves (script.rs Flow, Step, Next).                           *)

Steps == {"FetchNode", "FetchBytes", "FetchPrune",
          "WriteNode", "WritePrepare", "WriteBytes",
          "StatNode", "LookNode", "LookRemote", "LookChild", "StateRead",
          "AttrNode", "AttrPrepare", "AttrTruncate", "AttrMtime", "AttrExec",
          "AttrFinal", "EnumNode", "EnumRemote", "EnumChildren",
          "MatInsert", "MatBuffer", "MatRemote", "MatList", "MatLookup",
          "PubNode", "PubCommit", "PubSize", "PubUpload", "PubConflict",
          "PubRecord", "PubStore", "PubReload", "PubClear", "PubError",
          "PubDiscard", "RemNode", "DelNode", "RemRemote", "RemBuffer",
          "RemRows", "MovNode", "RelNode", "MovRemote", "MovRows", "Handover",
          "RefNode", "RefHydrate", "RelistRemote"}

\* `job` is Busy::outstanding, `node` and `etag` are Flow::carry. Step "Idle"
\* stands for an object that has no entry in the machine's map.
Flow == [intent  : Intent,
         step    : Steps \cup {"Idle"},
         job     : Jobs,
         waiters : SUBSET (Tickets \cup {Nobody}),
         abort   : BOOLEAN,
         node    : Node,
         etag    : Versions \cup {NoVersion}]

NoIntent == [kind |-> "Stat", range |-> NoRange, asks |-> {}, from |-> NoObject]

IdleFlow == [intent |-> NoIntent, step |-> "Idle", job |-> NoJob,
             waiters |-> {}, abort |-> FALSE, node |-> NoNode,
             etag |-> NoVersion]

\* What the machine is told to do with a flow (Next), and the parts of the
\* flow the step changed. It never carries the intent, the waiters or `abort`:
\* no decision may touch those.
Move == [then : {"Do", "AnswerThen", "Handoff", "Done", "Fail", "Abandoned"},
         step : Steps, job : Jobs, node : Node,
         etag : Versions \cup {NoVersion}, why : Failures \cup {"None"}]

Go(then, f, step, job, why) ==
    [then |-> then, step |-> step, job |-> job, node |-> f.node,
     etag |-> f.etag, why |-> why]

Do(f, step, op, on)   == Go("Do", f, step, Job(op, on), "None")
Finish(f)             == Go("Done", f, f.step, NoJob, "None")
Fail(f, why)          == Go("Fail", f, f.step, NoJob, why)

Moved(f, m) == [f EXCEPT !.step = m.step, !.job = m.job, !.node = m.node,
                         !.etag = m.etag]

Knowing(f, n) == [f EXCEPT !.node = n]

-----------------------------------------------------------------------------
(* What may be claimed about the server when uploading (precondition).     *)

\* A bug to catch: what is on the server is taken to be ours to overwrite.
PreconditionOfTheOwner(n, b) ==
    IF "materialised" \in n.is THEN "Unconditional" ELSE "MustNotExist"

Precondition(n, b) ==
    CASE "materialised" \notin n.is -> "MustNotExist"
      [] "materialised" \in n.is /\ b.base = NoVersion -> "Unconditional"
      [] OTHER -> "Match"

(* How each script begins (start, publish_start). A publish of an object   *)
(* without a buffer is the one request that needs no job at all.           *)

OpensWith(i, b) ==
    CASE i.kind = "State"       -> <<"StateRead", "ReadState">>
      [] i.kind = "Materialise" ->
            IF "dir" \in i.asks THEN <<"MatRemote", "CreateRemoteDir">>
                                ELSE <<"MatInsert", "InsertNode">>
      [] i.kind = "Publish"     -> IF b.dirty THEN <<"PubNode", "ReadNode">>
                                   ELSE <<"PubDiscard", "DiscardBuffer">>
      [] i.kind = "Remove"      -> <<"RemNode", "ReadChild">>
      [] i.kind = "Move"        -> <<"MovNode", "ReadChild">>
      [] i.kind = "Relist"      -> <<"RelistRemote", "ListRemote">>
      [] i.kind = "Fetch"       -> <<"FetchNode", "ReadNode">>
      [] i.kind = "Write"       -> <<"WriteNode", "ReadNode">>
      [] i.kind = "Lookup"      -> <<"LookNode", "ReadNode">>
      [] i.kind = "SetAttr"     -> <<"AttrNode", "ReadNode">>
      [] i.kind = "Enumerate"   -> <<"EnumNode", "ReadNode">>
      [] i.kind = "Relocate"    -> <<"RelNode", "ReadNode">>
      [] i.kind = "Delete"      -> <<"DelNode", "ReadNode">>
      [] i.kind = "Refresh"     -> <<"RefNode", "ReadNode">>
      [] OTHER                  -> <<"StatNode", "ReadNode">>

AtOnce(i, b) == i.kind = "Publish" /\ ~b.open

Start(o, i, waiter, b) ==
    [intent |-> i, step |-> OpensWith(i, b)[1],
     job |-> Job(OpensWith(i, b)[2], o), waiters |-> {waiter},
     abort |-> FALSE, node |-> NoNode, etag |-> NoVersion]

-----------------------------------------------------------------------------
(* One operator per script: the step that finished, and what follows it.   *)
(* `o` is the flow's object, `f` the flow, `c` the completion and `b` the  *)
(* registry's facts about `o`. The last step of a script falls to OTHER.   *)

FetchSource(b, n) == CASE b.open -> "ReadBuffer"
                       [] ~b.open /\ n.is \cap {"blob_current", "stale_copy_ok"} # {}
                             -> "ReadBlob"
                       [] OTHER -> "FetchRange"

FetchNext(o, f, c, b) ==
    CASE f.step = "FetchNode" ->
            IF "found" \notin c.node.is THEN Fail(f, "NotFound")
            ELSE IF "dir" \in c.node.is THEN Fail(f, "WrongKind")
            ELSE Do(Knowing(f, c.node), "FetchBytes", FetchSource(b, c.node), o)
      [] f.step = "FetchPrune" -> Fail(f, "Stale")
      [] OTHER -> Finish(f)

WriteNext(o, f, c, b) ==
    LET n == c.node
        g == Knowing(f, n)
    IN  CASE f.step = "WriteNode" ->
               IF "found" \notin n.is THEN Fail(f, "NotFound")
               ELSE IF "dir" \in n.is THEN Fail(f, "WrongKind")
               ELSE IF "writable" \notin n.is THEN Fail(f, "NotWritable")
               ELSE IF b.open THEN Do(g, "WriteBytes", "WriteBuffer", o)
               ELSE IF "nonempty" \in n.is
                    THEN Do(g, "WritePrepare", "HydrateBuffer", o)
                    ELSE Do(g, "WritePrepare", "CreateBuffer", o)
          [] f.step = "WritePrepare" -> Do(f, "WriteBytes", "WriteBuffer", o)
          [] OTHER -> Finish(f)

\* A directory never keeps an executable bit (attr_exec, attr_exec_or_final).
ExecOrFinal(o, f) ==
    IF "exec" \in f.intent.asks /\ "dir" \notin f.node.is
    THEN Do(f, "AttrExec", "RecordExec", o)
    ELSE Do(f, "AttrFinal", "ReadNode", o)

MtimeOnwards(o, f) ==
    IF "mtime" \in f.intent.asks THEN Do(f, "AttrMtime", "RecordMtime", o)
                                 ELSE ExecOrFinal(o, f)

SetAttrNext(o, f, c, b) ==
    LET n == c.node
        g == Knowing(f, n)
        resizes == f.intent.asks \cap {"empty", "resize"} # {}
    IN  CASE f.step = "AttrNode" ->
               IF "found" \notin n.is THEN Fail(f, "NotFound")
               ELSE IF resizes /\ "dir" \in n.is THEN Fail(f, "WrongKind")
               ELSE IF resizes /\ "writable" \notin n.is THEN Fail(f, "NotWritable")
               ELSE IF resizes /\ b.open THEN Do(g, "AttrTruncate", "TruncateBuffer", o)
               ELSE IF resizes
                    THEN Do(g, "AttrPrepare", IF "empty" \in f.intent.asks
                                              THEN "CreateBuffer" ELSE "HydrateBuffer", o)
               ELSE IF \/ "mtime" \in f.intent.asks
                       \/ "exec" \in f.intent.asks /\ "dir" \notin n.is
                    THEN MtimeOnwards(o, g)
               ELSE Finish(g)
          [] f.step = "AttrPrepare"  -> Do(f, "AttrTruncate", "TruncateBuffer", o)
          [] f.step = "AttrTruncate" -> MtimeOnwards(o, f)
          [] f.step = "AttrMtime"    -> ExecOrFinal(o, f)
          [] f.step = "AttrExec"     -> Do(f, "AttrFinal", "ReadNode", o)
          [] OTHER -> Finish(f)

\* Why a row is no directory that can be listed.
NotADirectory(n) == IF "found" \notin n.is THEN "NotFound" ELSE "WrongKind"

\* Stat, Lookup and State.
LookNext(o, f, c) ==
    LET n == c.node
    IN  CASE f.step = "LookNode" /\ ~({"found", "dir"} \subseteq n.is) ->
               Fail(f, NotADirectory(n))
          [] f.step = "LookNode" /\ {"found", "dir"} \subseteq n.is ->
               IF "children_loaded" \in n.is THEN Do(f, "LookChild", "ReadChild", o)
                                             ELSE Do(f, "LookRemote", "ListRemote", o)
          [] f.step = "LookRemote" -> Do(f, "LookChild", "ReadChild", o)
          [] f.step \in {"StatNode", "LookChild"} /\ "found" \notin n.is ->
               Fail(f, "NotFound")
          [] OTHER -> Finish(f)

\* Enumerate. A directory never listed is listed now, and that listing is the
\* refresh: the end of the flow must not ask for another (`listing_stale`).
EnumerateNext(o, f, c) ==
    LET n == c.node
        g == Knowing(f, n)
    IN  CASE f.step = "EnumNode" /\ ~({"found", "dir"} \subseteq n.is) ->
               Fail(g, NotADirectory(n))
          [] f.step = "EnumNode" /\ {"found", "dir", "children_loaded"} \subseteq n.is ->
               Do(g, "EnumChildren", "ReadChildren", o)
          [] f.step = "EnumNode" /\ {"found", "dir"} \subseteq n.is
                                /\ "children_loaded" \notin n.is ->
               Do(Knowing(f, [n EXCEPT !.is = @ \ {"listing_stale"}]),
                  "EnumRemote", "ListRemote", o)
          [] f.step = "EnumRemote" -> Do(f, "EnumChildren", "ReadChildren", o)
          [] OTHER -> Finish(f)

MaterialiseNext(o, f, c) ==
    CASE f.step \in {"MatInsert", "MatList"} -> Do(f, "MatLookup", "ReadChild", o)
      [] f.step = "MatRemote" -> Do(f, "MatList", "ListRemote", o)
      [] f.step = "MatLookup" ->
            IF "found" \notin c.node.is THEN Fail(f, "Io")
            ELSE IF "dir" \in f.intent.asks THEN Finish(f)
            ELSE Do(Knowing(f, c.node), "MatBuffer", "CreateBuffer", c.node.id)
      [] OTHER -> Finish(f)

PublishNext(o, f, c) ==
    LET n == c.node
    IN  CASE f.step = "PubNode" ->
               IF {"found", "ignored"} \subseteq n.is THEN Finish(f)
               ELSE IF "found" \in n.is
                    THEN Do(Knowing(f, n), "PubCommit", "MarkPending", o)
                    ELSE Do(f, "PubDiscard", "DiscardBuffer", o)
          [] f.step = "PubCommit" ->
               Go("AnswerThen", f, "PubSize", Job("BufferSize", o), "None")
          [] f.step = "PubSize" -> Do(f, "PubUpload", "Upload", o)
          [] f.step = "PubUpload" /\ c.kind = "Uploaded" ->
               Do([f EXCEPT !.etag = c.etag], "PubRecord", "RecordVersion", o)
          [] f.step = "PubUpload" /\ c.kind = "Rejected" ->
               Do(f, "PubConflict", "ResolveConflict", o)
          [] f.step = "PubRecord" -> Do(f, "PubStore", "StoreBlob", o)
          [] f.step = "PubStore" ->
               IF "identified" \in f.node.is
               THEN Do(f, "PubClear", "ClearPending", o)
               ELSE Do(f, "PubReload", "ListRemote", f.node.parent)
          [] f.step \in {"PubConflict", "PubReload"} -> Do(f, "PubClear", "ClearPending", o)
          [] f.step = "PubClear" -> Do(f, "PubDiscard", "DiscardBuffer", o)
          [] f.step = "PubError" -> Fail(f, "Io")
          [] OTHER -> Finish(f)

\* Remove and Delete. The parent resolves the child and hands the delete over;
\* the child does it, behind whatever it was doing.
RemoveNext(o, f, c) ==
    LET g == Knowing(f, c.node)
    IN  CASE f.step \in {"RemNode", "DelNode"} /\ "found" \notin c.node.is ->
               Fail(f, "NotFound")
          [] f.step = "RemNode" /\ "found" \in c.node.is ->
               Go("Handoff", g, "Handover", NoJob, "None")
          [] f.step = "DelNode" /\ "found" \in c.node.is ->
               IF "materialised" \in c.node.is
               THEN Do(g, "RemRemote", "DeleteRemote", o)
               ELSE Do(g, "RemBuffer", "DiscardBuffer", o)
          [] f.step = "RemRemote" -> Do(f, "RemBuffer", "DiscardBuffer", f.node.id)
          [] f.step = "RemBuffer" -> Do(f, "RemRows", "RemoveRows", f.node.id)
          [] OTHER -> Finish(f)

\* Move and Relocate, split between parent and child in the same way. A row
\* not found by RelNode is still carried: the end of the flow reads it.
MoveNext(o, f, c) ==
    LET g == Knowing(f, c.node)
    IN  CASE f.step \in {"MovNode", "RelNode"} /\ "found" \notin c.node.is ->
               Fail(g, "NotFound")
          [] f.step = "MovNode" /\ "found" \in c.node.is ->
               Go("Handoff", g, "Handover", NoJob, "None")
          [] f.step = "RelNode" /\ "found" \in c.node.is ->
               IF "materialised" \in c.node.is
               THEN Do(g, "MovRemote", "MoveRemote", o)
               ELSE Do(g, "MovRows", "MoveRows", o)
          [] f.step = "MovRemote" -> Do(f, "MovRows", "MoveRows", o)
          [] OTHER -> Finish(f)

RefreshNext(o, f, c) ==
    IF f.step = "RefNode" /\ "found" \in c.node.is /\ "blob_current" \notin c.node.is
    THEN Do(f, "RefHydrate", "HydrateCache", o)
    ELSE Finish(f)

\* A failed step ends its flow, with two exceptions: a read that found the
\* object gone on the server drops the row first, and a publish past its local
\* commit that met a permanent failure parks the record as an error.
PastCommit == {"PubSize", "PubUpload", "PubConflict", "PubRecord", "PubStore",
               "PubReload", "PubClear"}

AfterFailure(o, f, why) ==
    CASE f.step = "FetchBytes" /\ why = "Stale" -> Do(f, "FetchPrune", "RemoveRows", o)
      [] f.step \in PastCommit /\ why = "Permanent" ->
            Do(f, "PubError", "SetUploadError", o)
      [] OTHER -> Fail(f, why)

AfterSuccess(o, f, c, b) ==
    CASE f.intent.kind = "Fetch"       -> FetchNext(o, f, c, b)
      [] f.intent.kind = "Write"       -> WriteNext(o, f, c, b)
      [] f.intent.kind = "SetAttr"     -> SetAttrNext(o, f, c, b)
      [] f.intent.kind = "Materialise" -> MaterialiseNext(o, f, c)
      [] f.intent.kind = "Publish"     -> PublishNext(o, f, c)
      [] f.intent.kind \in {"Remove", "Delete"} -> RemoveNext(o, f, c)
      [] f.intent.kind \in {"Move", "Relocate"} -> MoveNext(o, f, c)
      [] f.intent.kind = "Refresh"     -> RefreshNext(o, f, c)
      [] f.intent.kind = "Enumerate"   -> EnumerateNext(o, f, c)
      [] f.intent.kind = "Relist"      -> Finish(f)
      [] OTHER                         -> LookNext(o, f, c)

\* Abort is checked between steps and nowhere else.
Advance(o, f, c, b) ==
    CASE f.abort -> Go("Abandoned", f, f.step, NoJob, "Interrupted")
      [] ~f.abort /\ c.kind = "Failed" -> AfterFailure(o, f, c.why)
      [] OTHER -> AfterSuccess(o, f, c, b)

\* The intent under which the child continues what the parent `o` resolved.
HandedOver(o, i) ==
    [i EXCEPT !.kind = IF i.kind = "Remove" THEN "Delete" ELSE "Relocate",
              !.from = o]

-----------------------------------------------------------------------------
(* The collision policy: what an arriving intent does to a running flow.   *)

Collision(f, i, b) ==
    CASE i.kind = "Refresh" /\ b.dirty -> "Skip"
      [] ~(i.kind = "Refresh" /\ b.dirty) /\ f.step = "PubConflict" -> "Queue"
      [] OTHER ->
           CASE f.intent.kind = "Fetch" /\ i.kind = "Fetch" /\ f.intent.range = i.range -> "Join"
             [] f.intent.kind = "Enumerate" /\ i.kind = "Enumerate" -> "Join"
             [] f.intent.kind \in {"Enumerate", "Relist"} /\ i.kind = "Relist" -> "Skip"
             [] f.intent.kind = "Refresh" /\ i.kind = "Refresh" -> "Skip"
             [] f.intent.kind = "Refresh" /\ i.kind \in {"Remove", "Delete"} -> "Abort"
             [] OTHER -> "Queue"

-----------------------------------------------------------------------------
(* What a finished job means for the registry (apply_to_registry), as the  *)
(* change to the buffer of the object the job was on.                      *)

Opened(f) == [open |-> TRUE, dirty |-> f.intent.kind = "Materialise",
              ignored |-> "ignored" \in f.node.is, mtime |-> FALSE,
              base |-> f.node.etag]

\* A bug to catch: a truncation does not count as an edit.
BufferAfterCleanTruncate(f, b) ==
    CASE f.job.op \in {"CreateBuffer", "HydrateBuffer"} -> Opened(f)
      [] f.job.op = "WriteBuffer" /\ b.open -> [b EXCEPT !.dirty = TRUE]
      [] f.job.op = "RecordMtime" /\ b.open -> [b EXCEPT !.mtime = TRUE]
      [] f.job.op = "RecordVersion" /\ b.open -> [b EXCEPT !.base = f.etag]
      [] f.job.op = "DiscardBuffer" -> NoBuffer
      [] OTHER -> b

BufferAfter(f, b) ==
    CASE f.job.op \in {"CreateBuffer", "HydrateBuffer"} -> Opened(f)
      [] f.job.op \in {"WriteBuffer", "TruncateBuffer"} /\ b.open -> [b EXCEPT !.dirty = TRUE]
      [] f.job.op = "RecordMtime" /\ b.open -> [b EXCEPT !.mtime = TRUE]
      [] f.job.op = "RecordVersion" /\ b.open -> [b EXCEPT !.base = f.etag]
      [] f.job.op = "DiscardBuffer" -> NoBuffer
      [] OTHER -> b

=============================================================================
