----------------------------- MODULE Substrate -----------------------------
(***************************************************************************)
(* The threads that carry a request (runtime.rs: Substrate, spawn_decider, *)
(* NetQueue, spawn_worker; wusel-fuse dispatch.rs and wusel-ipc driver.rs  *)
(* on the callers' side): two frontends park a reply and submit, one       *)
(* thread decides, pools of workers run the jobs, a pump hands answers out *)
(* by request id; background refreshes take the net pool's second tier;    *)
(* and everything stops within a grace.                                    *)
(*                                                                         *)
(* The machine is here with four kinds of requests and the little a thread *)
(* sees of it (Machine has the rest): one flow per object, readers that    *)
(* join or give up, a metadata read beside a busy object, a flush that is  *)
(* answered before its upload. Of a payload it is known whose flow made it.*)
(***************************************************************************)
EXTENDS Integers, Sequences, FiniteSets, SequencesExt

CONSTANTS
    Objects,
    NetWorkers, DbWorkers,
    Requests,     \* bound: requests in all
    Abandons,     \* bound: readers that give up
    Backlog       \* MAX_REFRESH_BACKLOG

ASSUME SubstrateAssumption ==
    /\ NetWorkers \cap DbWorkers = {} /\ {Requests, Abandons, Backlog} \subseteq Nat
    /\ IsFiniteSet(NetWorkers) /\ NetWorkers # {} /\ DbWorkers # {} /\ Backlog > 0

VARIABLES
    (* the frontends *)
    next,        \* next_id, one allocator for both
    drafts,      \* requests parked and not submitted yet
    parked,      \* ids whose reply a frontend holds (Replies, Driver::pending)
    answered,    \* [id -> what its caller got]
    abandons,
    pump,        \* the thread that drains the answers runs
    answers,     \* channel: decider to pump
    (* the decider *)
    running,     \* it has not returned
    events,      \* channel: everybody to the decider
    flow, queued,
    payloads,    \* [object -> the flow that made the payload, or None]
    refreshing,
    (* the pools *)
    db, net, background,
    worker,
    (* stopping *)
    stopping

callers == <<next, drafts, parked, answered, abandons>>
decider == <<running, flow, queued, payloads, refreshing>>
pools   == <<db, net, background>>
evars   == <<callers, pump, answers, decider, events, pools, worker, stopping>>

Workers   == NetWorkers \cup DbWorkers
None      == 0
NoFlow    == [kind |-> "none"]
Asking    == [at |-> "asking"]

\* What a flow of each kind runs, the pool of each job; a flush is answered
\* after its first job.
Steps == [read |-> <<"db", "net">>, save |-> <<"db", "net">>, list |-> <<"db">>, stat |-> <<"db">>]
Kinds == DOMAIN Steps

EngineInit ==
    /\ next = 1 /\ drafts = {} /\ parked = {}
    /\ answered = [i \in {} |-> "ok"] /\ abandons = 0 /\ pump = TRUE /\ answers = <<>>
    /\ running = TRUE /\ events = <<>> /\ flow = [o \in Objects |-> NoFlow]
    /\ queued = [o \in Objects |-> <<>>] /\ payloads = [o \in Objects |-> None]
    /\ refreshing = {} /\ db = <<>> /\ net = <<>> /\ background = <<>>
    /\ worker = [w \in Workers |-> Asking] /\ stopping = FALSE

-----------------------------------------------------------------------------
(* The callers. The reply is parked before the request is sent, so that no *)
(* answer can come before it.                                              *)

Parks(k, o) ==
    /\ next <= Requests /\ next' = next + 1
    /\ drafts' = drafts \cup {[id |-> next, kind |-> k, object |-> o]}
    /\ parked' = parked \cup {next}
    /\ UNCHANGED <<answered, abandons, pump, answers, decider, events, pools, worker, stopping>>

\* `submit`; the caller is told at once if there is nobody to submit to.
Submits(r) ==
    /\ drafts' = drafts \ {r}
    /\ IF running
       THEN /\ events' = Append(events, [type |-> "request", request |-> r])
            /\ UNCHANGED <<parked, answered>>
       ELSE /\ parked' = parked \ {r.id}
            /\ answered' = [i \in DOMAIN answered \cup {r.id} |->
                               IF i = r.id THEN "failed" ELSE answered[i]]
            /\ UNCHANGED events
    /\ UNCHANGED <<next, abandons, pump, answers, decider, pools, worker, stopping>>

\* The kernel closes a handle with reads still open (flush, release).
GivesUp(i) ==
    /\ abandons < Abandons /\ running /\ i \in parked
    /\ \A r \in drafts : r.id # i
    /\ abandons' = abandons + 1
    /\ events' = Append(events, [type |-> "abandon", id |-> i])
    /\ UNCHANGED <<next, drafts, parked, answered, pump, answers, decider, pools, worker, stopping>>

\* Replies::deliver, per id and not per answer: one may serve both frontends.
Delivers ==
    /\ pump /\ answers # <<>>
    /\ LET a   == Head(answers)
           got == a.ids \cap parked
       IN  /\ answers' = Tail(answers)
           /\ parked' = parked \ a.ids
           /\ answered' = [i \in DOMAIN answered \cup got |->
                              IF i \notin got THEN answered[i]
                              ELSE IF ~a.ok THEN "failed"
                              ELSE IF a.payload = a.flow THEN "ok" ELSE "mixed up"]
    /\ UNCHANGED <<next, drafts, abandons, pump, decider, events, pools, worker, stopping>>

PumpEnds == /\ pump /\ ~running /\ answers = <<>> /\ pump' = FALSE
            /\ UNCHANGED <<callers, answers, decider, events, pools, worker, stopping>>

-----------------------------------------------------------------------------
(* The pools.                                                              *)

JobOf(o, f) == [object |-> o, flow |-> f.born, deliver |-> "flow"]
Refresh(o)  == [object |-> o, flow |-> None, deliver |-> "detached"]

\* notify_one: one of the workers that wait at the net queue wakes up, if any.
Asleep == {w \in NetWorkers : worker[w].at = "asleep"}
NotifyOne == IF Asleep = {} THEN UNCHANGED worker
             ELSE \E w \in Asleep : worker' = [worker EXCEPT ![w].at = "asking"]
NotifyAll == worker' = [w \in Workers |-> IF w \in Asleep THEN Asking ELSE worker[w]]

\* A bug to catch: who is at a queue that is not empty has been woken already.
DispatchOnce(toDb, toNet, toBackground) ==
    /\ db' = db \o toDb /\ net' = net \o toNet /\ background' = background \o toBackground
    /\ IF toNet \o toBackground = <<>> \/ net \o background # <<>> THEN UNCHANGED worker ELSE NotifyOne
\* Queues::send, of at most one job to each queue.
Dispatch(toDb, toNet, toBackground) ==
    /\ db' = db \o toDb /\ net' = net \o toNet /\ background' = background \o toBackground
    /\ IF toNet \o toBackground = <<>> THEN UNCHANGED worker ELSE NotifyOne

Takes(w, job) == worker' = [worker EXCEPT ![w] = [at |-> "busy", job |-> job]]
NowAt(w, at)  == worker' = [worker EXCEPT ![w] = [at |-> at]]

\* A channel gives out what is in it also after its sender is gone.
TakesFromChannel(w) ==
    /\ w \in DbWorkers /\ worker[w].at = "asking"
    /\ \/ db # <<>> /\ Takes(w, Head(db)) /\ db' = Tail(db)
       \/ db = <<>> /\ ~running /\ NowAt(w, "gone") /\ UNCHANGED db
    /\ UNCHANGED <<callers, pump, answers, decider, events, net, background, stopping>>

\* NetQueue::pop.
Pops(w) ==
    /\ w \in NetWorkers /\ worker[w].at = "asking"
    /\ \/ net # <<>> /\ Takes(w, Head(net)) /\ net' = Tail(net) /\ UNCHANGED background
       \/ net = <<>> /\ background # <<>> /\ Takes(w, Head(background))
          /\ background' = Tail(background) /\ UNCHANGED net
       \/ net = <<>> /\ background = <<>> /\ NowAt(w, IF running THEN "asleep" ELSE "gone")
          /\ UNCHANGED <<net, background>>
    /\ UNCHANGED <<callers, pump, answers, decider, events, db, stopping>>

\* The job is done, or has failed. The worker ends if nobody takes its report,
\* or if the flag says so, which it looks at before it asks for the next job.
Reports(w) ==
    /\ worker[w].at = "busy"
    /\ \E ok \in BOOLEAN :
         LET j == worker[w].job IN
         IF running THEN /\ events' = Append(events, [type |-> j.deliver, object |-> j.object,
                                                      flow |-> j.flow, ok |-> ok])
                    ELSE UNCHANGED events
    /\ worker' = [worker EXCEPT ![w] = IF stopping \/ ~running THEN [at |-> "gone"] ELSE Asking]
    /\ UNCHANGED <<callers, pump, answers, decider, pools, stopping>>

-----------------------------------------------------------------------------
(* The decider.                                                            *)

Begun(r) == [kind |-> r.kind, born |-> r.id, waiters |-> {r.id}, step |-> 1]
Busy(o)  == flow[o] # NoFlow
Answer(ids, f, payload, ok) == [ids |-> ids, flow |-> f.born, payload |-> payload, ok |-> ok]

\* The flow of o has ended: what waits first begins.
EndsFlow(o) ==
    /\ flow' = [flow EXCEPT ![o] = IF queued[o] = <<>> THEN NoFlow ELSE Begun(Head(queued[o]))]
    /\ queued' = [queued EXCEPT ![o] = IF @ = <<>> THEN @ ELSE Tail(@)]
\* A bug to catch: what waited begins, and its first job is not sent.
NoJobOfNext(o) == <<>>
JobOfNext(o) == IF queued[o] = <<>> THEN <<>> ELSE <<JobOf(o, Begun(Head(queued[o])))>>

\* A read joins a transfer that somebody still waits for.
Joins(r, f) == r.kind = "read" /\ f.kind = "read" /\ f.waiters # {}

OnRequest(r) ==
    LET o == r.object  f == flow[o] IN
    /\ IF ~Busy(o)
       THEN /\ flow' = [flow EXCEPT ![o] = Begun(r)] /\ Dispatch(<<JobOf(o, Begun(r))>>, <<>>, <<>>)
            /\ UNCHANGED queued
       ELSE IF r.kind = "stat"    \* begin_beside
       THEN /\ Dispatch(<<[object |-> o, flow |-> r.id, deliver |-> "beside"]>>, <<>>, <<>>)
            /\ UNCHANGED <<flow, queued>>
       ELSE IF Joins(r, f)
       THEN /\ flow' = [flow EXCEPT ![o].waiters = @ \cup {r.id}]
            /\ Dispatch(<<>>, <<>>, <<>>) /\ UNCHANGED queued
       ELSE /\ queued' = [queued EXCEPT ![o] = Append(@, r)]
            /\ Dispatch(<<>>, <<>>, <<>>) /\ UNCHANGED flow
    /\ UNCHANGED <<answers, payloads, refreshing, running>>

\* Whoever gives up is answered at once. What it waited for goes on to the end
\* of its step; the answer takes the object's payload with it.
RidingOf(i)  == {o \in Objects : Busy(o) /\ flow[o].kind = "read" /\ i \in flow[o].waiters}
WaitingOf(i) == {o \in Objects : \E r \in ToSet(queued[o]) : r.id = i /\ r.kind = "read"}
\* A bug to catch: a read that is still queued is taken out and not answered.
EndedByRiding(i) == RidingOf(i)
EndedBy(i) == RidingOf(i) \cup WaitingOf(i)
OnAbandon(i) ==
    /\ flow' = [o \in Objects |-> IF o \in RidingOf(i) THEN [flow[o] EXCEPT !.waiters = @ \ {i}]
                                 ELSE flow[o]]
    /\ queued' = [o \in Objects |-> SelectSeq(queued[o], LAMBDA r : r.id # i \/ r.kind # "read")]
    /\ payloads' = [o \in Objects |-> IF o \in EndedBy(i) THEN None ELSE payloads[o]]
    /\ answers' = IF EndedBy(i) = {} THEN answers
                  ELSE Append(answers, Answer({i}, [born |-> i], None, FALSE))
    /\ Dispatch(<<>>, <<>>, <<>>)
    /\ UNCHANGED <<refreshing, running>>

\* A bug to catch: the first payload stays.
MadeFirst(e) == IF e.ok /\ payloads[e.object] = None THEN e.flow ELSE payloads[e.object]
\* The payload of the last step supersedes those before it.
Made(e) == IF e.ok THEN e.flow ELSE payloads[e.object]

\* A flow that ends without an answer leaves its payload only if the next has
\* begun already.
LeftFor(o, p) == IF queued[o] = <<>> THEN None ELSE p

\* A bug to catch: nobody looks whether a refresh of it is under way.
MayRefreshAgain(o, busy) == ~busy /\ Len(background) < Backlog
\* One refresh per object, none beside real work, and no backlog.
MayRefresh(o, busy) == o \notin refreshing /\ ~busy /\ Len(background) < Backlog

OnCompleted(e) ==
    LET o == e.object  f == flow[o]  p == Made(e)
        last  == f.step = Len(Steps[f.kind]) \/ ~e.ok \/ (f.kind = "read" /\ f.waiters = {})
        saved == f.kind = "save" /\ f.step = 1 /\ e.ok
        told  == f.waiters # {} /\ (last \/ saved)
    IN  /\ answers' = IF told THEN Append(answers, Answer(f.waiters, f, p, e.ok)) ELSE answers
        /\ payloads' = [payloads EXCEPT ![o] = IF told THEN None ELSE IF last THEN LeftFor(o, p) ELSE p]
        /\ IF last
           THEN /\ EndsFlow(o)
                \* the listing was stale: it is refreshed beside the machine
                /\ \/ Dispatch(JobOfNext(o), <<>>, <<>>) /\ UNCHANGED refreshing
                   \/ /\ f.kind = "list" /\ MayRefresh(o, queued[o] # <<>>)
                      /\ Dispatch(JobOfNext(o), <<>>, <<Refresh(o)>>)
                      /\ refreshing' = refreshing \cup {o}
           ELSE /\ flow' = [flow EXCEPT ![o].step = @ + 1, ![o].waiters = IF saved THEN {} ELSE @]
                /\ Dispatch(<<>>, <<JobOf(o, f)>>, <<>>) /\ UNCHANGED <<queued, refreshing>>
        /\ UNCHANGED running

OnBeside(e) ==
    /\ answers' = Append(answers, Answer({e.flow}, [born |-> e.flow], e.flow, e.ok))
    /\ Dispatch(<<>>, <<>>, <<>>) /\ UNCHANGED <<flow, queued, payloads, refreshing, running>>

OnRefreshed(e) ==
    /\ refreshing' = refreshing \ {e.object}
    /\ Dispatch(<<>>, <<>>, <<>>) /\ UNCHANGED <<answers, flow, queued, payloads, running>>

\* A bug to catch: one worker is told that the queue is closed.
OnStopForOne ==
    /\ running' = FALSE /\ net' = <<>> /\ background' = <<>> /\ NotifyOne
    /\ UNCHANGED <<answers, flow, queued, payloads, refreshing, db>>
\* The decider returns and drops its ends of the channels: NetSender's drop
\* discards the net pool's queues and wakes everybody.
OnStop ==
    /\ running' = FALSE /\ net' = <<>> /\ background' = <<>> /\ NotifyAll
    /\ UNCHANGED <<answers, flow, queued, payloads, refreshing, db>>

Decides ==
    /\ running /\ events # <<>> /\ events' = Tail(events)
    /\ LET e == Head(events) IN
       CASE e.type = "request"  -> OnRequest(e.request)
         [] e.type = "abandon"  -> OnAbandon(e.id)
         [] e.type = "flow"     -> OnCompleted(e)
         [] e.type = "beside"   -> OnBeside(e)
         [] e.type = "detached" -> OnRefreshed(e)
         [] e.type = "stop"     -> OnStop
    /\ UNCHANGED <<callers, pump, stopping>>

-----------------------------------------------------------------------------
(* Stopping (Drop for Substrate).                                          *)

Stops ==
    /\ ~stopping /\ stopping' = TRUE
    /\ events' = Append(events, [type |-> "stop"])
    /\ UNCHANGED <<callers, pump, answers, decider, pools, worker>>

AllGone == ~running /\ \A w \in Workers : worker[w].at = "gone"

-----------------------------------------------------------------------------
EngineNext ==
    \/ \E k \in Kinds, o \in Objects : Parks(k, o)
    \/ \E r \in drafts : Submits(r)
    \/ \E i \in parked : GivesUp(i)
    \/ Delivers \/ PumpEnds \/ Decides \/ Stops
    \/ \E w \in Workers : TakesFromChannel(w) \/ Pops(w) \/ Reports(w)

EngineSpec == EngineInit /\ [][EngineNext]_evars

\* Every thread goes on, and every job ends (the client has timeouts).
Works(w) == TakesFromChannel(w) \/ Pops(w) \/ Reports(w)
FairEngineSpec ==
    /\ EngineSpec
    /\ WF_evars(\E r \in drafts : Submits(r)) /\ WF_evars(Delivers) /\ WF_evars(PumpEnds)
    /\ WF_evars(Decides) /\ \A w \in Workers : WF_evars(Works(w))

-----------------------------------------------------------------------------
(* Properties.                                                             *)

(* The variables hold what the code can hold: every object's flow has one   *)
(* job in the pools or its report in the channel.                           *)
InPools == ToSet(db) \cup ToSet(net) \cup ToSet(background)
           \cup {worker[w].job : w \in {v \in Workers : worker[v].at = "busy"}}
Reported == {e \in ToSet(events) : e.type \in {"flow", "beside", "detached"}}
TypeOK ==
    /\ next \in 1..Requests + 1 /\ DOMAIN answered \subseteq 1..next - 1
    /\ Len(background) <= Backlog /\ refreshing \subseteq Objects
    /\ running => \A o \in Objects : Busy(o) =>
          \E j \in InPools \cup Reported : j.object = o /\ j.flow = flow[o].born

(* Each caller gets the payload its own flow made last, whoever shared the  *)
(* object before: nothing an abandoned read or an answered flush has left   *)
(* behind reaches a later request.                                          *)
AnswersAreWhole == \A i \in DOMAIN answered : answered[i] # "mixed up"

(* A directory is marked as being refreshed exactly as long as one refresh  *)
(* of it is waiting, running or reported -- none is forgotten, so that no   *)
(* directory is barred from refreshing for good, and no two overlap.        *)
RefreshesOf(o) ==
    Cardinality({n \in DOMAIN background : background[n] = Refresh(o)})
    + Cardinality({w \in NetWorkers : worker[w].at = "busy" /\ worker[w].job = Refresh(o)})
    + Cardinality({n \in DOMAIN events : events[n].type = "detached" /\ events[n].object = o})
OneRefreshEach ==
    running => \A o \in Objects : RefreshesOf(o) = IF o \in refreshing THEN 1 ELSE 0

(* No wake-up is lost, or spent on somebody who does not need it: as long  *)
(* as a worker of the net pool sleeps, each job at either of its queues has *)
(* a worker on its way there, whoever took the jobs between the wake-up and *)
(* the waking.                                                              *)
OnTheirWay == {w \in NetWorkers : worker[w].at = "asking"}
NobodySleepsBesideWork ==
    Asleep # {} => Len(net) + Len(background) <= Cardinality(OnTheirWay)

(* Every request is answered, however reads, refreshes, flushes and givers- *)
(* up interleave, unless the engine is stopped.                             *)
EveryCallIsAnswered ==
    \A i \in 1..Requests : (i < next) ~> (i \in DOMAIN answered \/ stopping)

(* Told to stop, every thread ends: none sleeps at a queue that is closed.  *)
AllThreadsEnd == stopping ~> AllGone
=============================================================================
