---------------------------- MODULE ListingProofs ----------------------------
(***************************************************************************)
(* That the activity tracker never calls quiet what was busy, whatever it  *)
(* has forgotten, and that no listing undoes what the machine has done --  *)
(* as long as a listing is applied before a flow commits behind its        *)
(* judgement. With that peril an instance shows the second to be false.    *)
(***************************************************************************)
EXTENDS Listing, TLAPS

\* Nobody commits between the judgement on a listing and its transaction.
Prompt == "slow reconcile" \notin Perils

-----------------------------------------------------------------------------
(* What the variables hold.                                                *)

Stamps == {Nothing} \cup Nat
Roots  == [tag : Stamps, since : Nat, epoch : Nat]
Questions ==
    [at : {"root", "asking", "listed", "judged"}, since : Nat, epoch : Nat,
     for : Objects \cup {Nobody}, root : Roots, tag : Nat, entries : [Names -> Stamps]]
NameOps == [op : {"create", "upload", "delete", "rename"}, name : Names, to : Names,
            at : {"server", "commit", "relist", "end"}, time : Nat]
LsOps   == [op : {"ls"}, name : {Dir}, to : {Dir}, at : {"relist"}, time : {0}]

Typed ==
    /\ clock \in Nat \ {0} /\ epoch \in Nat /\ walked \in Stamps
    /\ srv \in [Names -> Stamps] /\ row \in [Names -> Stamps]
    /\ asof \in [Names -> Nat] /\ own \in [Names -> Nat]
    /\ flow \in [Objects -> {NoFlow} \cup NameOps \cup LsOps]
    /\ lst \in [Listers -> {Idle} \cup Questions]

\* The tracker: an object was last given free before the floor, or its entry says
\* when it changed last.
Tracker ==
    /\ seq \in Nat /\ floor \in 0..seq /\ busy \subseteq Objects
    /\ DOMAIN changed \subseteq Objects /\ \A o \in DOMAIN changed : changed[o] \in 0..seq
    /\ last \in [Objects -> Nat]
    /\ \A o \in Objects : last[o] <= floor \/ (o \in DOMAIN changed /\ last[o] <= changed[o])

\* A flow is held by all it holds, and by nobody else.
Held(o) == ~Free(o) => o \in Holds(flow[o]) /\ \A h \in Holds(flow[o]) : flow[h] = flow[o]
BusyIsHeld == busy = {o \in Objects : flow[o].op \notin {"none", "ls"}}

\* What waits for its commit has been done on the server, at some time before.
Timed(o) ==
    LET op == flow[o] IN
    op.op # "none" =>
        /\ op.time <= clock
        /\ op.at = "commit" /\ op.op \in {"upload", "rename"} => op.time > 0
        /\ op.op = "rename" => op.to # op.name
        /\ op.op = "create" => op.at # "server"

\* A listing that a flow asks for has its flow waiting.
Asked(l) ==
    lst[l].at # "idle" =>
        /\ lst[l].since <= seq /\ lst[l].tag <= clock
        /\ l = "relist" => /\ lst[l].for \in Names /\ flow[lst[l].for].op = "upload"
                           /\ flow[lst[l].for].at = "relist"
        /\ l = "ls" => flow[Dir].op = "ls"

Listed(l) == lst[l].at \in {"listed", "judged"}

\* The listings agree on what the server held at a time.
OneServer ==
    /\ \A l \in Listers : Listed(l) => lst[l].tag > 0
    /\ \A l \in Listers : Listed(l) /\ lst[l].tag = clock => lst[l].entries = srv
    /\ \A l, k \in Listers : Listed(l) /\ Listed(k) /\ lst[l].tag = lst[k].tag
                                => lst[l].entries = lst[k].entries

\* The name a flow's commit will put a file at, if any.
Target(op) == IF op.op = "rename" THEN op.to ELSE op.name
Puts(op)   == op.op \in {"upload", "rename"} /\ op.at = "commit"

\* At the time of what was done here last, the server had what the row has an id
\* for, and what a commit is about to put.
There(t, e) ==
    Prompt => /\ \A n \in ident : own[n] = t => e[n] # Nothing
              /\ \A o \in Objects : Puts(flow[o]) /\ flow[o].time = t => e[Target(flow[o])] # Nothing
ThereThen ==
    /\ ident \subseteq Names /\ There(clock, srv)
    /\ \A l \in Listers : Listed(l) => There(lst[l].tag, lst[l].entries)

\* A listing that is older than a change committed here leaves the name alone.
Spares(l, n) == own[n] > lst[l].tag => row[n] # Nothing /\ ~Quiet(l, n)
Spared(l) ==
    Prompt => /\ lst[l].at = "listed" /\ Quiet(l, Dir) => \A n \in Names : Spares(l, n)
              /\ lst[l].at = "judged" => \A n \in Names : Spares(l, n)

Past == \A n \in Names : own[n] <= clock

IInv ==
    /\ Typed /\ Tracker /\ BusyIsHeld /\ Past /\ OneServer /\ ThereThen /\ (Prompt => CommitsStand)
    /\ \A o \in Objects : Held(o) /\ Timed(o)
    /\ \A l \in Listers : Asked(l) /\ Spared(l)

-----------------------------------------------------------------------------
(* The tracker.                                                            *)

\* Nothing becomes quiet for a listing that was not quiet for it before.
NoQuieter ==
    \A o \in Objects, since \in Nat :
        since <= seq /\ QuietSince(o, since)' => QuietSince(o, since)

LEMMA SetBusyKeeps ==
  ASSUME Tracker, NEW now \in SUBSET Objects, SetBusy(now)
  PROVE  Tracker' /\ NoQuieter /\ busy' = now /\ seq <= seq' /\ seq' \in Nat
  <1>1. CASE now = busy
    BY <1>1 DEF SetBusy, activity, Tracker, NoQuieter, QuietSince
  <1>2. CASE now # busy
    <2> DEFINE flipped == (now \ busy) \cup (busy \ now)
               full    == Cardinality(DOMAIN Noted(flipped)) > History
    <2>1. /\ seq' = seq + 1 /\ busy' = now
          /\ changed' = IF full THEN [o \in {} |-> 0] ELSE Noted(flipped)
          /\ floor' = IF full THEN seq + 1 ELSE floor
          /\ last' = [o \in Objects |-> IF o \in busy \ now THEN seq + 1 ELSE last[o]]
      BY <1>2 DEF SetBusy
    <2>2. /\ DOMAIN Noted(flipped) = DOMAIN changed \cup flipped
          /\ \A o \in DOMAIN changed \cup flipped :
                Noted(flipped)[o] = IF o \in flipped THEN seq + 1 ELSE changed[o]
      BY DEF Noted
    <2> HIDE DEF full
    <2>3. CASE full
      BY <2>1, <2>3 DEF Tracker, NoQuieter, QuietSince
    <2>4. CASE ~full
      <3>1. changed' = Noted(flipped) /\ floor' = floor
        BY <2>1, <2>4
      <3> HIDE DEF flipped
      <3>2. flipped \subseteq Objects /\ \A o \in Objects : o \in flipped <=> (o \in now <=> o \notin busy)
        BY DEF flipped, Tracker
      <3>3. /\ DOMAIN changed' = DOMAIN changed \cup flipped
            /\ \A o \in DOMAIN changed' : changed'[o] = IF o \in flipped THEN seq + 1 ELSE changed[o]
        BY <2>2, <3>1
      <3>4. Tracker'
        BY <2>1, <3>1, <3>2, <3>3 DEF Tracker
      <3>5. NoQuieter
        BY <2>1, <3>1, <3>2, <3>3 DEF Tracker, NoQuieter, QuietSince
      <3> QED
        BY <2>1, <3>4, <3>5 DEF Tracker
    <2> QED
      BY <2>3, <2>4
  <1> QED
    BY <1>1, <1>2

LEMMA TrackerAnswers ==
  ASSUME Tracker, NEW o \in Objects, NEW since \in Nat, QuietSince(o, since)
  PROVE  o \notin busy /\ last[o] <= since
  BY DEF Tracker, QuietSince

\* What a listing is not quiet for, it stays not quiet for.
LEMMA QuietStays ==
  ASSUME IInv, NoQuieter, NEW l \in Listers, lst'[l] = lst[l], lst[l].at # "idle", NEW o \in Objects,
         Quiet(l, o)'
  PROVE  Quiet(l, o)
  <1>1. lst[l].since \in Nat /\ lst[l].since <= seq
    BY DEF IInv, Typed, Asked, Questions, Idle
  <1> QED
    BY <1>1 DEF NoQuieter, Quiet, Holder, QuietSince

-----------------------------------------------------------------------------
(* The flows.                                                              *)

LEMMA InitIInv == Init => IInv
  <1> SUFFICES ASSUME Init PROVE IInv
    OBVIOUS
  <1>1. Typed
    BY DEF Init, Typed, Stamps, Nothing, Fresh
  <1>2. Tracker
    BY DEF Init, Tracker
  <1>3. BusyIsHeld /\ \A o \in Objects : Held(o) /\ Timed(o)
    BY DEF Init, BusyIsHeld, Held, Timed, Free, NoFlow
  <1>4. \A l \in Listers : ~Listed(l) /\ Asked(l) /\ Spared(l)
    BY DEF Init, Listed, Asked, Spared, Idle
  <1>5. Past /\ OneServer /\ CommitsStand
    BY <1>4 DEF Init, Past, OneServer, CommitsStand
  <1>6. ThereThen
    BY <1>4 DEF Init, ThereThen, There, Puts, NoFlow
  <1> QED
    BY <1>1, <1>2, <1>3, <1>4, <1>5, <1>6 DEF IInv

LEMMA FlowIsTyped ==
  ASSUME IInv, NEW o \in Objects
  PROVE  /\ flow[o] \in {NoFlow} \cup NameOps \cup LsOps /\ o \in DOMAIN flow
         /\ flow[o].op # "none" => o \in Holds(flow[o]) /\ \A h \in Holds(flow[o]) : flow[h] = flow[o]
  BY DEF IInv, Typed, Held, Free, NoFlow

LEMMA HoldsAreObjects == \A op \in NameOps \cup LsOps : Holds(op) \subseteq Objects
  BY DEF NameOps, LsOps, Holds, Objects

\* A step of the flows that leaves the rows, the server and the listings alone.
LEMMA FlowsKeep ==
  ASSUME IInv, UNCHANGED <<server, rows, epoch, syncer>>, Tracker', NoQuieter, seq <= seq', BusyIsHeld',
         flow' \in [Objects -> {NoFlow} \cup NameOps \cup LsOps],
         \A o \in Objects : Held(o)' /\ Timed(o)',
         \A o \in Objects : Puts(flow'[o]) => flow'[o] = flow[o],
         \A o \in Objects : flow[o].op # "none" /\ flow[o].at = "relist" => flow'[o] = flow[o]
  PROVE  IInv'
  <1>1. Typed' /\ Past' /\ OneServer' /\ (Prompt => CommitsStand')
    BY DEF IInv, Typed, Past, OneServer, CommitsStand, Listed, server, rows, syncer
  <1>2. ThereThen'
    BY DEF IInv, ThereThen, There, Listed, server, rows, syncer
  <1>3. \A l \in Listers : Asked(l)'
    <2> SUFFICES ASSUME NEW l \in Listers, lst[l].at # "idle" PROVE Asked(l)'
      BY DEF Asked, syncer
    <2>1. Asked(l) /\ lst' = lst /\ clock' = clock /\ lst[l].since \in Nat /\ seq \in Nat /\ seq' \in Nat
      BY DEF IInv, Typed, Questions, Idle, server, syncer, Tracker
    <2>2. flow[Dir].op = "ls" => flow'[Dir] = flow[Dir]
      BY FlowIsTyped DEF NameOps, LsOps, NoFlow, Objects
    <2> QED
      BY <2>1, <2>2 DEF Asked, Objects
  <1>4. \A l \in Listers : Spared(l)'
    <2> SUFFICES ASSUME NEW l \in Listers, lst[l].at # "idle" PROVE Spared(l)'
      BY DEF Spared, syncer
    <2>1. lst' = lst /\ own' = own /\ row' = row /\ Spared(l)
      BY DEF IInv, syncer, rows
    <2>2. \A o \in Objects : Quiet(l, o)' => Quiet(l, o)
      BY <2>1, QuietStays
    <2> QED
      BY <2>1, <2>2 DEF Spared, Spares, Objects
  <1> QED
    BY <1>1, <1>2, <1>3, <1>4 DEF IInv

LEMMA BeginsKeeps ==
  ASSUME IInv, NEW op \in NameOps, op.time = 0, op.at \in {"server", "commit"},
         op.op \in {"upload", "rename"} => op.at = "server",
         op.op = "rename" => op.to # op.name, op.op = "create" => op.at = "commit", Begins(op)
  PROVE  IInv'
  <1> DEFINE now == busy \cup Holds(op)
  <1>1. Holds(op) \subseteq Objects /\ now \subseteq Objects
    BY HoldsAreObjects DEF IInv, Tracker
  <1>2. Tracker' /\ NoQuieter /\ busy' = now /\ seq <= seq'
    BY <1>1, SetBusyKeeps DEF Begins, IInv
  <1>3. /\ \A o \in Holds(op) : flow[o] = NoFlow
        /\ flow' = [o \in Objects |-> IF o \in Holds(op) THEN op ELSE flow[o]]
    BY DEF Begins, Free
  <1>4. flow' \in [Objects -> {NoFlow} \cup NameOps \cup LsOps]
    BY <1>3, FlowIsTyped
  <1>5. \A o \in Objects : Held(o)'
    BY <1>1, <1>3, HoldsAreObjects, FlowIsTyped DEF IInv, Held, Free
  <1>6. \A o \in Objects : Timed(o)'
    BY <1>3 DEF Begins, IInv, Timed, server, Typed
  <1>7. BusyIsHeld'
    BY <1>1, <1>2, <1>3 DEF IInv, BusyIsHeld, NameOps, NoFlow
  <1>8. \A o \in Objects : Puts(flow'[o]) => flow'[o] = flow[o]
    BY <1>3 DEF Puts
  <1>9. \A o \in Objects : flow[o].op # "none" /\ flow[o].at = "relist" => flow'[o] = flow[o]
    BY <1>3 DEF NoFlow
  <1> QED
    BY <1>2, <1>4, <1>5, <1>6, <1>7, <1>8, <1>9, FlowsKeep DEF Begins

LEMMA BeginningsKeep ==
  ASSUME IInv, NEW n \in Names, NEW m \in Names,
         BeginsToCreate(n) \/ BeginsToUpload(n) \/ BeginsToDelete(n) \/ BeginsToRename(n, m)
  PROVE  IInv'
  <1>1. \A kind \in {"create", "upload", "delete", "rename"}, at \in {"server", "commit"}, k \in Names :
           /\ Operation(kind, n, k, at) \in NameOps /\ Operation(kind, n, k, at).time = 0
           /\ Operation(kind, n, k, at).at = at /\ Operation(kind, n, k, at).op = kind
           /\ Operation(kind, n, k, at).name = n /\ Operation(kind, n, k, at).to = k
    BY DEF Operation, NameOps
  <1> HIDE DEF Operation
  <1> QED
    BY <1>1, BeginsKeeps DEF BeginsToCreate, BeginsToUpload, BeginsToDelete, BeginsToRename

\* An operation is held as one, so that it ends and turns as one.
LEMMA EndsKeeps ==
  ASSUME IInv, NEW op \in Operations, Ends(op) PROVE IInv'
  <1>1. op \in NameOps /\ \E p \in Objects : flow[p] = op
    BY FlowIsTyped DEF Ends, Operations, LsOps, NoFlow
  <1>2. /\ \A o \in Objects : o \in Holds(op) <=> flow[o] = op
        /\ flow' = [o \in Objects |-> IF flow[o] = op THEN NoFlow ELSE flow[o]]
        /\ Holds(op) \subseteq Objects
    BY <1>1, FlowIsTyped, HoldsAreObjects DEF Ends
  <1> DEFINE now == busy \ Holds(op)
  <1>3. Tracker' /\ NoQuieter /\ busy' = now /\ seq <= seq'
    BY SetBusyKeeps DEF Ends, IInv, Tracker
  <1>4. flow' \in [Objects -> {NoFlow} \cup NameOps \cup LsOps]
    BY <1>2, FlowIsTyped
  <1>5. \A o \in Objects : Held(o)'
    BY <1>2, HoldsAreObjects, FlowIsTyped DEF IInv, Held, Free
  <1>6. \A o \in Objects : Timed(o)'
    BY <1>2 DEF Ends, IInv, Timed, server, NoFlow
  <1>7. BusyIsHeld'
    BY <1>1, <1>2, <1>3 DEF IInv, BusyIsHeld, NameOps, NoFlow
  <1>8. \A o \in Objects : Puts(flow'[o]) => flow'[o] = flow[o]
    BY <1>2 DEF Puts, NoFlow
  <1>9. \A o \in Objects : flow[o].op # "none" /\ flow[o].at = "relist" => flow'[o] = flow[o]
    BY <1>2 DEF Ends
  <1> QED
    BY <1>3, <1>4, <1>5, <1>6, <1>7, <1>8, <1>9, FlowsKeep DEF Ends

\* A flow turns to its next step.
LEMMA TurnsKeep ==
  ASSUME IInv, NEW op \in NameOps, op \in Operations, NEW new \in NameOps,
         new.op = op.op, new.name = op.name, Turns(op, new)
  PROVE  /\ flow' \in [Objects -> {NoFlow} \cup NameOps \cup LsOps]
         /\ \A o \in Objects : Held(o)'
         /\ \A o \in Objects : flow'[o] = IF flow[o] = op THEN new ELSE flow[o]
         /\ busy = {o \in Objects : flow'[o].op \notin {"none", "ls"}}
  <1>1. \A o \in Objects : flow'[o] = IF flow[o] = op THEN new ELSE flow[o]
    BY DEF Turns
  <1>2. flow' \in [Objects -> {NoFlow} \cup NameOps \cup LsOps]
    BY FlowIsTyped DEF Turns
  <1>3. Holds(new) = Holds(op) /\ op # NoFlow /\ new # NoFlow
    BY DEF Holds, NameOps, NoFlow
  <1>4. \A o \in Objects : Held(o)'
    BY <1>1, <1>3, HoldsAreObjects, FlowIsTyped DEF IInv, Held, Free
  <1>5. busy = {o \in Objects : flow'[o].op \notin {"none", "ls"}}
    BY <1>1 DEF IInv, BusyIsHeld
  <1> QED
    BY <1>1, <1>2, <1>4, <1>5

\* The clock moves on: what was listed is older now, and so is what was done.
LEMMA TheClockKeeps ==
  ASSUME IInv, clock' = clock + 1, srv' \in [Names -> Stamps], UNCHANGED <<rows, activity, syncer>>,
         epoch' \in Nat, flow' \in [Objects -> {NoFlow} \cup NameOps \cup LsOps],
         \A o \in Objects : Held(o)' /\ Timed(o)', busy = {o \in Objects : flow'[o].op \notin {"none", "ls"}},
         \A o \in Objects : Puts(flow'[o]) /\ flow'[o].time <= clock => flow'[o] = flow[o],
         \A o \in Objects : Puts(flow'[o]) /\ flow'[o].time = clock + 1 => srv'[Target(flow'[o])] # Nothing,
         \A o \in Objects : flow[o].op # "none" /\ flow[o].at = "relist" => flow'[o] = flow[o]
  PROVE  IInv'
  <1>1. Typed' /\ Past' /\ (Prompt => CommitsStand') /\ Tracker' /\ BusyIsHeld'
    BY DEF IInv, Typed, Past, CommitsStand, Tracker, BusyIsHeld, rows, activity, syncer
  <1>2. \A l \in Listers : lst[l].at # "idle" => lst[l].tag \in Nat /\ lst[l].tag <= clock
    BY DEF IInv, Asked, Typed, Questions, Idle
  <1>3. OneServer'
    BY <1>2 DEF IInv, Typed, OneServer, Listed, syncer
  <1>4. There(clock, srv)'
    BY DEF IInv, Typed, Past, ThereThen, There, rows
  <1>5. ASSUME NEW l \in Listers, Listed(l) PROVE There(lst[l].tag, lst[l].entries)'
    BY <1>2, <1>5 DEF IInv, Typed, ThereThen, There, Listed, rows, syncer
  <1>6. ThereThen'
    BY <1>4, <1>5 DEF IInv, ThereThen, Listed, rows, syncer
  <1>7. ASSUME NEW l \in Listers PROVE Asked(l)'
    <2> SUFFICES ASSUME lst[l].at # "idle" PROVE Asked(l)'
      BY DEF Asked, syncer
    <2>1. flow[Dir].op = "ls" => flow'[Dir] = flow[Dir]
      BY FlowIsTyped DEF NameOps, LsOps, NoFlow, Objects
    <2> QED
      BY <1>2, <2>1 DEF IInv, Typed, Asked, Objects, syncer, activity
  <1>8. \A l \in Listers : Spared(l)'
    BY DEF IInv, Spared, Spares, Quiet, Holder, QuietSince, rows, activity, syncer
  <1> QED
    BY <1>1, <1>3, <1>6, <1>7, <1>8 DEF IInv

LEMMA SomebodyChangesKeeps ==
  ASSUME IInv, NEW n \in Names, SomebodyChanges(n) PROVE IInv'
  <1>1. clock' = clock + 1 /\ UNCHANGED <<rows, activity, flow, epoch, syncer>>
    BY DEF SomebodyChanges, machine
  <1>2. srv' \in [Names -> Stamps]
    BY DEF SomebodyChanges, IInv, Typed, Stamps
  <1>3. \A o \in Objects : Held(o)' /\ Timed(o)' /\ (Puts(flow[o]) => flow[o].time <= clock)
    BY <1>1, FlowIsTyped DEF IInv, Held, Free, Timed, Puts, NoFlow, Typed, NameOps, LsOps
  <1>4. \A o \in Objects : Puts(flow[o]) => flow[o].time # clock + 1
    BY <1>3, FlowIsTyped DEF IInv, Typed, NameOps, LsOps, NoFlow, Puts
  <1> QED
    BY <1>1, <1>2, <1>3, <1>4, TheClockKeeps DEF IInv, Typed, BusyIsHeld

LEMMA AsksTheServerKeeps ==
  ASSUME IInv, NEW op \in Operations, AsksTheServer(op) PROVE IInv'
  <1>1. op \in NameOps /\ \E p \in Objects : flow[p] = op
    BY FlowIsTyped DEF AsksTheServer, Operations, LsOps, NoFlow
  <1>2. PICK p \in Objects : flow[p] = op
    BY <1>1
  <1>3. /\ op.op \in {"upload", "delete", "rename"} /\ op.time <= clock /\ op.name \in Names /\ op.to \in Names
        /\ op.op = "rename" => op.to # op.name
    BY <1>1, <1>2 DEF IInv, Timed, AsksTheServer, NameOps
  <1>4. UNCHANGED <<rows, activity, syncer>> /\ op.at = "server"
    BY DEF AsksTheServer
  <1> DEFINE n == op.name
             known == IF row[n] = Fresh THEN Nothing ELSE row[n]
             fine  == IF op.op = "upload" THEN srv[n] = known ELSE srv[n] # Nothing
             new   == CASE op.op = "upload" -> [srv EXCEPT ![n] = clock + 1]
                        [] op.op = "delete" -> [srv EXCEPT ![n] = Nothing]
                        [] op.op = "rename" -> [srv EXCEPT ![op.to] = srv[n], ![n] = Nothing]
  <1>5. CASE fine /\ clock < Changes
    <2> DEFINE done == [op EXCEPT !.at = "commit", !.time = clock + 1]
    <2>1. /\ clock' = clock + 1 /\ srv' = new /\ Turns(op, done)
          /\ epoch' = IF op.op = "rename" THEN epoch + 1 ELSE epoch
      BY <1>5 DEF AsksTheServer
    <2>2. /\ done \in NameOps /\ done.op = op.op /\ done.name = op.name /\ done.to = op.to
          /\ done.time = clock + 1 /\ done.at = "commit"
      <3>1. clock + 1 \in Nat
        BY DEF IInv, Typed
      <3> HIDE DEF new, fine, known
      <3> QED
        BY <1>1, <3>1 DEF NameOps
    <2>3. srv' \in [Names -> Stamps] /\ (op.op \in {"upload", "rename"} => srv'[Target(op)] # Nothing)
      BY <1>3, <1>5, <2>1 DEF IInv, Typed, Stamps, Target, Nothing
    <2>4. Target(done) = Target(op)
      BY <2>2 DEF Target
    <2> HIDE DEF done, new, fine, known
    <2>5. /\ flow' \in [Objects -> {NoFlow} \cup NameOps \cup LsOps]
          /\ \A o \in Objects : Held(o)'
          /\ \A o \in Objects : flow'[o] = IF flow[o] = op THEN done ELSE flow[o]
          /\ busy = {o \in Objects : flow'[o].op \notin {"none", "ls"}}
      BY <1>1, <2>1, <2>2, TurnsKeep
    <2>6. \A o \in Objects : Timed(o)'
      BY <1>3, <2>1, <2>2, <2>5, FlowIsTyped DEF IInv, Timed, Typed, NameOps, LsOps, NoFlow
    <2>7. \A o \in Objects : Puts(flow[o]) => flow[o].time <= clock /\ flow[o].time # clock + 1
      BY FlowIsTyped DEF IInv, Timed, Typed, NameOps, LsOps, NoFlow, Puts
    <2>8. clock \in Nat /\ ~(clock + 1 <= clock) /\ epoch' \in Nat
      BY <2>1 DEF IInv, Typed
    <2>9. \A o \in Objects : Puts(flow'[o]) /\ flow'[o].time <= clock => flow'[o] = flow[o]
      BY <2>2, <2>5, <2>8
    <2>10. \A o \in Objects : Puts(flow'[o]) /\ flow'[o].time = clock + 1 => srv'[Target(flow'[o])] # Nothing
      BY <2>2, <2>3, <2>4, <2>5, <2>7 DEF Puts
    <2>11. \A o \in Objects : flow[o].op # "none" /\ flow[o].at = "relist" => flow'[o] = flow[o]
      BY <1>4, <2>5
    <2> QED
      BY <1>4, <2>1, <2>3, <2>5, <2>6, <2>8, <2>9, <2>10, <2>11, TheClockKeeps
  <1>6. CASE ~(fine /\ clock < Changes)
    <2> DEFINE done == [op EXCEPT !.at = "end"]
    <2>1. Turns(op, done) /\ UNCHANGED <<server, epoch>>
      BY <1>6 DEF AsksTheServer
    <2>2. /\ done \in NameOps /\ done.op = op.op /\ done.name = op.name /\ done.to = op.to
          /\ done.time = op.time /\ done.at = "end"
      BY <1>1 DEF NameOps
    <2> HIDE DEF done, new, fine, known
    <2>5. /\ flow' \in [Objects -> {NoFlow} \cup NameOps \cup LsOps]
          /\ \A o \in Objects : Held(o)'
          /\ \A o \in Objects : flow'[o] = IF flow[o] = op THEN done ELSE flow[o]
          /\ busy = {o \in Objects : flow'[o].op \notin {"none", "ls"}}
      BY <1>1, <2>1, <2>2, TurnsKeep
    <2>6. \A o \in Objects : Timed(o)'
      BY <1>3, <2>1, <2>2, <2>5 DEF IInv, Timed, server
    <2>7. Tracker' /\ NoQuieter /\ seq <= seq' /\ BusyIsHeld'
      BY <1>4, <2>5 DEF IInv, Tracker, NoQuieter, QuietSince, BusyIsHeld, activity
    <2>8. \A o \in Objects : Puts(flow'[o]) => flow'[o] = flow[o]
      BY <2>2, <2>5 DEF Puts
    <2>9. \A o \in Objects : flow[o].op # "none" /\ flow[o].at = "relist" => flow'[o] = flow[o]
      BY <1>4, <2>5
    <2> QED
      BY <1>4, <2>1, <2>5, <2>6, <2>7, <2>8, <2>9, FlowsKeep
  <1> QED
    BY <1>5, <1>6

\* Who commits is busy, and so is the directory if a name comes or goes.
LEMMA CommitsAreBusy ==
  ASSUME IInv, NEW op \in Operations, op \in NameOps, op.at = "commit", NEW l \in Listers,
         lst[l].at # "idle"
  PROVE  /\ ~Quiet(l, op.name)
         /\ op.op # "upload" => ~Quiet(l, Dir)
  <1>1. PICK p \in Objects : flow[p] = op
    BY DEF Operations
  <1>2. \A h \in Holds(op) : flow[h] = op
    BY <1>1, FlowIsTyped DEF NameOps
  <1>3. Holds(op) \subseteq busy
    BY <1>2, HoldsAreObjects DEF IInv, BusyIsHeld, NameOps
  <1>4. op.name \in Holds(op) /\ (op.op # "upload" => Dir \in Holds(op))
    BY DEF Holds, NameOps
  <1>5. op.name # Holder(l)
    BY <1>2, <1>4, ListingAssumption DEF Holder, IInv, Asked, NameOps
  <1>6. op.op # "upload" => Dir # Holder(l)
    BY <1>2, <1>4, ListingAssumption DEF Holder, IInv, Asked, NameOps
  <1> QED
    BY <1>3, <1>4, <1>5, <1>6 DEF Quiet, QuietSince

\* What a commit does to a name: nothing, or the name is the one the flow holds,
\* or a rename's, which holds the directory.
LEMMA WhatCommits ==
  ASSUME IInv, NEW op \in Operations, op \in NameOps, Commits(op)
  PROVE  /\ row' \in [Names -> Stamps] /\ asof' \in [Names -> Nat] /\ own' \in [Names -> Nat]
         /\ ident' \subseteq Names
         /\ \A n \in Names : \/ own'[n] = own[n] /\ asof'[n] = asof[n]
                             \/ own'[n] = op.time /\ asof'[n] = op.time
         /\ \A n \in ident' : \/ n \in ident /\ own'[n] = own[n]
                              \/ Puts(op) /\ n = Target(op) /\ own'[n] = op.time
         /\ op.op = "upload" =>
              \A n \in Names : IF n = op.name THEN row'[n] # Nothing
                              ELSE row'[n] = row[n] /\ own'[n] = own[n]
  <1>1. op.time \in Nat /\ op.at = "commit" /\ op.name \in Names /\ op.to \in Names
    BY DEF Commits, NameOps
  <1>2. op.op \in {"upload", "rename"} => op.time > 0
    BY <1>1 DEF Operations, IInv, Timed
  <1>3. CASE op.op = "create"
    <2>1. op.time = 0 => own' = own /\ asof' = asof
      BY <1>3 DEF Commits
    <2>2. op.time # 0 => own' = [own EXCEPT ![op.name] = op.time] /\ asof' = [asof EXCEPT ![op.name] = op.time]
      BY <1>3 DEF Commits
    <2>3. row' = [row EXCEPT ![op.name] = Fresh] /\ ident' = ident \ {op.name}
      BY <1>3 DEF Commits
    <2> QED
      BY <1>1, <1>3, <2>1, <2>2, <2>3 DEF IInv, Typed, ThereThen, Stamps, Fresh
  <1>4. CASE op.op = "delete"
    <2>1. op.time = 0 => own' = own /\ asof' = asof
      BY <1>4 DEF Commits
    <2>2. op.time # 0 => own' = [own EXCEPT ![op.name] = op.time] /\ asof' = [asof EXCEPT ![op.name] = op.time]
      BY <1>4 DEF Commits
    <2>3. row' = [row EXCEPT ![op.name] = Nothing] /\ ident' = ident \ {op.name}
      BY <1>4 DEF Commits
    <2> QED
      BY <1>1, <1>4, <2>1, <2>2, <2>3 DEF IInv, Typed, ThereThen, Stamps, Nothing
  <1>5. CASE op.op = "upload"
    <2>1. own' = [own EXCEPT ![op.name] = op.time] /\ asof' = [asof EXCEPT ![op.name] = op.time]
      <3>1. op.time # 0
        BY <1>1, <1>2, <1>5
      <3> QED
        BY <1>5, <3>1 DEF Commits
    <2>2. row' = [row EXCEPT ![op.name] = op.time] /\ ident' = ident
      BY <1>5 DEF Commits
    <2> QED
      BY <1>1, <1>5, <2>1, <2>2 DEF IInv, Typed, ThereThen, Stamps, Nothing, Puts, Target
  <1>6. CASE op.op = "rename"
    <2>1. own' = [own EXCEPT ![op.name] = op.time, ![op.to] = op.time]
      <3>1. own' = (CASE op.op = "rename" -> [own EXCEPT ![op.name] = op.time, ![op.to] = op.time]
                     [] op.time = 0 -> own
                     [] OTHER -> [own EXCEPT ![op.name] = op.time])
        BY DEF Commits
      <3> QED
        BY <1>1, <1>2, <1>6, <3>1
    <2>2. asof' = [asof EXCEPT ![op.name] = op.time, ![op.to] = op.time]
      <3>1. asof' = (CASE op.op = "rename" -> [asof EXCEPT ![op.name] = op.time, ![op.to] = op.time]
                     [] op.time = 0 -> asof
                     [] OTHER -> [asof EXCEPT ![op.name] = op.time])
        BY DEF Commits
      <3> QED
        BY <1>1, <1>2, <1>6, <3>1
    <2>3. /\ row' = [row EXCEPT ![op.to] = row[op.name], ![op.name] = Nothing]
          /\ ident' = (ident \ {op.name, op.to}) \cup (IF op.name \in ident THEN {op.to} ELSE {})
      BY <1>6 DEF Commits
    <2> QED
      BY <1>1, <1>6, <2>1, <2>2, <2>3 DEF IInv, Typed, ThereThen, Stamps, Nothing, Puts, Target
  <1> QED
    BY <1>3, <1>4, <1>5, <1>6 DEF NameOps

LEMMA CommitsKeeps ==
  ASSUME IInv, NEW op \in Operations, Commits(op) PROVE IInv'
  <1>1. op \in NameOps /\ op.time \in Nat
    <2>1. op \in {NoFlow} \cup NameOps \cup LsOps /\ op.op # "none" /\ op.at = "commit"
      BY FlowIsTyped DEF Commits, Operations
    <2>2. op \in NameOps
      BY <2>1 DEF LsOps, NoFlow
    <2> QED
      BY <2>2 DEF NameOps
  <1>2. PICK p \in Objects : flow[p] = op
    BY DEF Operations
  <1>3. UNCHANGED <<server, activity, epoch, syncer>> /\ op.at = "commit" /\ (Prompt => ~Judged)
    BY DEF Commits, Prompt
  <1> DEFINE done == [op EXCEPT !.at = IF op.op = "upload" /\ op.name \notin ident THEN "relist" ELSE "end"]
  <1>4. /\ done \in NameOps /\ done.op = op.op /\ done.name = op.name /\ done.to = op.to
        /\ done.time = op.time /\ done.at \in {"relist", "end"} /\ Turns(op, done)
    BY <1>1 DEF NameOps, Commits
  <1> HIDE DEF done
  <1>5. /\ flow' \in [Objects -> {NoFlow} \cup NameOps \cup LsOps]
        /\ \A o \in Objects : Held(o)'
        /\ \A o \in Objects : flow'[o] = IF flow[o] = op THEN done ELSE flow[o]
        /\ busy = {o \in Objects : flow'[o].op \notin {"none", "ls"}}
    BY <1>1, <1>4, TurnsKeep
  <1>6. \A o \in Objects : Timed(o)'
    BY <1>2, <1>3, <1>4, <1>5 DEF IInv, Timed, server
  <1>7. op.time <= clock
    BY <1>1, <1>2 DEF IInv, Timed, NameOps
  <1>8. Typed' /\ Past' /\ (Prompt => CommitsStand') /\ OneServer' /\ BusyIsHeld' /\ Tracker'
    <2>1. Typed'
      BY <1>1, <1>3, <1>5, WhatCommits DEF IInv, Typed, server, syncer
    <2>2. Past' /\ (Prompt => CommitsStand')
      BY <1>1, <1>3, <1>7, WhatCommits DEF IInv, Typed, Past, CommitsStand, server
    <2>3. OneServer'
      BY <1>3 DEF IInv, OneServer, Listed, server, syncer
    <2>4. BusyIsHeld' /\ Tracker'
      BY <1>3, <1>5 DEF IInv, BusyIsHeld, Tracker, activity
    <2> QED
      BY <2>1, <2>2, <2>3, <2>4
  <1>9. ASSUME Prompt, NEW t, NEW e, There(t, e)
        PROVE  /\ \A n \in ident' : own'[n] = t => e[n] # Nothing
               /\ \A o \in Objects : Puts(flow'[o]) /\ flow'[o].time = t => e[Target(flow'[o])] # Nothing
    <2>1. \A n \in ident' : own'[n] = t => e[n] # Nothing
      BY <1>1, <1>2, <1>9, WhatCommits DEF There
    <2>2. \A o \in Objects : Puts(flow'[o]) /\ flow'[o].time = t => e[Target(flow'[o])] # Nothing
      BY <1>4, <1>5, <1>9 DEF There, Puts
    <2> QED
      BY <2>1, <2>2
  <1>10. ThereThen'
    <2>1. There(clock, srv)'
      BY <1>3, <1>9 DEF IInv, ThereThen, There, server
    <2>2. ASSUME NEW l \in Listers, Listed(l) PROVE There(lst[l].tag, lst[l].entries)'
      BY <1>3, <1>9, <2>2 DEF IInv, ThereThen, There, syncer
    <2> QED
      BY <1>1, <1>3, <2>1, <2>2, WhatCommits DEF ThereThen, Listed, syncer
  <1>11. ASSUME NEW l \in Listers PROVE Asked(l)'
    <2> SUFFICES ASSUME lst[l].at # "idle" PROVE Asked(l)'
      BY <1>3 DEF Asked, syncer
    <2>1. \A o \in Objects : flow[o].at = "relist" => flow'[o] = flow[o]
      BY <1>3, <1>5
    <2>2. flow[Dir].op = "ls" => flow'[Dir] = flow[Dir]
      BY <1>1, <1>5 DEF NameOps, Objects
    <2> QED
      BY <1>3, <2>1, <2>2 DEF IInv, Asked, Objects, server, syncer, activity
  <1>12. ASSUME NEW l \in Listers PROVE Spared(l)'
    <2> SUFFICES ASSUME Prompt PROVE Spared(l)'
      BY DEF Spared
    <2>1. \A o \in Objects : Quiet(l, o)' <=> Quiet(l, o)
      BY <1>3 DEF Quiet, Holder, QuietSince, activity, syncer
    <2>2. lst[l].at # "judged" /\ lst' = lst
      BY <1>3 DEF Judged, syncer
    <2>3. CASE lst[l].at = "listed" /\ Quiet(l, Dir)'
      <3>1. op.op = "upload" /\ ~Quiet(l, op.name)' /\ op.name \in Names
        BY <1>1, <1>3, <2>1, <2>3, CommitsAreBusy DEF Objects, NameOps
      <3>2. \A n \in Names : Spares(l, n)
        BY <2>1, <2>3 DEF IInv, Spared, Objects
      <3> QED
        BY <1>1, <2>1, <2>2, <2>3, <3>1, <3>2, WhatCommits DEF Spared, Spares, Objects
    <2> QED
      BY <2>2, <2>3 DEF Spared
  <1> QED
    BY <1>5, <1>6, <1>8, <1>10, <1>11, <1>12 DEF IInv

-----------------------------------------------------------------------------
(* The listings.                                                           *)

\* What a step of lister l may do to the flows: nothing but to end its own.
FlowsStand(l) ==
    /\ flow' \in [Objects -> {NoFlow} \cup NameOps \cup LsOps]
    /\ \A o \in Objects : Held(o)' /\ Timed(o)'
    /\ busy = {o \in Objects : flow'[o].op \notin {"none", "ls"}}
    /\ \A o \in Objects : Puts(flow'[o]) => flow'[o] = flow[o]
    /\ \A k \in Listers \ {l} : lst[k].at # "idle" =>
          /\ k = "relist" => flow'[lst[k].for] = flow[lst[k].for]
          /\ k = "ls" => flow'[Dir] = flow[Dir]

LEMMA FlowsStayPut ==
  ASSUME IInv, NEW l \in Listers, flow' = flow, clock' = clock PROVE FlowsStand(l)
  BY DEF FlowsStand, IInv, Typed, Held, Free, Timed, BusyIsHeld

LEMMA FlowAfterStands ==
  ASSUME IInv, NEW l \in Listers, lst[l].at # "idle", flow' = FlowAfter(l), clock' = clock
  PROVE  FlowsStand(l)
  <1>1. CASE l \notin {"ls", "relist"}
    BY <1>1, FlowsStayPut DEF FlowAfter
  <1>2. CASE l = "ls"
    <2>1. flow[Dir].op = "ls" /\ flow' = [flow EXCEPT ![Dir] = NoFlow] /\ Dir \in Objects
      BY <1>2 DEF IInv, Asked, FlowAfter, Objects
    <2>2. flow[Dir] \in LsOps /\ Dir \notin busy
      BY <2>1, FlowIsTyped DEF NameOps, NoFlow, IInv, BusyIsHeld
    <2>3. \A o \in Objects : o # Dir /\ flow[o].op # "none" => Dir \notin Holds(flow[o])
      <3>1. Holds(flow[Dir]) = {Dir}
        BY <2>2 DEF LsOps, Holds
      <3> QED
        BY <3>1, FlowIsTyped
    <2>4. /\ \A o \in Objects : flow'[o] = IF o = Dir THEN NoFlow ELSE flow[o]
          /\ flow' \in [Objects -> {NoFlow} \cup NameOps \cup LsOps]
      BY <2>1 DEF IInv, Typed
    <2>5. \A o \in Objects : Held(o)'
      <3>1. \A o \in Objects : flow[o] # NoFlow => flow[o].op # "none"
        BY FlowIsTyped DEF NameOps, LsOps
      <3>2. \A o \in Objects : flow[o] # NoFlow => Holds(flow[o]) \subseteq Objects
        BY FlowIsTyped, HoldsAreObjects
      <3> QED
        BY <2>3, <2>4, <3>1, <3>2, FlowIsTyped DEF Held, Free
    <2>6. \A o \in Objects : Timed(o)'
      BY <2>4 DEF IInv, Timed, NoFlow
    <2>7. busy = {o \in Objects : flow'[o].op \notin {"none", "ls"}}
      BY <2>1, <2>4 DEF IInv, BusyIsHeld, NoFlow
    <2>8. \A o \in Objects : Puts(flow'[o]) => flow'[o] = flow[o]
      BY <2>4 DEF Puts, NoFlow
    <2>9. \A k \in Listers \ {l} : lst[k].at # "idle" =>
            /\ k = "relist" => flow'[lst[k].for] = flow[lst[k].for]
            /\ k = "ls" => flow'[Dir] = flow[Dir]
      BY <1>2, <2>4, ListingAssumption DEF IInv, Asked, Objects
    <2> QED
      BY <2>4, <2>5, <2>6, <2>7, <2>8, <2>9 DEF FlowsStand
  <1>3. CASE l = "relist"
    <2> DEFINE n == lst[l].for
               op == flow[n]
    <2>1. /\ n \in Names /\ op.op = "upload" /\ op.at = "relist" /\ n \in Objects
          /\ flow' = [flow EXCEPT ![n].at = "end"]
      BY <1>3 DEF IInv, Asked, FlowAfter, Objects
    <2>2. op \in NameOps
      BY <2>1, FlowIsTyped DEF LsOps, NoFlow
    <2> DEFINE done == [op EXCEPT !.at = "end"]
    <2>3. done \in NameOps /\ done.op = op.op /\ done.name = op.name /\ done.to = op.to
          /\ done.time = op.time /\ done.at = "end"
      BY <2>2 DEF NameOps
    <2>4. op \in Operations /\ Holds(op) = {n}
      BY <2>1, <2>2, FlowIsTyped DEF Operations, Holds
    <2>5. flow' = [flow EXCEPT ![n] = done]
      BY <2>1
    <2>6. Turns(op, done)
      <3>1. \A o \in Objects : flow[o] = op => o = n
        BY <2>2, <2>4, FlowIsTyped DEF NameOps
      <3> HIDE DEF done, op, n
      <3> QED
        BY <2>1, <2>5, <3>1 DEF Turns, IInv, Typed, op
    <2> HIDE DEF done
    <2>7. /\ flow' \in [Objects -> {NoFlow} \cup NameOps \cup LsOps]
          /\ \A o \in Objects : Held(o)'
          /\ \A o \in Objects : flow'[o] = IF flow[o] = op THEN done ELSE flow[o]
          /\ busy = {o \in Objects : flow'[o].op \notin {"none", "ls"}}
      BY <2>2, <2>3, <2>4, <2>6, TurnsKeep
    <2>8. \A o \in Objects : Timed(o)'
      BY <2>1, <2>3, <2>7 DEF IInv, Timed
    <2>9. \A o \in Objects : Puts(flow'[o]) => flow'[o] = flow[o]
      BY <2>3, <2>7 DEF Puts
    <2>10. flow[Dir].op = "ls" => flow'[Dir] = flow[Dir]
      BY <2>1, <2>7 DEF Objects
    <2> QED
      BY <1>3, <2>7, <2>8, <2>9, <2>10 DEF FlowsStand, IInv, Asked
  <1> QED
    BY <1>1, <1>2, <1>3

\* A step of a lister that leaves the rows alone.
LEMMA ListersKeep ==
  ASSUME IInv, NEW l \in Listers, NEW r \in {Idle} \cup Questions, Goes(l, r), FlowsStand(l),
         UNCHANGED <<server, row, ident, asof, own, activity, epoch>>, walked' \in Stamps,
         Asked(l)', Spared(l)',
         r.at \in {"listed", "judged"} =>
            /\ r.tag > 0 /\ (r.tag = clock => r.entries = srv)
            /\ There(r.tag, r.entries)
            /\ \A k \in Listers : Listed(k) /\ lst[k].tag = r.tag => lst[k].entries = r.entries
  PROVE  IInv'
  <1>1. lst' \in [Listers -> {Idle} \cup Questions] /\ \A k \in Listers : lst'[k] = IF k = l THEN r ELSE lst[k]
    BY DEF Goes, IInv, Typed
  <1>2. Typed' /\ Past' /\ (Prompt => CommitsStand') /\ Tracker' /\ BusyIsHeld'
    BY <1>1 DEF IInv, Typed, Past, CommitsStand, Tracker, BusyIsHeld, server, activity, FlowsStand
  <1>3. OneServer'
    <2>1. \A k \in Listers : Listed(k)' => IF k = l THEN r.at \in {"listed", "judged"} /\ lst'[k] = r
                                                     ELSE Listed(k) /\ lst'[k] = lst[k]
      BY <1>1 DEF Listed
    <2>2. clock' = clock /\ srv' = srv
      BY DEF server
    <2>3. \A k \in Listers : Listed(k)' => lst'[k].tag > 0 /\ (lst'[k].tag = clock => lst'[k].entries = srv)
      BY <2>1 DEF IInv, OneServer
    <2>4. \A k, j \in Listers : Listed(k)' /\ Listed(j)' /\ lst'[k].tag = lst'[j].tag
                                   => lst'[k].entries = lst'[j].entries
      BY <2>1 DEF IInv, OneServer
    <2> QED
      BY <2>2, <2>3, <2>4 DEF OneServer
  <1>4. ASSUME Prompt, NEW t, NEW e, There(t, e)
        PROVE  /\ \A n \in ident' : own'[n] = t => e[n] # Nothing
               /\ \A o \in Objects : Puts(flow'[o]) /\ flow'[o].time = t => e[Target(flow'[o])] # Nothing
    BY <1>4 DEF There, FlowsStand
  <1>5. ThereThen'
    <2>1. There(clock, srv)'
      BY <1>4 DEF IInv, ThereThen, There, server
    <2>2. ASSUME NEW k \in Listers, Listed(k)' PROVE There(lst[k].tag, lst[k].entries)'
      <3>1. CASE k = l
        BY <1>1, <1>4, <2>2, <3>1 DEF Listed, There
      <3>2. CASE k # l
        BY <1>1, <1>4, <2>2, <3>2 DEF IInv, ThereThen, Listed, There
      <3> QED
        BY <3>1, <3>2
    <2> QED
      BY <2>1, <2>2 DEF IInv, ThereThen
  <1>6. ASSUME NEW k \in Listers, k # l PROVE Asked(k)' /\ Spared(k)'
    <2>1. lst'[k] = lst[k]
      BY <1>1, <1>6
    <2>2. Asked(k)'
      BY <1>6, <2>1 DEF IInv, Asked, FlowsStand, server, activity
    <2>3. Spared(k)'
      BY <2>1 DEF IInv, Spared, Spares, Quiet, Holder, QuietSince, activity
    <2> QED
      BY <2>2, <2>3
  <1> QED
    BY <1>2, <1>3, <1>5, <1>6 DEF IInv, FlowsStand

LEMMA QuestionIsTyped ==
  ASSUME IInv, NEW l \in Listers, lst[l].at # "idle"
  PROVE  lst[l] \in Questions /\ lst[l].since <= seq /\ lst[l].tag <= clock /\ l \in AllListers
  BY ListingAssumption DEF IInv, Typed, Asked, Idle

LEMMA TakenIsTyped ==
  ASSUME IInv, NEW for \in Objects \cup {Nobody}, NEW root \in Roots
  PROVE  /\ Taken(for, root) \in Questions /\ Taken(for, root).at = "asking" /\ Taken(for, root).since = seq
         /\ Taken(for, root).tag = 0 /\ Taken(for, root).for = for
  BY DEF Taken, Questions, IInv, Typed, Tracker, Stamps

\* A question that is new has everything to learn.
LEMMA AsksKeeps ==
  ASSUME IInv, NEW l \in Listers, NEW r \in Questions, Goes(l, r), FlowsStand(l),
         UNCHANGED <<server, row, ident, asof, own, activity, epoch>>, walked' \in Stamps,
         r.at \in {"asking", "root"}, r.since <= seq, r.tag = 0,
         l = "relist" => r.for \in Names /\ flow'[r.for].op = "upload" /\ flow'[r.for].at = "relist",
         l = "ls" => flow'[Dir].op = "ls"
  PROVE  IInv'
  <1>1. lst'[l] = r
    BY DEF Goes, IInv, Typed
  <1>2. Asked(l)' /\ Spared(l)'
    BY <1>1 DEF Asked, Spared, IInv, Typed, server, activity
  <1> QED
    BY <1>2, ListersKeep

LEMMA NoRootIsTyped == NoRoot \in Roots
  BY DEF NoRoot, Roots, Stamps, Nothing

LEMMA RefreshKeeps == ASSUME IInv, BeginsRefresh PROVE IInv'
  <1>1. "refresh" \in Listers /\ UNCHANGED <<server, rows, activity, machine, epoch, walked>>
    BY DEF BeginsRefresh, MayBegin, At
  <1>2. FlowsStand("refresh")
    BY <1>1, FlowsStayPut DEF machine, server
  <1>3. Goes("refresh", Taken(Nobody, NoRoot)) /\ walked' \in Stamps /\ seq \in Nat /\ seq <= seq
    BY DEF BeginsRefresh, IInv, Typed, Tracker
  <1>4. /\ Taken(Nobody, NoRoot) \in Questions /\ Taken(Nobody, NoRoot).at = "asking"
        /\ Taken(Nobody, NoRoot).since = seq /\ Taken(Nobody, NoRoot).tag = 0
    BY TakenIsTyped, NoRootIsTyped
  <1> QED
    BY <1>1, <1>2, <1>3, <1>4, AsksKeeps DEF rows

LEMMA RelistKeeps == ASSUME IInv, NEW n \in Names, BeginsRelist(n) PROVE IInv'
  <1>1. "relist" \in Listers /\ UNCHANGED <<server, rows, activity, machine, epoch, walked>>
    BY DEF BeginsRelist, MayBegin, At
  <1>2. FlowsStand("relist")
    BY <1>1, FlowsStayPut DEF machine, server
  <1>3. n \in Objects /\ flow'[n].op = "upload" /\ flow'[n].at = "relist"
    BY <1>1 DEF BeginsRelist, Objects, machine
  <1>4. Goes("relist", Taken(n, NoRoot)) /\ walked' \in Stamps /\ seq \in Nat /\ seq <= seq
    BY DEF BeginsRelist, IInv, Typed, Tracker
  <1>5. /\ Taken(n, NoRoot) \in Questions /\ Taken(n, NoRoot).at = "asking"
        /\ Taken(n, NoRoot).since = seq /\ Taken(n, NoRoot).tag = 0 /\ Taken(n, NoRoot).for = n
    BY <1>3, TakenIsTyped, NoRootIsTyped
  <1> QED
    BY <1>1, <1>2, <1>3, <1>4, <1>5, AsksKeeps DEF rows

LEMMA LsKeeps == ASSUME IInv, BeginsLs PROVE IInv'
  <1> DEFINE op == Operation("ls", Dir, Dir, "relist")
  <1>1. "ls" \in Listers /\ UNCHANGED <<server, rows, activity, flows, epoch, walked>> /\ flow[Dir] = NoFlow
    BY DEF BeginsLs, MayBegin, At, Free
  <1>2. op \in LsOps /\ op.op = "ls" /\ op.at = "relist" /\ Holds(op) = {Dir} /\ Dir \in Objects /\ op.time = 0
    BY DEF Operation, LsOps, Holds, Objects
  <1>3. flow' = [flow EXCEPT ![Dir] = op]
    BY DEF BeginsLs
  <1> HIDE DEF op
  <1>4. /\ \A o \in Objects : flow'[o] = IF o = Dir THEN op ELSE flow[o]
        /\ flow' \in [Objects -> {NoFlow} \cup NameOps \cup LsOps]
    BY <1>2, <1>3 DEF IInv, Typed
  <1>5. \A o \in Objects : Held(o)'
    <2>1. \A o \in Objects : flow[o] # NoFlow => flow[o].op # "none" /\ Holds(flow[o]) \subseteq Objects
      BY FlowIsTyped, HoldsAreObjects DEF NameOps, LsOps
    <2> QED
      BY <1>1, <1>2, <1>4, <2>1, FlowIsTyped DEF Held, Free
  <1>6. \A o \in Objects : Timed(o)'
    BY <1>1, <1>2, <1>4 DEF IInv, Timed, server, Typed
  <1>7. busy = {o \in Objects : flow'[o].op \notin {"none", "ls"}}
    BY <1>1, <1>2, <1>4 DEF IInv, BusyIsHeld, NoFlow
  <1>8. \A o \in Objects : Puts(flow'[o]) => flow'[o] = flow[o]
    BY <1>2, <1>4 DEF Puts
  <1>9. \A k \in Listers \ {"ls"} : lst[k].at # "idle" /\ k = "relist" => flow'[lst[k].for] = flow[lst[k].for]
    BY <1>4, ListingAssumption DEF IInv, Asked, Objects
  <1>10. FlowsStand("ls")
    BY <1>4, <1>5, <1>6, <1>7, <1>8, <1>9 DEF FlowsStand
  <1> QED
    BY <1>1, <1>2, <1>4, <1>10, TakenIsTyped, NoRootIsTyped, AsksKeeps
       DEF BeginsLs, rows, IInv, Typed, Tracker

\* What the walk vouches for is a time it has seen.
LEMMA FinishIsTyped ==
  ASSUME IInv, NEW l \in Listers, lst[l].at # "idle", Finishes(l), clock' = clock
  PROVE  walked' \in Stamps /\ FlowsStand(l) /\ Goes(l, Idle)
  <1>1. lst[l].root.tag \in Stamps
    BY QuestionIsTyped DEF Questions, Roots
  <1>2. FlowsStand(l)
    BY FlowAfterStands DEF Finishes
  <1> QED
    BY <1>1, <1>2 DEF Finishes, IInv, Typed, Stamps

\* A listing that is over leaves no traces in the rows.
LEMMA OverKeeps ==
  ASSUME IInv, NEW l \in Listers, Goes(l, Idle), FlowsStand(l), walked' \in Stamps,
         UNCHANGED <<server, row, ident, asof, own, activity, epoch>>
  PROVE  IInv'
  <1>1. lst'[l] = Idle
    BY DEF Goes, IInv, Typed
  <1>2. Asked(l)' /\ Spared(l)' /\ Idle.at = "idle"
    BY <1>1 DEF Asked, Spared, Idle
  <1> QED
    BY <1>2, ListersKeep

LEMMA FailsKeeps == ASSUME IInv, NEW l \in Listers, Fails(l) PROVE IInv'
  <1>1. lst[l].at # "idle" /\ clock' = clock /\ UNCHANGED <<server, row, ident, asof, own, activity, epoch>>
    BY DEF Fails, server, rows
  <1>2. FlowsStand(l)
    BY <1>1, FlowAfterStands DEF Fails
  <1>3. walked' \in Stamps
    BY DEF Fails, IInv, Typed, Stamps
  <1> QED
    BY <1>1, <1>2, <1>3, OverKeeps DEF Fails

LEMMA ProbesKeeps == ASSUME IInv, Probes PROVE IInv'
  <1> DEFINE root == [tag |-> clock, since |-> seq, epoch |-> epoch]
             r == [Taken(Nobody, root) EXCEPT !.at = "root"]
  <1>1. "walk" \in Listers /\ UNCHANGED <<server, rows, activity, machine, epoch, walked>>
        /\ Goes("walk", r)
    BY DEF Probes, MayBegin, At
  <1>2. root \in Roots
    BY DEF Roots, IInv, Typed, Tracker, Stamps
  <1> HIDE DEF root
  <1>3. Taken(Nobody, root) \in Questions /\ Taken(Nobody, root).since = seq /\ Taken(Nobody, root).tag = 0
    BY <1>2, TakenIsTyped
  <1>4. r \in Questions /\ r.at = "root" /\ r.since = seq /\ r.tag = 0
    BY <1>3 DEF Questions
  <1> HIDE DEF r
  <1>5. FlowsStand("walk") /\ walked' \in Stamps /\ seq <= seq
    BY <1>1, FlowsStayPut DEF machine, server, IInv, Typed, Tracker
  <1> QED
    BY <1>1, <1>4, <1>5, AsksKeeps DEF rows

LEMMA WalksTheRootKeeps == ASSUME IInv, WalksTheRoot PROVE IInv'
  <1>1. /\ "walk" \in Listers /\ lst["walk"].at # "idle" /\ clock' = clock
        /\ UNCHANGED <<server, row, ident, asof, own, activity, epoch>>
    BY DEF WalksTheRoot, At, server
  <1>2. CASE Finishes("walk")
    BY <1>1, <1>2, FinishIsTyped, OverKeeps
  <1>3. CASE Goes("walk", Taken(Nobody, lst["walk"].root)) /\ UNCHANGED <<flow, walked>>
    <2> DEFINE r == Taken(Nobody, lst["walk"].root)
    <2>1. lst["walk"].root \in Roots
      BY <1>1, QuestionIsTyped DEF Questions
    <2>2. r \in Questions /\ r.at = "asking" /\ r.since = seq /\ r.tag = 0
      BY <2>1, TakenIsTyped
    <2> HIDE DEF r
    <2>3. FlowsStand("walk") /\ walked' \in Stamps /\ seq <= seq
      BY <1>1, <1>3, FlowsStayPut DEF IInv, Typed, Tracker
    <2>4. Goes("walk", r)
      BY <1>3 DEF r
    <2> QED
      BY <1>1, <2>2, <2>3, <2>4, AsksKeeps
  <1> QED
    BY <1>2, <1>3 DEF WalksTheRoot

\* What the server answers is the present; nothing that was done here is later.
LEMMA ListsKeeps == ASSUME IInv, NEW l \in Listers, Lists(l) PROVE IInv'
  <1> DEFINE r == [lst[l] EXCEPT !.at = "listed", !.tag = clock, !.entries = srv]
  <1>1. /\ lst[l].at = "asking" /\ clock' = clock /\ Goes(l, r)
        /\ UNCHANGED <<server, row, ident, asof, own, activity, epoch, walked, flow>>
    BY DEF Lists, At, server, rows, machine
  <1>2. lst[l] \in Questions /\ Asked(l) /\ clock \in Nat \ {0} /\ srv \in [Names -> Stamps]
    BY <1>1, QuestionIsTyped DEF IInv, Typed
  <1>3. /\ r \in Questions /\ r.at = "listed" /\ r.tag = clock /\ r.entries = srv
        /\ r.since = lst[l].since /\ r.for = lst[l].for
    BY <1>2 DEF Questions
  <1> HIDE DEF r
  <1>4. lst'[l] = r /\ clock <= clock
    BY <1>1, <1>2 DEF Goes, IInv, Typed
  <1>5. Asked(l)'
    BY <1>1, <1>2, <1>3, <1>4 DEF Asked, server, activity
  <1>6. Spared(l)'
    BY <1>1, <1>2, <1>3, <1>4 DEF Spared, Spares, IInv, Past, Typed
  <1>7. There(clock, srv) /\ \A k \in Listers : Listed(k) /\ lst[k].tag = clock => lst[k].entries = srv
    BY DEF IInv, ThereThen, OneServer
  <1>8. FlowsStand(l) /\ walked' \in Stamps
    BY <1>1, FlowsStayPut DEF IInv, Typed
  <1>9. r.tag > 0
    BY <1>2, <1>3
  <1> QED
    BY <1>1, <1>3, <1>5, <1>6, <1>7, <1>8, <1>9, ListersKeep

LEMMA JudgesKeeps == ASSUME IInv, NEW l \in Listers, Judges(l) PROVE IInv'
  <1> DEFINE r == [lst[l] EXCEPT !.at = "judged"]
  <1>1. /\ lst[l].at = "listed" /\ clock' = clock
        /\ UNCHANGED <<server, row, ident, asof, own, activity, epoch>>
    BY DEF Judges, At, server, rows
  <1>2. CASE Finishes(l)
    BY <1>1, <1>2, FinishIsTyped, OverKeeps
  <1>3. CASE Quiet(l, Dir) /\ Goes(l, r) /\ UNCHANGED <<flow, walked>>
    <2>1. lst[l] \in Questions /\ Asked(l) /\ Spared(l) /\ Listed(l)
      BY <1>1, QuestionIsTyped DEF IInv, Listed
    <2>2. /\ r \in Questions /\ r.at = "judged" /\ r.tag = lst[l].tag /\ r.entries = lst[l].entries
          /\ r.since = lst[l].since /\ r.for = lst[l].for
      BY <2>1 DEF Questions
    <2> HIDE DEF r
    <2>3. lst'[l] = r
      BY <1>3 DEF Goes, IInv, Typed
    <2>4. Asked(l)'
      BY <1>1, <1>3, <2>1, <2>2, <2>3 DEF Asked, server, activity
    <2>5. Spared(l)'
      BY <1>1, <1>3, <2>1, <2>2, <2>3 DEF Spared, Spares, Quiet, Holder, QuietSince, activity
    <2>6. /\ There(r.tag, r.entries) /\ r.tag > 0 /\ (r.tag = clock => r.entries = srv)
          /\ \A k \in Listers : Listed(k) /\ lst[k].tag = r.tag => lst[k].entries = r.entries
      BY <2>1, <2>2 DEF IInv, ThereThen, OneServer
    <2>7. FlowsStand(l) /\ walked' \in Stamps
      BY <1>1, <1>3, FlowsStayPut DEF IInv, Typed
    <2> QED
      BY <1>1, <1>3, <2>2, <2>4, <2>5, <2>6, <2>7, ListersKeep
  <1> QED
    BY <1>2, <1>3 DEF Judges

\* A listing is applied to names whose last change here it knows of, and no row
\* goes that the server had at the time of that change.
LEMMA ReconcilesKeeps == ASSUME IInv, NEW l \in Listers, Reconciles(l) PROVE IInv'
  <1> DEFINE e == lst[l].entries
             tag == lst[l].tag
             S == Applied(l, e)
  <1>1. /\ lst[l].at = "judged" /\ Finishes(l) /\ UNCHANGED <<server, activity, epoch>>
        /\ row' = [n \in Names |-> IF n \in S THEN e[n] ELSE row[n]]
        /\ ident' = (ident \ S) \cup {n \in S : e[n] # Nothing}
        /\ asof' = [n \in Names |-> IF n \in S THEN tag ELSE asof[n]]
        /\ own' = [n \in Names |-> IF n \in S /\ tag > own[n] THEN 0 ELSE own[n]]
    BY DEF Reconciles, At
  <1>2. /\ lst[l] \in Questions /\ e \in [Names -> Stamps] /\ tag \in Nat /\ tag > 0
        /\ There(tag, e) /\ (tag = clock => e = srv)
        /\ \A k \in Listers : Listed(k) /\ lst[k].tag = tag => lst[k].entries = e
    BY <1>1, QuestionIsTyped DEF Questions, IInv, OneServer, ThereThen, Listed
  <1>3. Prompt => \A n \in Names : Spares(l, n)
    BY <1>1 DEF IInv, Spared
  <1>4. \A n \in Names : own[n] \in Nat /\ asof[n] \in Nat
    BY DEF IInv, Typed
  <1>5. S \subseteq Names /\ (Prompt => \A n \in S : own[n] <= tag)
    BY <1>2, <1>3, <1>4 DEF Applied, Spares
  <1>6. Prompt => \A n \in S : row[n] # Nothing /\ own[n] = tag => e[n] # Nothing
    BY <1>2 DEF Applied, There
  <1> HIDE DEF S
  <1>7. /\ FlowsStand(l) /\ walked' \in Stamps /\ clock' = clock /\ srv' = srv
        /\ \A k \in Listers : lst'[k] = IF k = l THEN Idle ELSE lst[k]
        /\ lst' \in [Listers -> {Idle} \cup Questions]
    BY <1>1, FinishIsTyped DEF server, Goes, IInv, Typed
  <1>8. \A n \in Names : own'[n] = own[n] \/ own'[n] = 0
    BY <1>1
  <1>9. Typed' /\ Past' /\ (Prompt => CommitsStand') /\ Tracker' /\ BusyIsHeld'
    <2>1. Typed'
      BY <1>1, <1>2, <1>4, <1>7 DEF IInv, Typed, FlowsStand
    <2>2. Prompt => CommitsStand'
      BY <1>1, <1>2, <1>4, <1>5 DEF IInv, CommitsStand
    <2>3. Past'
      BY <1>4, <1>7, <1>8 DEF IInv, Past, Typed
    <2>4. Tracker' /\ BusyIsHeld'
      BY <1>1, <1>7 DEF IInv, Tracker, BusyIsHeld, FlowsStand, activity
    <2> QED
      BY <2>1, <2>2, <2>3, <2>4
  <1>10. \A k \in Listers : Listed(k)' => k # l /\ Listed(k) /\ lst'[k] = lst[k]
    BY <1>7 DEF Listed, Idle
  <1>11. OneServer'
    BY <1>7, <1>10 DEF IInv, OneServer
  <1>12. ASSUME Prompt, NEW t \in Nat, t > 0, NEW f, There(t, f), tag = t => f = e
         PROVE  /\ \A n \in ident' : own'[n] = t => f[n] # Nothing
                /\ \A o \in Objects : Puts(flow'[o]) /\ flow'[o].time = t => f[Target(flow'[o])] # Nothing
    <2>1. ASSUME NEW n \in ident', own'[n] = t PROVE f[n] # Nothing
      <3>1. n \in Names /\ own[n] = t
        BY <1>1, <1>5, <1>8, <1>12, <2>1 DEF IInv, ThereThen
      <3>2. CASE n \in S
        BY <1>1, <1>2, <1>4, <1>5, <1>12, <2>1, <3>1, <3>2
      <3>3. CASE n \notin S
        BY <1>1, <1>12, <3>1, <3>3 DEF There
      <3> QED
        BY <3>2, <3>3
    <2>2. \A o \in Objects : Puts(flow'[o]) /\ flow'[o].time = t => f[Target(flow'[o])] # Nothing
      BY <1>7, <1>12 DEF There, FlowsStand
    <2> QED
      BY <2>1, <2>2
  <1>13. ThereThen'
    <2>1. There(clock, srv)'
      BY <1>2, <1>7, <1>12 DEF IInv, Typed, ThereThen, There
    <2>2. ASSUME NEW k \in Listers, Listed(k)' PROVE There(lst[k].tag, lst[k].entries)'
      <3>1. /\ Listed(k) /\ lst'[k] = lst[k] /\ lst[k].tag \in Nat /\ lst[k].tag > 0
            /\ There(lst[k].tag, lst[k].entries) /\ (tag = lst[k].tag => lst[k].entries = e)
        BY <1>2, <1>10, <2>2 DEF IInv, Typed, ThereThen, OneServer, Questions, Idle, Listed
      <3> QED
        BY <1>12, <3>1 DEF There
    <2>3. ident' \subseteq Names
      BY <1>1, <1>5 DEF IInv, ThereThen
    <2> QED
      BY <2>1, <2>2, <2>3 DEF ThereThen
  <1>14. ASSUME NEW k \in Listers PROVE Asked(k)'
    BY <1>1, <1>7 DEF IInv, Asked, FlowsStand, Idle, activity
  <1>15. ASSUME NEW k \in Listers PROVE Spared(k)'
    <2>1. CASE k = l
      BY <1>7, <2>1 DEF Spared, Idle
    <2>2. CASE k # l /\ Prompt
      <3>1. lst'[k] = lst[k] /\ \A o : Quiet(k, o)' <=> Quiet(k, o)
        BY <1>1, <1>7, <2>2 DEF Quiet, Holder, QuietSince, activity
      <3>2. ASSUME NEW n \in Names, Spares(k, n), lst[k].at # "idle" PROVE Spares(k, n)'
        <4> SUFFICES ASSUME own'[n] > lst[k].tag PROVE row'[n] # Nothing /\ ~Quiet(k, n)
          BY <3>1 DEF Spares
        <4>1. lst[k].tag \in Nat
          BY <3>2, QuestionIsTyped DEF Questions
        <4>2. own'[n] = own[n] /\ row[n] # Nothing /\ ~Quiet(k, n)
          BY <1>8, <3>2, <4>1 DEF Spares
        <4>3. CASE n \in S
          <5>1. own[n] = tag
            BY <1>1, <1>2, <1>4, <1>5, <2>2, <4>1, <4>2, <4>3
          <5> QED
            BY <1>1, <1>6, <2>2, <4>2, <4>3, <5>1
        <4>4. CASE n \notin S
          BY <1>1, <4>2, <4>4
        <4> QED
          BY <4>2, <4>3, <4>4
      <3> QED
        BY <3>1, <3>2 DEF IInv, Spared
    <2> QED
      BY <2>1, <2>2 DEF Spared
  <1> QED
    BY <1>7, <1>9, <1>11, <1>13, <1>14, <1>15 DEF IInv, FlowsStand

-----------------------------------------------------------------------------
LEMMA NextKeeps == ASSUME IInv, [Next]_vars PROVE IInv'
  <1>1. CASE UNCHANGED vars
    <2>1. Tracker' /\ NoQuieter /\ seq <= seq' /\ BusyIsHeld'
      BY <1>1 DEF vars, activity, machine, IInv, Tracker, NoQuieter, QuietSince, BusyIsHeld
    <2>2. flow' = flow /\ clock' = clock /\ UNCHANGED <<server, rows, epoch, syncer>>
      BY <1>1 DEF vars, machine, server
    <2>3. \A o \in Objects : Held(o)' /\ Timed(o)'
      BY <2>2 DEF IInv, Held, Free, Timed
    <2> QED
      BY <2>1, <2>2, <2>3, FlowsKeep DEF IInv, Typed
  <1>2. CASE Next
    <2>1. ASSUME NEW n \in Names,
                 \/ BeginsToCreate(n) \/ BeginsToUpload(n) \/ BeginsToDelete(n)
                 \/ SomebodyChanges(n) \/ BeginsRelist(n)
                 \/ \E m \in Names : BeginsToRename(n, m)
          PROVE  IInv'
      BY <2>1, BeginningsKeep, SomebodyChangesKeeps, RelistKeeps
    <2>2. ASSUME NEW op \in Operations, AsksTheServer(op) \/ Commits(op) \/ Ends(op)
          PROVE  IInv'
      BY <2>2, AsksTheServerKeeps, CommitsKeeps, EndsKeeps
    <2>3. ASSUME NEW l \in Listers, Lister(l)
          PROVE  IInv'
      BY <2>3, ListsKeeps, JudgesKeeps, ReconcilesKeeps, FailsKeeps DEF Lister
    <2> QED
      BY <1>2, <2>1, <2>2, <2>3, RefreshKeeps, LsKeeps, ProbesKeeps, WalksTheRootKeeps DEF Next, FlowStep
  <1> QED
    BY <1>1, <1>2

\* In every reachable state the tracker, the flows and the listings hold together.
\* (provider.rs reload_dir, walk_dir; activity.rs set_busy.)
THEOREM Invariance == Spec => []IInv
  <1>1. IInv /\ [Next]_vars => IInv'
    BY NextKeeps
  <1> QED
    BY <1>1, InitIInv, PTL DEF Spec

\* The tracker calls nothing quiet that was busy at any time since, for every size
\* of its history. (activity.rs quiet_since.)
THEOREM QuietIsQuiet == Spec => []QuietMeansQuiet
  <1>1. IInv => QuietMeansQuiet
    BY QuestionIsTyped, TrackerAnswers DEF IInv, QuietMeansQuiet, Questions
  <1> QED
    BY <1>1, Invariance, PTL

\* No listing undoes what the machine has committed. (provider.rs
\* reconcile_if_quiet; state.rs reconcile_children_except.)
THEOREM ListingsUndoNothing == ASSUME Prompt PROVE Spec => []CommitsStand
  <1>1. IInv => CommitsStand
    BY DEF IInv
  <1> QED
    BY <1>1, Invariance, PTL

-----------------------------------------------------------------------------
(* What a listing settles.                                                 *)

\* Only by being applied does a listing that was judged come to its end.
LEMMA OnlyReconcilingEnds ==
  ASSUME IInv, Next, NEW l \in Listers, lst[l].at = "judged", lst'[l] = Idle
  PROVE  Reconciles(l)
  <1>1. lst \in [Listers -> {Idle} \cup Questions] /\ lst[l] # Idle
    BY DEF IInv, Typed, Idle
  <1>2. lst' # lst
    BY <1>1
  <1>3. \A k \in Listers : \A r : k # l /\ Goes(k, r) => lst'[l] # Idle
    BY <1>1 DEF Goes
  <1>4. ~(\E n, m \in Names : \/ BeginsToCreate(n) \/ BeginsToUpload(n) \/ BeginsToDelete(n)
                              \/ SomebodyChanges(n) \/ BeginsToRename(n, m))
    BY <1>2 DEF BeginsToCreate, BeginsToUpload, BeginsToDelete, BeginsToRename, SomebodyChanges, Begins, syncer
  <1>5. ~FlowStep
    BY <1>2 DEF FlowStep, AsksTheServer, Commits, Ends, syncer
  <1>6. ~(\E n \in Names : BeginsRelist(n)) /\ ~BeginsRefresh /\ ~BeginsLs /\ ~Probes
    BY <1>3 DEF BeginsRelist, BeginsRefresh, BeginsLs, Probes, MayBegin, At
  <1>7. ~WalksTheRoot
    BY <1>3 DEF WalksTheRoot, At, Finishes
  <1>8. ASSUME NEW k \in Listers, Lister(k) PROVE Reconciles(l)
    BY <1>3, <1>8 DEF Lister, Lists, Judges, Fails, Reconciles, At, Finishes
  <1> QED
    BY <1>4, <1>5, <1>6, <1>7, <1>8 DEF Next

LEMMA ReconcilingSettles ==
  ASSUME IInv, NEW l \in Listers, Reconciles(l), Settles(l), NEW n \in Names
  PROVE  InStep(n)' \/ (row'[n] # Nothing /\ n \notin ident')
  <1> DEFINE e == lst[l].entries
             S == Applied(l, e)
  <1>1. /\ srv' = srv /\ row' = [m \in Names |-> IF m \in S THEN e[m] ELSE row[m]]
        /\ ident' = (ident \ S) \cup {m \in S : e[m] # Nothing}
    BY DEF Reconciles, server
  <1>2. e = srv /\ Quiet(l, n)
    BY DEF Settles, At, IInv, OneServer, Listed
  <1>3. n \in S <=> IF row[n] = Nothing THEN e[n] # Nothing ELSE e[n] # Nothing \/ n \in ident
    BY <1>2 DEF Applied
  <1> HIDE DEF S
  <1> QED
    BY <1>1, <1>2, <1>3 DEF InStep

\* A listing that nothing has overtaken leaves the rows in agreement with the
\* server, but for files that it takes for new. (state.rs reconcile_children_except.)
THEOREM ListingsSettleTheRows == Spec => ListingsSettle
  <1> DEFINE Settled == \A l \in Listers : Settles(l) =>
                          \A n \in Names : InStep(n)' \/ (row'[n] # Nothing /\ n \notin ident')
  <1>1. IInv /\ [Next]_vars => [Settled]_vars
    <2> SUFFICES ASSUME IInv, [Next]_vars, vars' # vars, NEW l \in Listers, Settles(l), NEW n \in Names
                 PROVE  InStep(n)' \/ (row'[n] # Nothing /\ n \notin ident')
      OBVIOUS
    <2>1. Reconciles(l)
      BY OnlyReconcilingEnds DEF Settles, At
    <2> QED
      BY <2>1, ReconcilingSettles
  <1>2. Spec => [][Settled]_vars
    BY <1>1, Invariance, PTL DEF Spec
  <1> QED
    BY <1>2 DEF ListingsSettle
==============================================================================
