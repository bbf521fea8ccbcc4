-------------------------------- MODULE Pins --------------------------------
(***************************************************************************)
(* The pins of an account (pins.rs): one JSON file that the daemon, the    *)
(* command line and the file manager's extension all read and change, with *)
(* a directory as the lock between them and a cache in each process.       *)
(*                                                                         *)
(* A map of pins is a function from some paths to whether a directory is   *)
(* meant; a path is a sequence of names. The file's stamp (modification    *)
(* time and length) is a number that grows with every replacement.         *)
(*                                                                         *)
(* Not here: unreadable files and failing disks (an operation may fail at  *)
(* the lock), a file of a newer version, threads waiting for the RwLock.   *)
(***************************************************************************)
EXTENDS Integers, Sequences

CONSTANTS
    Threads,
    Process,      \* [Threads -> processes]
    Operations,   \* the changes threads may ask for
    Paths,        \* the paths there are
    Imports,      \* the pins in the old state database
    Nobody,
    Corpse,       \* a lock whose holder has died ...
    OldCorpse,    \* ... more than STALE_AFTER ago
    NoFile,       \* there is no pins file
    Changes,      \* bound: replacements of the file
    Deaths,       \* bound: processes that die
    Perils

\* "two at a corpse" -- two threads find the same dead lock
\* "slow holder"     -- a holder takes longer than STALE_AFTER
\* "same tick"       -- a replacement keeps the stamp
AllPerils == {"two at a corpse", "slow holder", "same tick"}

ASSUME PinsAssumption ==
    /\ Nobody \notin Threads /\ Corpse \notin Threads \cup {Nobody}
    /\ OldCorpse \notin Threads \cup {Nobody, Corpse}
    /\ Imports \in [DOMAIN Imports -> BOOLEAN] /\ NoFile \notin [DOMAIN Imports -> BOOLEAN]
    /\ \A o \in Operations : o.kind \in {"set", "remove", "remove_under", "rename", "migrate"}
    /\ {Changes, Deaths} \subseteq Nat /\ Perils \subseteq AllPerils

VARIABLES
    file,     \* the map in pins.json, or NoFile
    stamp,    \* its stamp
    lock,     \* who has made the lock directory, Nobody, or a corpse
    pc,       \* where each thread is
    op,       \* the change or question it is busy with
    map,      \* the map it has read
    taken,    \* the stamp it has taken
    cache,    \* [process -> Cache]
    since,    \* the maps the file has held since the thread began to ask
    deaths

pinsfile == <<file, stamp>>
vars == <<pinsfile, lock, pc, op, map, taken, cache, since, deaths>>

-----------------------------------------------------------------------------
(* The decisions, as plain functions.                                      *)

Root == <<>>
NoPins == [p \in {} |-> FALSE]

\* path is p or below it
Below(path, p) == Len(p) <= Len(path) /\ SubSeq(path, 1, Len(p)) = p

Covers(m, path) ==
    \/ path \in DOMAIN m
    \/ \E p \in DOMAIN m : m[p] /\ Below(path, p)

Under(m, path) == {p \in DOMAIN m : IF path = Root THEN p = Root ELSE Below(p, path)}

With(m, path, dir) == [p \in DOMAIN m \cup {path} |-> IF p = path THEN dir ELSE m[p]]
Without(m, paths)  == [p \in DOMAIN m \ paths |-> m[p]]

Onto(p, old, new) == new \o SubSeq(p, Len(old) + 1, Len(p))

\* A bug to catch: the directory moves and leaves the pins inside behind.
RenameInExactly(m, old, new) ==
    IF old \notin DOMAIN m \/ old \in {Root, new} THEN m
    ELSE With(Without(m, {old}), new, m[old])

RenameIn(m, old, new) ==
    IF old \in {Root, new} THEN m
    ELSE LET moved == Under(m, old)
             target(p) == \E q \in moved : p = Onto(q, old, new)
             origin(p) == CHOOSE q \in moved : p = Onto(q, old, new)
         IN  [p \in (DOMAIN m \ moved) \cup {Onto(q, old, new) : q \in moved} |->
                 IF target(p) THEN m[origin(p)] ELSE m[p]]

Changed(o, m) ==
    CASE o.kind = "set"          -> With(m, o.path, o.dir)
      [] o.kind = "remove"       -> Without(m, {o.path})
      [] o.kind = "remove_under" -> IF o.path = Root THEN NoPins ELSE Without(m, Under(m, o.path))
      [] o.kind = "rename"       -> RenameIn(m, o.path, o.to)

\* An absent file is an account with no pins (read_file), and the only one that
\* takes over the pins of the old database (migrate_from).
Content(m) == IF m = NoFile THEN NoPins ELSE m
Apply(o, m) == IF o.kind = "migrate" THEN (IF m = NoFile THEN Imports ELSE m)
               ELSE Changed(o, Content(m))

-----------------------------------------------------------------------------
Processes == {Process[t] : t \in Threads}
NoOp      == [kind |-> "none"]
Empty     == [loaded |-> FALSE, stamp |-> 0, map |-> NoPins]

Changing  == {"lock", "remove", "read", "write"}
Inside    == {"read", "write", "adopt", "unlock"}
Asking    == {"check", "refill"}

Init ==
    /\ file = NoFile /\ stamp = 0 /\ lock = Nobody
    /\ pc = [t \in Threads |-> "idle"] /\ op = [t \in Threads |-> NoOp]
    /\ map = [t \in Threads |-> NoFile] /\ taken = [t \in Threads |-> 0]
    /\ cache = [p \in Processes |-> Empty]
    /\ since = [t \in Threads |-> {}] /\ deaths = 0

Goes(t, where) == pc' = [pc EXCEPT ![t] = where]

-----------------------------------------------------------------------------
(* A change: lock, read, write, adopt, unlock (change, migrate_from).      *)

Asks(t, o) ==
    /\ pc[t] = "idle" /\ stamp < Changes
    /\ o.kind = "migrate" => file = NoFile
    /\ Goes(t, "lock") /\ op' = [op EXCEPT ![t] = o]
    /\ UNCHANGED <<pinsfile, lock, map, taken, cache, since, deaths>>

\* mkdir: it succeeds for one only.
Takes(t) ==
    /\ pc[t] = "lock" /\ lock = Nobody
    /\ lock' = t /\ Goes(t, "read")
    /\ UNCHANGED <<pinsfile, op, map, taken, cache, since, deaths>>

\* A bug to catch: any lock that is in the way is taken for a dead one.
JudgesAnyStale(t) ==
    /\ pc[t] = "lock" /\ lock # Nobody
    /\ Goes(t, "remove")
    /\ UNCHANGED <<pinsfile, lock, op, map, taken, cache, since, deaths>>

\* The lock is older than STALE_AFTER. That its holder is dead is a guess.
Judges(t) ==
    /\ pc[t] = "lock"
    /\ lock = OldCorpse \/ ("slow holder" \in Perils /\ lock # Nobody)
    /\ "two at a corpse" \in Perils \/ \A u \in Threads : pc[u] # "remove"
    /\ Goes(t, "remove")
    /\ UNCHANGED <<pinsfile, lock, op, map, taken, cache, since, deaths>>

\* A bug to catch: only a lock of one's own is removed.
RemovesItsOwn(t) ==
    /\ pc[t] = "remove"
    /\ lock' = (IF lock = t THEN Nobody ELSE lock) /\ Goes(t, "lock")
    /\ UNCHANGED <<pinsfile, op, map, taken, cache, since, deaths>>

\* What is removed is whatever has the name by then.
Removes(t) ==
    /\ pc[t] = "remove"
    /\ lock' = Nobody /\ Goes(t, "lock")
    /\ UNCHANGED <<pinsfile, op, map, taken, cache, since, deaths>>

\* Fifty tries, and the change is refused.
GivesUp(t) ==
    /\ pc[t] = "lock" /\ lock \notin {Nobody, OldCorpse}
    /\ Goes(t, "idle") /\ op' = [op EXCEPT ![t] = NoOp]
    /\ UNCHANGED <<pinsfile, lock, map, taken, cache, since, deaths>>

\* A bug to catch: the change is made to the cached map, as the questions are.
ReadsTheCache(t) ==
    LET c == cache[Process[t]] IN
    /\ pc[t] = "read"
    /\ map' = [map EXCEPT ![t] = IF c.loaded THEN c.map ELSE file]
    /\ Goes(t, "write")
    /\ UNCHANGED <<pinsfile, lock, op, taken, cache, since, deaths>>

\* From disk, not from the cache. A migration looks once more whether there is
\* a file by now.
Reads(t) ==
    /\ pc[t] = "read"
    /\ map' = [map EXCEPT ![t] = file]
    /\ Goes(t, IF op[t].kind = "migrate" /\ file # NoFile THEN "unlock" ELSE "write")
    /\ UNCHANGED <<pinsfile, lock, op, taken, cache, since, deaths>>

\* The rename is the commit.
Writes(t) ==
    /\ pc[t] = "write"
    /\ file' = Apply(op[t], map[t])
    /\ stamp' \in {stamp + 1} \cup (IF "same tick" \in Perils /\ stamp > 0 THEN {stamp} ELSE {})
    /\ map' = [map EXCEPT ![t] = file']
    /\ since' = [u \in Threads |-> IF pc[u] \in Asking THEN since[u] \cup {file'} ELSE since[u]]
    /\ Goes(t, "adopt")
    /\ UNCHANGED <<lock, op, taken, cache, deaths>>

Adopts(t) ==
    /\ pc[t] = "adopt"
    /\ cache' = [cache EXCEPT ![Process[t]] = [loaded |-> TRUE, stamp |-> stamp, map |-> map[t]]]
    /\ Goes(t, "unlock")
    /\ UNCHANGED <<pinsfile, lock, op, map, taken, since, deaths>>

\* Dropping the lock removes the directory, whoever has made it.
Unlocks(t) ==
    /\ pc[t] = "unlock"
    /\ lock' = Nobody /\ Goes(t, "idle")
    /\ op' = [op EXCEPT ![t] = NoOp] /\ map' = [map EXCEPT ![t] = NoFile]
    /\ UNCHANGED <<pinsfile, taken, cache, since, deaths>>

-----------------------------------------------------------------------------
(* A question, about any path (with): the stamp first, then the cache, then the file.      *)

Wonders(t) ==
    /\ pc[t] = "idle"
    /\ op' = [op EXCEPT ![t] = [kind |-> "ask"]]
    /\ taken' = [taken EXCEPT ![t] = stamp]
    /\ since' = [since EXCEPT ![t] = {file}]
    /\ Goes(t, "check")
    /\ UNCHANGED <<pinsfile, lock, map, cache, deaths>>

\* A bug to catch: what has been read once is never read again.
CurrentOnceRead(c, s) == c.loaded

Current(c, s) == c.loaded /\ c.stamp = s

Checks(t) ==
    LET c == cache[Process[t]] IN
    /\ pc[t] = "check"
    /\ IF Current(c, taken[t])
       THEN map' = [map EXCEPT ![t] = c.map] /\ Goes(t, "answer")
       ELSE UNCHANGED map /\ Goes(t, "refill")
    /\ UNCHANGED <<pinsfile, lock, op, taken, cache, since, deaths>>

\* Looked at again under the write lock; then read, with the stamp of before.
Refills(t) ==
    LET c == cache[Process[t]]
        read == [loaded |-> TRUE, stamp |-> taken[t], map |-> Content(file)]
        now == IF Current(c, taken[t]) THEN c ELSE read
    IN
    /\ pc[t] = "refill"
    /\ cache' = [cache EXCEPT ![Process[t]] = now]
    /\ map' = [map EXCEPT ![t] = now.map]
    /\ Goes(t, "answer")
    /\ UNCHANGED <<pinsfile, lock, op, taken, since, deaths>>

Answers(t) ==
    /\ pc[t] = "answer"
    /\ Goes(t, "idle")
    /\ op' = [op EXCEPT ![t] = NoOp] /\ map' = [map EXCEPT ![t] = NoFile]
    /\ taken' = [taken EXCEPT ![t] = 0] /\ since' = [since EXCEPT ![t] = {}]
    /\ UNCHANGED <<pinsfile, lock, cache, deaths>>

-----------------------------------------------------------------------------
\* A bug to catch: its lock is thought to go with a process.
DiesAndUnlocks(p) ==
    LET dead == {t \in Threads : Process[t] = p} IN
    /\ deaths < Deaths /\ deaths' = deaths + 1
    /\ pc' = [t \in Threads |-> IF t \in dead THEN "idle" ELSE pc[t]]
    /\ lock' = IF \E t \in dead : pc[t] \in Inside \cup {"lock"} THEN Nobody ELSE lock
    /\ UNCHANGED <<pinsfile, op, map, taken, cache, since>>

Dies(p) ==
    LET dead == {t \in Threads : Process[t] = p} IN
    /\ deaths < Deaths /\ deaths' = deaths + 1
    /\ pc' = [t \in Threads |-> IF t \in dead THEN "idle" ELSE pc[t]]
    /\ op' = [t \in Threads |-> IF t \in dead THEN NoOp ELSE op[t]]
    /\ map' = [t \in Threads |-> IF t \in dead THEN NoFile ELSE map[t]]
    /\ taken' = [t \in Threads |-> IF t \in dead THEN 0 ELSE taken[t]]
    /\ since' = [t \in Threads |-> IF t \in dead THEN {} ELSE since[t]]
    /\ lock' = IF lock \in dead THEN Corpse ELSE lock
    /\ cache' = [cache EXCEPT ![p] = Empty]
    /\ UNCHANGED pinsfile

Ages ==
    /\ lock = Corpse /\ lock' = OldCorpse
    /\ UNCHANGED <<pinsfile, pc, op, map, taken, cache, since, deaths>>

Steps(t) ==
    \/ Takes(t) \/ Judges(t) \/ Removes(t) \/ GivesUp(t)
    \/ Reads(t) \/ Writes(t) \/ Adopts(t) \/ Unlocks(t)
    \/ Checks(t) \/ Refills(t) \/ Answers(t)

Next ==
    \/ \E t \in Threads : Steps(t) \/ Wonders(t)
    \/ \E t \in Threads, o \in Operations : Asks(t, o)
    \/ (\E p \in Processes : Dies(p)) \/ Ages

Spec == Init /\ [][Next]_vars

\* A thread that has begun goes on, and time passes.
FairSpec == Spec /\ WF_vars(Ages) /\ \A t \in Threads : WF_vars(Steps(t))

-----------------------------------------------------------------------------
(* Properties.                                                             *)

\* The variables hold what the code can hold: a file that is there has a time of
\* change, and an idle thread no request. (pins.rs Pins, Lock.)
TypeOK ==
    /\ file = NoFile <=> stamp = 0
    /\ lock \in Threads \cup {Nobody, Corpse, OldCorpse}
    /\ pc \in [Threads -> {"idle", "remove", "answer"} \cup Changing \cup Inside \cup Asking]
    /\ \A t \in Threads : pc[t] = "idle" <=> op[t] = NoOp

\* One thread at most is between lock and unlock, and the lock is its own.
\* (pins.rs Lock.)
OneHolder == \A t \in Threads : pc[t] \in Inside => lock = t

\* What a thread is about to change is still what the file holds: no change is
\* lost. (pins.rs change: "so a concurrent process cannot lose one of the two".)
NoChangeIsLost == \A t \in Threads : pc[t] = "write" => map[t] = file

\* The answer to a question is right for some moment between asking and
\* answering, whatever other threads did to the shared cache. (pins.rs with.)
AnswersAreCurrent == \A t \in Threads :
    pc[t] = "answer" => \E m \in since[t] : Content(m) = map[t]

\* A renamed directory keeps its promises: what was kept by a pin at or below
\* the old path is kept under the new one. (pins.rs rename_in.)
RenamesCarryThePins == \A t \in Threads :
    pc[t] = "write" /\ op[t].kind = "rename" =>
        LET before == Content(map[t])  after == Apply(op[t], map[t])
            inside == [p \in Under(before, op[t].path) |-> before[p]]
        IN  op[t].path # Root => \A q \in Paths :
                Below(q, op[t].path) /\ Covers(inside, q)
                    => Covers(after, Onto(q, op[t].path, op[t].to))

\* Changes of the pins are atomic: the file refines the abstract pins.
Asked == [t \in Threads |-> IF pc[t] \in Changing THEN op[t] ELSE NoOp]
Abstract == INSTANCE AtomicPins WITH pins <- file, asked <- Asked, None <- NoOp, Start <- NoFile
ChangesAreAtomic == Abstract!Spec

\* A lock left by the dead does not stay for as long as somebody wants it.
\* (pins.rs Lock::take_after.)
Wanted == \E t \in Threads : pc[t] \in {"lock", "remove"}
CorpsesGo == (lock = OldCorpse /\ Wanted) ~> (lock # OldCorpse \/ ~Wanted)
=============================================================================
