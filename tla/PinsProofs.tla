----------------------------- MODULE PinsProofs -----------------------------
(***************************************************************************)
(* That the lock of the pins file excludes, that no change is lost, and    *)
(* that the file implements atomic pins -- as long as no dead lock is      *)
(* judged by two threads at once and no living one is judged dead. Without *)
(* that premise all three are false: an instance with one of the two       *)
(* perils shows it.                                                        *)
(***************************************************************************)
EXTENDS Pins, TLAPS

\* What the staleness limit is trusted with.
Careful == "two at a corpse" \notin Perils /\ "slow holder" \notin Perils

Typed ==
    /\ pc \in [Threads -> {"idle", "answer"} \cup Changing \cup Inside \cup Asking]
    /\ DOMAIN op = Threads /\ DOMAIN map = Threads
    /\ \A t \in Threads : pc[t] \in Changing => op[t] \in Operations

\* Who removes a lock removes a corpse, and is alone in it.
RemovesACorpse ==
    /\ \A t \in Threads : pc[t] = "remove" => lock = OldCorpse
    /\ \A t, u \in Threads : pc[t] = "remove" /\ pc[u] = "remove" => t = u

IInv == Typed /\ OneHolder /\ RemovesACorpse /\ NoChangeIsLost

USE DEF Changing, Inside, Asking, Goes, pinsfile

LEMMA InitIInv == Init => IInv
  BY PinsAssumption DEF Init, IInv, Typed, OneHolder, RemovesACorpse, NoChangeIsLost

LEMMA TakesKeeps == ASSUME Careful, IInv, NEW t \in Threads, Takes(t) PROVE IInv'
  BY PinsAssumption DEF Takes, Careful, IInv, Typed, OneHolder, RemovesACorpse, NoChangeIsLost

LEMMA JudgesKeeps == ASSUME Careful, IInv, NEW t \in Threads, Judges(t) PROVE IInv'
  BY PinsAssumption DEF Judges, Careful, IInv, Typed, OneHolder, RemovesACorpse, NoChangeIsLost

LEMMA RemovesKeeps == ASSUME Careful, IInv, NEW t \in Threads, Removes(t) PROVE IInv'
  BY PinsAssumption DEF Removes, Careful, IInv, Typed, OneHolder, RemovesACorpse, NoChangeIsLost

LEMMA GivesUpKeeps == ASSUME Careful, IInv, NEW t \in Threads, GivesUp(t) PROVE IInv'
  BY PinsAssumption DEF GivesUp, Careful, IInv, Typed, OneHolder, RemovesACorpse, NoChangeIsLost

LEMMA ReadsKeeps == ASSUME Careful, IInv, NEW t \in Threads, Reads(t) PROVE IInv'
  BY PinsAssumption DEF Reads, Careful, IInv, Typed, OneHolder, RemovesACorpse, NoChangeIsLost

\* Nobody else is about to write: the lock is t's.
LEMMA WritesKeeps == ASSUME Careful, IInv, NEW t \in Threads, Writes(t) PROVE IInv'
  <1>1. lock = t /\ \A u \in Threads : pc[u] \in Inside => u = t
    BY DEF Writes, IInv, OneHolder
  <1>2. Typed' /\ OneHolder' /\ RemovesACorpse'
    BY <1>1, PinsAssumption DEF Writes, IInv, Typed, OneHolder, RemovesACorpse
  <1>3. NoChangeIsLost'
    BY <1>1, PinsAssumption DEF Writes, IInv, Typed, NoChangeIsLost
  <1> QED
    BY <1>2, <1>3 DEF IInv

LEMMA AdoptsKeeps == ASSUME Careful, IInv, NEW t \in Threads, Adopts(t) PROVE IInv'
  BY PinsAssumption DEF Adopts, Careful, IInv, Typed, OneHolder, RemovesACorpse, NoChangeIsLost

LEMMA UnlocksKeeps == ASSUME Careful, IInv, NEW t \in Threads, Unlocks(t) PROVE IInv'
  BY PinsAssumption DEF Unlocks, Careful, IInv, Typed, OneHolder, RemovesACorpse, NoChangeIsLost

LEMMA ChecksKeeps == ASSUME Careful, IInv, NEW t \in Threads, Checks(t) PROVE IInv'
  <1>1. Typed'
    BY PinsAssumption DEF Checks, IInv, Typed
  <1>2. OneHolder' /\ RemovesACorpse'
    BY DEF Checks, IInv, Typed, OneHolder, RemovesACorpse
  <1>3. NoChangeIsLost'
    BY DEF Checks, IInv, Typed, NoChangeIsLost
  <1> QED
    BY <1>1, <1>2, <1>3 DEF IInv

LEMMA RefillsKeeps == ASSUME Careful, IInv, NEW t \in Threads, Refills(t) PROVE IInv'
  BY PinsAssumption DEF Refills, Careful, IInv, Typed, OneHolder, RemovesACorpse, NoChangeIsLost

LEMMA AnswersKeeps == ASSUME Careful, IInv, NEW t \in Threads, Answers(t) PROVE IInv'
  BY PinsAssumption DEF Answers, Careful, IInv, Typed, OneHolder, RemovesACorpse, NoChangeIsLost

LEMMA AsksKeeps ==
  ASSUME Careful, IInv, NEW t \in Threads, NEW o \in Operations, Asks(t, o) PROVE IInv'
  BY PinsAssumption DEF Asks, Careful, IInv, Typed, OneHolder, RemovesACorpse, NoChangeIsLost

LEMMA WondersKeeps == ASSUME Careful, IInv, NEW t \in Threads, Wonders(t) PROVE IInv'
  BY PinsAssumption DEF Wonders, Careful, IInv, Typed, OneHolder, RemovesACorpse, NoChangeIsLost

LEMMA DiesKeeps == ASSUME Careful, IInv, NEW p \in Processes, Dies(p) PROVE IInv'
  BY PinsAssumption DEF Dies, Careful, IInv, Typed, OneHolder, RemovesACorpse, NoChangeIsLost

LEMMA AgesKeeps == ASSUME Careful, IInv, Ages PROVE IInv'
  BY PinsAssumption DEF Ages, Careful, IInv, Typed, OneHolder, RemovesACorpse, NoChangeIsLost

LEMMA NextKeeps == ASSUME Careful, IInv, [Next]_vars PROVE IInv'
  <1>1. CASE UNCHANGED vars
    BY <1>1 DEF vars, IInv, Typed, OneHolder, RemovesACorpse, NoChangeIsLost
  <1>2. CASE \E t \in Threads : Steps(t) \/ Wonders(t)
    BY <1>2, TakesKeeps, JudgesKeeps, RemovesKeeps, GivesUpKeeps, ReadsKeeps, WritesKeeps,
       AdoptsKeeps, UnlocksKeeps, ChecksKeeps, RefillsKeeps, AnswersKeeps, WondersKeeps
       DEF Steps
  <1>3. CASE \E t \in Threads, o \in Operations : Asks(t, o)
    BY <1>3, AsksKeeps
  <1>4. CASE \E p \in Processes : Dies(p)
    BY <1>4, DiesKeeps
  <1>5. CASE Ages
    BY <1>5, AgesKeeps
  <1> QED
    BY <1>1, <1>2, <1>3, <1>4, <1>5 DEF Next

\* In every reachable state the lock has one holder at most, the corpse that is
\* being removed is dead, and the holder knows what the file holds. (pins.rs change.)
THEOREM Invariance == ASSUME Careful PROVE Spec => []IInv
  <1>1. IInv /\ [Next]_vars => IInv'
    BY NextKeeps
  <1> QED
    BY <1>1, InitIInv, PTL DEF Spec

\* The lock directory admits one thread at a time. (pins.rs Lock::take_after.)
THEOREM TheLockExcludes == ASSUME Careful PROVE Spec => []OneHolder
  <1>1. IInv => OneHolder
    BY DEF IInv
  <1> QED
    BY <1>1, Invariance, PTL

\* What is written is a change of what the file holds. (pins.rs change.)
THEOREM ChangesBuildOnEachOther == ASSUME Careful PROVE Spec => []NoChangeIsLost
  <1>1. IInv => NoChangeIsLost
    BY DEF IInv
  <1> QED
    BY <1>1, Invariance, PTL

-----------------------------------------------------------------------------
(* The refinement: each step of the file is a step of the atomic pins.     *)

LEMMA NotNoOp == \A o \in Operations : o # NoOp
  BY PinsAssumption DEF NoOp

LEMMA AskIsAsk ==
  ASSUME IInv, NEW t \in Threads, NEW o \in Operations, Asks(t, o) PROVE Abstract!Ask(t, o)
  BY DEF Asks, IInv, Typed, Asked, Abstract!Ask

\* The rename of the file is the moment the change happens.
LEMMA WriteIsChange ==
  ASSUME IInv, NEW t \in Threads, Writes(t) PROVE Abstract!Change(t)
  <1>1. Asked[t] = op[t] /\ op[t] # NoOp /\ map[t] = file
    BY NotNoOp DEF Writes, IInv, Typed, NoChangeIsLost, Asked
  <1>2. file' = Apply(Asked[t], file)
    BY <1>1 DEF Writes
  <1>3. Asked' = [Asked EXCEPT ![t] = NoOp]
    BY DEF Writes, IInv, Typed, Asked
  <1> QED
    BY <1>1, <1>2, <1>3 DEF Abstract!Change

\* A change refused, and a migration that finds a file.
LEMMA RefusalIsDrop ==
  ASSUME IInv, NEW t \in Threads, GivesUp(t) \/ (Reads(t) /\ pc'[t] = "unlock")
  PROVE  Abstract!Drop({t})
  BY DEF GivesUp, Reads, IInv, Typed, Asked, Abstract!Drop

LEMMA DeathIsDrop ==
  ASSUME IInv, NEW p \in Processes, Dies(p)
  PROVE  \E S \in SUBSET Threads : Abstract!Drop(S)
  <1> DEFINE dead == {t \in Threads : Process[t] = p}
  <1>1. Abstract!Drop(dead)
    BY DEF Dies, IInv, Typed, Asked, Abstract!Drop
  <1> QED
    BY <1>1

\* Everything else happens behind the abstraction.
LEMMA TheRestStutters ==
  ASSUME IInv, NEW t \in Threads,
         \/ Takes(t) \/ Judges(t) \/ Removes(t) \/ Adopts(t) \/ Unlocks(t)
         \/ Checks(t) \/ Refills(t) \/ Answers(t) \/ Wonders(t)
         \/ (Reads(t) /\ pc'[t] = "write")
  PROVE  UNCHANGED <<file, Asked>>
  <1>1. UNCHANGED file
    BY DEF Takes, Judges, Removes, Adopts, Unlocks, Checks, Refills, Answers, Wonders, Reads
  <1>2. \A u \in Threads : Asked'[u] = Asked[u]
    <2>1. CASE Takes(t) \/ Judges(t) \/ Removes(t) \/ Adopts(t)
      BY <2>1 DEF Takes, Judges, Removes, Adopts, IInv, Typed, Asked
    <2>2. CASE Unlocks(t) \/ Checks(t) \/ Refills(t) \/ Answers(t) \/ Wonders(t)
      BY <2>2 DEF Unlocks, Checks, Refills, Answers, Wonders, IInv, Typed, Asked
    <2>3. CASE Reads(t) /\ pc'[t] = "write"
      BY <2>3 DEF Reads, IInv, Typed, Asked
    <2> QED
      BY <2>1, <2>2, <2>3
  <1>3. UNCHANGED Asked
    BY <1>2 DEF Asked
  <1> QED
    BY <1>1, <1>3

LEMMA StepIsStep ==
  ASSUME IInv, [Next]_vars PROVE [Abstract!Next]_<<file, Asked>>
  <1>1. CASE UNCHANGED vars
    BY <1>1 DEF vars, Asked
  <1>2. CASE Ages
    BY <1>2 DEF Ages, Asked
  <1>3. ASSUME NEW t \in Threads, Steps(t) \/ Wonders(t)
        PROVE  [Abstract!Next]_<<file, Asked>>
    <2>1. CASE Writes(t)
      BY <2>1, WriteIsChange DEF Abstract!Next
    <2>2. CASE GivesUp(t) \/ (Reads(t) /\ pc'[t] = "unlock")
      BY <2>2, RefusalIsDrop DEF Abstract!Next
    <2>3. Reads(t) => pc'[t] \in {"unlock", "write"}
      BY DEF Reads, IInv, Typed
    <2>4. CASE ~Writes(t) /\ ~GivesUp(t) /\ ~(Reads(t) /\ pc'[t] = "unlock")
      BY <1>3, <2>3, <2>4, TheRestStutters DEF Steps
    <2> QED
      BY <2>1, <2>2, <2>4
  <1>4. ASSUME NEW t \in Threads, NEW o \in Operations, Asks(t, o)
        PROVE  [Abstract!Next]_<<file, Asked>>
    BY <1>4, AskIsAsk DEF Abstract!Next
  <1>5. ASSUME NEW p \in Processes, Dies(p)
        PROVE  [Abstract!Next]_<<file, Asked>>
    BY <1>5, DeathIsDrop DEF Abstract!Next
  <1> QED
    BY <1>1, <1>2, <1>3, <1>4, <1>5 DEF Next

\* Whatever processes come, go and die, the pins behave as if each change
\* happened at once. (pins.rs: "Read, change, write -- under the lock".)
THEOREM PinsAreAtomic == ASSUME Careful PROVE Spec => ChangesAreAtomic
  <1>1. Init => Abstract!Init
    BY DEF Init, Abstract!Init, Asked
  <1>2. IInv /\ [Next]_vars => [Abstract!Next]_<<file, Asked>>
    BY StepIsStep
  <1> QED
    BY <1>1, <1>2, Invariance, PTL DEF Spec, ChangesAreAtomic, Abstract!Spec

-----------------------------------------------------------------------------
(* Questions: what the cache of a process may answer. The stamp is trusted *)
(* to change with the file, and NoFile to be no map.                       *)

IsMap(m) == m = [p \in DOMAIN m |-> m[p]]

Trusting == Careful /\ "same tick" \notin Perils /\ ~IsMap(NoFile)

AMap(m) == m = NoFile \/ IsMap(m)

Stamped ==
    /\ stamp \in Nat /\ AMap(file) /\ (stamp = 0 <=> file = NoFile)
    /\ DOMAIN taken = Threads /\ DOMAIN since = Threads /\ DOMAIN cache = Processes

\* What a thread has just written is what the file holds.
Written(t) == pc[t] = "adopt" => map[t] = file /\ IsMap(map[t])

\* A question that is still open has the present answer among the good ones.
Open(t) == pc[t] \in Asking => taken[t] \in 0..stamp /\ file \in since[t]

\* A cache of the present stamp is right; one of the stamp a question has taken
\* would answer it well. It may hold a map newer than its stamp, never an older.
Right(c) ==
    c.loaded => /\ c.stamp \in 0..stamp
                /\ c.stamp = stamp => c.map = Content(file)
                /\ \A t \in Threads : pc[t] \in Asking /\ c.stamp = taken[t]
                       => \E m \in since[t] : Content(m) = c.map

QInv == /\ IInv /\ Stamped /\ AnswersAreCurrent
        /\ \A t \in Threads : Written(t) /\ Open(t)
        /\ \A p \in Processes : Right(cache[p])

LEMMA ApplyMakesAMap ==
  ASSUME NEW o \in Operations, NEW m, AMap(m), ~IsMap(NoFile)
  PROVE  IsMap(Apply(o, m))
  <1>1. IsMap(Imports) /\ IsMap(Content(m)) /\ IsMap(NoPins)
    BY PinsAssumption DEF AMap, IsMap, Content, NoPins
  <1>2. \A f, S : IsMap(Without(f, S))
    BY DEF IsMap, Without
  <1>3. \A f, q, d : IsMap(With(f, q, d))
    BY DEF IsMap, With
  <1>4. ASSUME NEW f, NEW old, NEW new, IsMap(f)
        PROVE  IsMap(RenameIn(f, old, new))
    <2>1. CASE old \in {Root, new}
      BY <1>4, <2>1 DEF RenameIn
    <2>2. CASE old \notin {Root, new}
      <3> DEFINE moved == Under(f, old)
                 paths == (DOMAIN f \ moved) \cup {Onto(q, old, new) : q \in moved}
                 kept(q) == IF \E r \in moved : q = Onto(r, old, new)
                            THEN f[CHOOSE r \in moved : q = Onto(r, old, new)] ELSE f[q]
      <3>1. RenameIn(f, old, new) = [q \in paths |-> kept(q)]
        BY <2>2 DEF RenameIn
      <3> HIDE DEF paths, kept
      <3> QED
        BY <3>1 DEF IsMap
    <2> QED
      BY <2>1, <2>2
  <1>5. CASE o.kind = "migrate"
    BY <1>1, <1>5 DEF Apply, AMap
  <1>6. CASE o.kind # "migrate"
    <2>1. o.kind \in {"set", "remove", "remove_under", "rename"}
      BY <1>6, PinsAssumption
    <2>2. Apply(o, m) = Changed(o, Content(m))
      BY <1>6 DEF Apply
    <2> HIDE DEF IsMap
    <2>3. CASE o.kind = "set"
      BY <1>3, <2>2, <2>3 DEF Changed
    <2>4. CASE o.kind = "remove"
      BY <1>2, <2>2, <2>4 DEF Changed
    <2>5. CASE o.kind = "remove_under"
      BY <1>1, <1>2, <2>2, <2>5 DEF Changed
    <2>6. CASE o.kind = "rename"
      BY <1>1, <1>4, <2>2, <2>6 DEF Changed
    <2> QED
      BY <2>1, <2>3, <2>4, <2>5, <2>6
  <1> QED
    BY <1>5, <1>6

LEMMA InitQInv == ASSUME Trusting PROVE Init => QInv
  <1> SUFFICES ASSUME Init PROVE QInv
    OBVIOUS
  <1>1. Stamped
    BY DEF Init, Stamped, AMap
  <1>2. \A t \in Threads : Written(t) /\ Open(t)
    BY DEF Init, Written, Open
  <1>3. AnswersAreCurrent
    BY DEF Init, AnswersAreCurrent
  <1>4. \A p \in Processes : Right(cache[p])
    BY DEF Init, Right, Empty
  <1> QED
    BY <1>1, <1>2, <1>3, <1>4, InitIInv DEF QInv

\* A step that leaves the file, the open questions and the cache alone, and
\* neither adopts nor answers, disturbs none of this.
LEMMA AsideKeeps ==
  ASSUME Trusting, QInv, IInv', UNCHANGED <<pinsfile, cache, taken, since>>,
         \A t \in Threads : /\ pc'[t] \in Asking => pc[t] \in Asking
                            /\ pc'[t] \in {"adopt", "answer"} => pc'[t] = pc[t] /\ map'[t] = map[t]
  PROVE  QInv'
  <1>1. Stamped'
    BY DEF QInv, Stamped
  <1>2. \A t \in Threads : Written(t)' /\ Open(t)'
    BY DEF QInv, Written, Open
  <1>3. AnswersAreCurrent'
    BY DEF QInv, AnswersAreCurrent
  <1>4. \A p \in Processes : Right(cache[p])'
    BY DEF QInv, Right
  <1> QED
    BY <1>1, <1>2, <1>3, <1>4 DEF QInv

LEMMA AwayKeeps ==
  ASSUME Trusting, QInv, NEW t \in Threads,
         \/ Takes(t) \/ Judges(t) \/ Removes(t) \/ GivesUp(t) \/ Reads(t) \/ Unlocks(t)
         \/ \E o \in Operations : Asks(t, o)
  PROVE  QInv'
  <1>1. IInv'
    BY NextKeeps DEF Trusting, QInv, Next, Steps
  <1> HIDE DEF pinsfile
  <1>2. UNCHANGED <<pinsfile, cache, taken, since>>
    BY DEF Takes, Judges, Removes, GivesUp, Reads, Unlocks, Asks
  <1>3. \A u \in Threads : /\ pc'[u] \in Asking => pc[u] \in Asking
                           /\ pc'[u] \in {"adopt", "answer"} => pc'[u] = pc[u] /\ map'[u] = map[u]
    BY DEF Takes, Judges, Removes, GivesUp, Reads, Unlocks, Asks, QInv, IInv, Typed
  <1> QED
    BY <1>1, <1>2, <1>3, AsideKeeps

\* The stamp moves on, so that every cache is behind; every open question gets
\* one more good answer.
LEMMA WritesKeepsQ == ASSUME Trusting, QInv, NEW t \in Threads, Writes(t) PROVE QInv'
  <1>1. IInv'
    BY WritesKeeps DEF Trusting, QInv
  <1>2. stamp' = stamp + 1 /\ IsMap(file') /\ file' # NoFile
    BY ApplyMakesAMap DEF Writes, Trusting, QInv, Stamped, IInv, Typed, NoChangeIsLost
  <1>3. \A u \in Threads : u # t => pc[u] # "adopt"
    BY DEF Writes, QInv, IInv, OneHolder
  <1>4. Stamped'
    BY <1>2 DEF Writes, QInv, Stamped, AMap, IInv, Typed
  <1>5. \A u \in Threads : Written(u)' /\ Open(u)'
    BY <1>2, <1>3 DEF Writes, QInv, Stamped, Written, Open, IInv, Typed
  <1>6. AnswersAreCurrent'
    BY DEF Writes, QInv, Stamped, AnswersAreCurrent, IInv, Typed
  <1>7. \A p \in Processes : Right(cache[p])'
    BY <1>2 DEF Writes, QInv, Stamped, Right, IInv, Typed
  <1> QED
    BY <1>1, <1>4, <1>5, <1>6, <1>7 DEF QInv

LEMMA AdoptsKeepsQ == ASSUME Trusting, QInv, NEW t \in Threads, Adopts(t) PROVE QInv'
  <1>1. IInv'
    BY AdoptsKeeps DEF Trusting, QInv
  <1>2. Process[t] \in Processes /\ Content(file) = map[t]
    BY DEF Adopts, QInv, Written, Content, Trusting, Processes
  <1>3. Stamped' /\ AnswersAreCurrent' /\ \A u \in Threads : Written(u)' /\ Open(u)'
    BY DEF Adopts, QInv, Stamped, AnswersAreCurrent, Written, Open, IInv, Typed
  <1>4. ASSUME NEW p \in Processes PROVE Right(cache[p])'
    <2>1. CASE p = Process[t]
      <3>1. cache'[p] = [loaded |-> TRUE, stamp |-> stamp, map |-> map[t]]
        BY <2>1 DEF Adopts, QInv, Stamped
      <3>2. stamp' = stamp /\ file' = file /\ taken' = taken /\ since' = since /\ stamp \in 0..stamp
        BY DEF Adopts, QInv, Stamped
      <3>3. \A u \in Threads : pc'[u] \in Asking => file \in since[u]
        BY DEF Adopts, QInv, Open, IInv, Typed
      <3> QED
        BY <1>2, <3>1, <3>2, <3>3 DEF Right
    <2>2. CASE p # Process[t]
      <3>1. cache'[p] = cache[p]
        BY <2>2 DEF Adopts, QInv, Stamped
      <3> QED
        BY <3>1 DEF Adopts, QInv, Right, IInv, Typed
    <2> QED
      BY <2>1, <2>2
  <1> QED
    BY <1>1, <1>3, <1>4 DEF QInv

LEMMA WondersKeepsQ == ASSUME Trusting, QInv, NEW t \in Threads, Wonders(t) PROVE QInv'
  <1>1. IInv'
    BY WondersKeeps DEF Trusting, QInv
  <1>2. Stamped' /\ AnswersAreCurrent' /\ \A u \in Threads : Written(u)' /\ Open(u)'
    BY DEF Wonders, QInv, Stamped, AnswersAreCurrent, Written, Open, IInv, Typed
  <1>3. \A p \in Processes : Right(cache[p])'
    BY DEF Wonders, QInv, Stamped, Right, IInv, Typed
  <1> QED
    BY <1>1, <1>2, <1>3 DEF QInv

LEMMA ChecksKeepsQ == ASSUME Trusting, QInv, NEW t \in Threads, Checks(t) PROVE QInv'
  <1>1. IInv'
    BY ChecksKeeps DEF Trusting, QInv
  <1>2. Process[t] \in Processes /\ Right(cache[Process[t]])
    BY DEF QInv, Processes
  <1>3. Stamped' /\ \A u \in Threads : Written(u)' /\ Open(u)'
    BY DEF Checks, QInv, Stamped, Written, Open, IInv, Typed
  <1>4. AnswersAreCurrent'
    BY <1>2 DEF Checks, QInv, Stamped, Right, Current, AnswersAreCurrent, IInv, Typed
  <1>5. \A p \in Processes : Right(cache[p])'
    BY DEF Checks, QInv, Right, IInv, Typed
  <1> QED
    BY <1>1, <1>3, <1>4, <1>5 DEF QInv

LEMMA RefillsKeepsQ == ASSUME Trusting, QInv, NEW t \in Threads, Refills(t) PROVE QInv'
  <1> DEFINE c == cache[Process[t]]
             read == [loaded |-> TRUE, stamp |-> taken[t], map |-> Content(file)]
             now == IF Current(c, taken[t]) THEN c ELSE read
  <1>1. IInv'
    BY RefillsKeeps DEF Trusting, QInv
  <1>2. Process[t] \in Processes /\ Right(c) /\ pc[t] \in Asking /\ Open(t)
    BY DEF QInv, Processes, Refills
  <1>3. /\ UNCHANGED <<pinsfile, taken, since>> /\ pc' = [pc EXCEPT ![t] = "answer"]
        /\ map' = [map EXCEPT ![t] = now.map] /\ cache' = [cache EXCEPT ![Process[t]] = now]
    BY DEF Refills
  <1>4. \E m \in since[t] : Content(m) = now.map
    BY <1>2 DEF Right, Current, Open
  <1> HIDE DEF now
  <1>5. Stamped' /\ \A u \in Threads : Written(u)' /\ Open(u)'
    BY <1>3 DEF QInv, Stamped, Written, Open, IInv, Typed
  <1>6. AnswersAreCurrent'
    BY <1>3, <1>4 DEF QInv, AnswersAreCurrent, IInv, Typed
  <1>7. ASSUME NEW p \in Processes PROVE Right(cache[p])'
    <2>1. \A u \in Threads : pc'[u] \in Asking => pc[u] \in Asking /\ file \in since[u]
      BY <1>3 DEF QInv, Open, IInv, Typed
    <2>2. CASE p = Process[t] /\ Current(c, taken[t])
      <3>1. cache'[p] = c
        BY <1>2, <1>3, <2>2 DEF QInv, Stamped, now
      <3> QED
        BY <1>2, <1>3, <2>1, <3>1 DEF Right
    <2>3. CASE p = Process[t] /\ ~Current(c, taken[t])
      <3>1. cache'[p] = read
        BY <1>2, <1>3, <2>3 DEF QInv, Stamped, now
      <3> QED
        BY <1>2, <1>3, <2>1, <3>1 DEF Right, Open
    <2>4. CASE p # Process[t]
      <3>1. cache'[p] = cache[p]
        BY <1>3, <2>4 DEF QInv, Stamped
      <3> QED
        BY <1>3, <2>1, <3>1 DEF QInv, Right
    <2> QED
      BY <2>2, <2>3, <2>4
  <1> QED
    BY <1>1, <1>5, <1>6, <1>7 DEF QInv

LEMMA AnswersKeepsQ == ASSUME Trusting, QInv, NEW t \in Threads, Answers(t) PROVE QInv'
  <1>1. IInv'
    BY AnswersKeeps DEF Trusting, QInv
  <1>2. Stamped' /\ AnswersAreCurrent' /\ \A u \in Threads : Written(u)' /\ Open(u)'
    BY DEF Answers, QInv, Stamped, AnswersAreCurrent, Written, Open, IInv, Typed
  <1>3. \A p \in Processes : Right(cache[p])'
    BY DEF Answers, QInv, Stamped, Right, IInv, Typed
  <1> QED
    BY <1>1, <1>2, <1>3 DEF QInv

LEMMA DiesKeepsQ == ASSUME Trusting, QInv, NEW p \in Processes, Dies(p) PROVE QInv'
  <1>1. IInv'
    BY DiesKeeps DEF Trusting, QInv
  <1>2. Stamped' /\ AnswersAreCurrent' /\ \A u \in Threads : Written(u)' /\ Open(u)'
    BY DEF Dies, QInv, Stamped, AnswersAreCurrent, Written, Open
  <1>3. \A q \in Processes : Right(cache[q])'
    BY DEF Dies, QInv, Stamped, Right, Empty
  <1> QED
    BY <1>1, <1>2, <1>3 DEF QInv

LEMMA AgesKeepsQ == ASSUME Trusting, QInv, Ages PROVE QInv'
  <1>1. IInv'
    BY AgesKeeps DEF Trusting, QInv
  <1> QED
    BY <1>1, AsideKeeps DEF Ages

LEMMA NextKeepsQ == ASSUME Trusting, QInv, [Next]_vars PROVE QInv'
  <1>1. CASE UNCHANGED vars
    <2>1. IInv'
      BY NextKeeps DEF Trusting, QInv
    <2> QED
      BY <1>1, <2>1, AsideKeeps DEF vars
  <1>2. CASE \E t \in Threads : Steps(t) \/ Wonders(t)
    <2>1. PICK t \in Threads : Steps(t) \/ Wonders(t)
      BY <1>2
    <2>2. CASE Takes(t) \/ Judges(t) \/ Removes(t) \/ GivesUp(t) \/ Reads(t) \/ Unlocks(t)
      BY <2>2, AwayKeeps
    <2> QED
      BY <2>1, <2>2, WritesKeepsQ, AdoptsKeepsQ, WondersKeepsQ, ChecksKeepsQ, RefillsKeepsQ,
         AnswersKeepsQ DEF Steps
  <1>3. CASE \E t \in Threads, o \in Operations : Asks(t, o)
    <2>1. PICK t \in Threads : \E o \in Operations : Asks(t, o)
      BY <1>3
    <2> QED
      BY <2>1, AwayKeeps
  <1>4. CASE \E p \in Processes : Dies(p)
    BY <1>4, DiesKeepsQ
  <1>5. CASE Ages
    BY <1>5, AgesKeepsQ
  <1> QED
    BY <1>1, <1>2, <1>3, <1>4, <1>5 DEF Next

\* Whatever the threads of a process make of the cache they share, a question is
\* answered with what the file held between asking and answering. (pins.rs with,
\* cached_if_current.)
THEOREM QuestionsAreAnsweredTruly == ASSUME Trusting PROVE Spec => []AnswersAreCurrent
  <1>1. QInv /\ [Next]_vars => QInv'
    BY NextKeepsQ
  <1>2. QInv => AnswersAreCurrent
    BY DEF QInv
  <1> QED
    BY <1>1, <1>2, InitQInv, PTL DEF Spec
=============================================================================
