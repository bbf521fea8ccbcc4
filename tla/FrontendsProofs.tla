-------------------------- MODULE FrontendsProofs --------------------------
(***************************************************************************)
(* That a client of the socket misses only what the log has let go of, and *)
(* that a directory stream is one listing; and, each as long as the peril  *)
(* that breaks it stays away, that only the reads of dead readers are      *)
(* interrupted, and that no dead mount is left.                            *)
(***************************************************************************)
EXTENDS Frontends, SequenceTheorems, TLAPS

-----------------------------------------------------------------------------
(* The changes. The log is the tail of what has been told. What a client    *)
(* has neither heard nor lost is in it, and after the client's anchor.      *)

\* What a queue of changes holds: those after a certain one, without a gap.
Counts(q, from) == q \in Seq(Nat) /\ \A i \in 1..Len(q) : q[i] = from + i

LEMMA CountsOn ==
    ASSUME NEW q, NEW from \in Nat, Counts(q, from)
    PROVE  LET longer == Append(q, from + Len(q) + 1)
           IN  Counts(longer, from) /\ Len(longer) = Len(q) + 1
  BY AppendProperties DEF Counts

LEMMA CountsFromNext ==
    ASSUME NEW q, NEW from \in Nat, Counts(q, from), q # <<>>
    PROVE  /\ Counts(Tail(q), from + 1) /\ Len(Tail(q)) = Len(q) - 1
           /\ Len(q) \in Nat \ {0} /\ Head(q) = from + 1
  <1>1. Len(q) \in Nat \ {0} /\ Head(q) = q[1]
    BY DEF Counts
  <1>2. /\ Tail(q) \in Seq(Nat) /\ Len(Tail(q)) = Len(q) - 1
        /\ \A i \in 1..Len(Tail(q)) : Tail(q)[i] = q[i + 1]
    BY HeadTailProperties DEF Counts
  <1> DEFINE rest == Tail(q)
  <1> HIDE DEF rest
  <1>3. ASSUME NEW i \in 1..Len(rest) PROVE rest[i] = from + 1 + i
    <2>1. i + 1 \in 1..Len(q) /\ rest[i] = q[i + 1]
      BY <1>1, <1>2 DEF rest
    <2> QED
      BY <2>1 DEF Counts
  <1> QED
    BY <1>1, <1>2, <1>3 DEF Counts, rest

LEMMA CountsIs ==
    ASSUME NEW q, NEW from \in Nat, Counts(q, from)
    PROVE  q = [i \in 1..Len(q) |-> from + i]
  <1>1. q = [i \in 1..Len(q) |-> q[i]]
    BY LenProperties DEF Counts
  <1> QED
    BY <1>1 DEF Counts

Logged ==
    /\ told \in Nat /\ restarts \in Nat
    /\ log \in [base : Nat, entries : Seq(Nat)]
    /\ LogHead <= told /\ Counts(log.entries, told - Len(log.entries))

Behind(p)   == told - (LogHead - anchor[p].seq)
Accounted(p) == \A k \in 1..told :
    \/ k \in heard[p] \cup lost[p]
    \/ k > told - Len(log.entries) /\ k > Behind(p)
Anchor(p) ==
    /\ anchor[p].era <= restarts
    /\ anchor[p].era = restarts => anchor[p].seq <= LogHead
    /\ Accounted(p)
Anchored ==
    /\ anchor \in [Pullers -> [seq : Nat, era : Nat]] /\ heard \in [Pullers -> SUBSET Nat]
    /\ lost \in [Pullers -> SUBSET Nat]
    /\ \A p \in Pullers : Anchor(p)

Channel == [since : Nat, seen : Nat, queue : Seq(Nat)]
Watcher(c) ==
    sub[c] \in Channel /\ Counts(sub[c].queue, sub[c].seen) /\ sub[c].seen + Len(sub[c].queue) = told
Watched == sub = [c \in DOMAIN sub |-> sub[c]] /\ \A c \in DOMAIN sub : Watcher(c)

CInv == Logged /\ Anchored /\ Watched

LEMMA LogTypes ==
    ASSUME Logged
    PROVE  /\ log.base \in Nat /\ log.entries \in Seq(Nat) /\ Len(log.entries) \in Nat
           /\ told \in Nat /\ restarts \in Nat /\ told - Len(log.entries) \in Nat
           /\ LogHead \in Nat /\ LogHead = log.base + Len(log.entries) /\ LogHead <= told
  BY DEF Logged, LogHead

LEMMA InitCInv == Init => CInv
  BY FrontendsAssumption DEF Init, CInv, Logged, Counts, Anchored, Anchor, Accounted, Watched, LogHead, Nothing

LEMMA AnnouncesLog ==
    ASSUME Logged, Announces
    PROVE  /\ Logged' /\ LogHead' = LogHead + 1 /\ told' = told + 1 /\ restarts' = restarts
           /\ log.base <= log'.base
  <1> DEFINE entries == Append(log.entries, told + 1)
             rest == Tail(entries)
  <1>1. log' = Trimmed(entries) /\ told' = told + 1 /\ restarts' = restarts
    BY DEF Announces
  <1>2. Counts(entries, told - Len(log.entries)) /\ Len(entries) = Len(log.entries) + 1
    <2>1. told - Len(log.entries) + Len(log.entries) + 1 = told + 1
      BY LogTypes
    <2> QED
      BY <2>1, LogTypes, CountsOn DEF Logged
  <1> HIDE DEF entries, rest
  <1>3. Counts(rest, told - Len(log.entries) + 1) /\ Len(rest) = Len(log.entries)
    <2>1. entries # <<>>
      BY <1>2, LogTypes
    <2> QED
      BY <1>2, <2>1, LogTypes, CountsFromNext DEF rest
  <1>4. ASSUME NEW base \in Nat, NEW kept, log' = [base |-> base, entries |-> kept],
               base + Len(kept) = LogHead + 1, log.base <= base, Counts(kept, told + 1 - Len(kept))
        PROVE  Logged' /\ LogHead' = LogHead + 1 /\ log.base <= log'.base
    <2>1. log'.base = base /\ log'.entries = kept /\ kept \in Seq(Nat) /\ log' \in [base : Nat, entries : Seq(Nat)]
      BY <1>4 DEF Counts
    <2>2. LogHead' = LogHead + 1
      BY <1>4, <2>1 DEF LogHead
    <2> QED
      BY <1>1, <1>4, <2>1, <2>2, LogTypes DEF Logged
  <1>5. CASE Len(entries) > MaxLog
    <2>1. log' = [base |-> log.base + 1, entries |-> rest]
      BY <1>1, <1>5 DEF Trimmed, rest
    <2>2. told - Len(log.entries) + 1 = told + 1 - Len(rest) /\ log.base + 1 + Len(rest) = LogHead + 1
      <3>1. told - Len(log.entries) + 1 = told + 1 - Len(log.entries)
            /\ log.base + 1 + Len(log.entries) = LogHead + 1
        BY LogTypes, SMTT(30)
      <3> QED
        BY <1>3, <3>1
    <2>3. Counts(rest, told + 1 - Len(rest)) /\ log.base + 1 \in Nat /\ log.base <= log.base + 1
      <3> DEFINE a == told - Len(log.entries) + 1
                 b == told + 1 - Len(rest)
      <3>1. Counts(rest, a) /\ a = b
        BY <1>3, <2>2
      <3> HIDE DEF a, b
      <3>2. Counts(rest, b)
        BY <3>1
      <3> QED
        BY <3>2, LogTypes DEF b
    <2> QED
      BY <1>1, <1>4, <2>1, <2>2, <2>3
  <1>6. CASE ~(Len(entries) > MaxLog)
    <2>1. log' = [base |-> log.base, entries |-> entries]
      BY <1>1, <1>6 DEF Trimmed
    <2>2. told - Len(log.entries) = told + 1 - Len(entries) /\ log.base + Len(entries) = LogHead + 1
      BY <1>2, LogTypes
    <2>3. Counts(entries, told + 1 - Len(entries)) /\ log.base \in Nat /\ log.base <= log.base
      BY <1>2, <2>2, LogTypes
    <2> QED
      BY <1>1, <1>4, <2>1, <2>2, <2>3
  <1> QED
    BY <1>1, <1>5, <1>6

\* A change that was in the log is still there, or has been let go of; the new one
\* is there, or has been let go of at once.
LEMMA InTheLog ==
    ASSUME NEW t \in Nat, NEW q, Counts(q, t - Len(q)), Len(q) <= t,
           NEW k \in 1..t, k > t - Len(q)
    PROVE  k \in ToSet(q)
  <1>1. q \in Seq(Nat) /\ Len(q) \in Nat
    BY DEF Counts
  <1>2. k - (t - Len(q)) \in 1..Len(q) /\ q[k - (t - Len(q))] = (t - Len(q)) + (k - (t - Len(q)))
    BY <1>1 DEF Counts
  <1>3. (t - Len(q)) + (k - (t - Len(q))) = k
    BY <1>1
  <1> QED
    BY <1>1, <1>2, <1>3 DEF ToSet

LEMMA OnlyTheLast ==
    ASSUME NEW t \in Nat, NEW q, Counts(q, t - Len(q)), NEW k \in ToSet(q)
    PROVE  k > t - Len(q) /\ k <= t
  <1>1. q \in Seq(Nat) /\ Len(q) \in Nat
    BY DEF Counts
  <1>2. PICK i \in 1..Len(q) : k = q[i]
    BY <1>1 DEF ToSet
  <1> QED
    BY <1>1, <1>2 DEF Counts

LEMMA NumbersIn == ASSUME NEW q \in Seq(Nat) PROVE ToSet(q) \subseteq Nat
  BY DEF ToSet

LEMMA AnnouncesLost ==
    ASSUME CInv, Announces
    PROVE  /\ lost' \in [Pullers -> SUBSET Nat]
           /\ \A p \in Pullers :
                /\ lost[p] \subseteq lost'[p]
                /\ \A k \in 1..(told + 1) :
                     k > told - Len(log.entries) => \/ k \in heard[p] \cup lost'[p]
                                                   \/ k > (told + 1) - Len(log'.entries)
                /\ anchor[p].era < restarts /\ LogHead' <= anchor[p].seq => told + 1 \in lost'[p]
<1> DEFINE entries == Append(log.entries, told + 1)
           dropped == ToSet(entries) \ ToSet(log'.entries)
<1>0. /\ log.entries \in Seq(Nat) /\ told \in Nat /\ Len(log.entries) \in Nat /\ told - Len(log.entries) \in Nat
      /\ lost \in [Pullers -> SUBSET Nat] /\ heard \in [Pullers -> SUBSET Nat]
      /\ log'.entries \in Seq(Nat) /\ Len(log'.entries) \in Nat /\ told' = told + 1
      /\ Counts(log'.entries, (told + 1) - Len(log'.entries)) /\ Len(log'.entries) <= told + 1
  <2>1. Logged' /\ told' = told + 1
    BY AnnouncesLog DEF CInv
  <2>2. Len(log'.entries) <= told'
    BY <2>1 DEF Logged, LogHead
  <2> QED
    BY <2>1, <2>2, LogTypes DEF CInv, Anchored, Logged
<1>1. Counts(entries, told - Len(log.entries)) /\ Len(entries) = Len(log.entries) + 1
  <2>1. told - Len(log.entries) + Len(log.entries) + 1 = told + 1
    BY <1>0
  <2> QED
    BY <1>0, <2>1, CountsOn DEF CInv, Logged
<1>2. entries \in Seq(Nat) /\ ToSet(entries) \subseteq Nat
  BY <1>1, NumbersIn DEF Counts
<1> HIDE DEF entries, dropped
<1>3. \A p \in Pullers :
        lost'[p] = IF Overtakes(p) THEN Loses(dropped)[p] \cup {told + 1} ELSE Loses(dropped)[p]
  BY DEF Announces, entries, dropped
<1>4. lost' = [p \in Pullers |-> lost'[p]]
  BY DEF Announces
<1>5. \A p \in Pullers : Loses(dropped)[p] = lost[p] \cup (dropped \ heard[p])
  BY DEF Loses
<1>6. ASSUME NEW k \in 1..(told + 1), k > told - Len(log.entries), k \notin dropped
      PROVE  k > (told + 1) - Len(log'.entries)
  <2>1. k \in ToSet(entries)
    <3>1. /\ (told + 1) - Len(entries) = told - Len(log.entries) /\ told + 1 \in Nat
          /\ Len(entries) <= told + 1
      BY <1>0, <1>1
    <3>2. Counts(entries, (told + 1) - Len(entries))
      BY <1>1, <3>1
    <3>3. k > (told + 1) - Len(entries)
      BY <1>6, <3>1
    <3> QED
      BY <3>1, <3>2, <3>3, InTheLog
  <2>2. k \in ToSet(log'.entries)
    BY <1>6, <2>1 DEF dropped
  <2>3. told + 1 \in Nat
    BY <1>0
  <2> DEFINE q == log'.entries
  <2>4. k \in ToSet(q) /\ Counts(q, (told + 1) - Len(q))
    BY <1>0, <2>2
  <2> HIDE DEF q
  <2>5. k > (told + 1) - Len(q)
    BY <2>3, <2>4, OnlyTheLast
  <2> QED
    BY <2>5 DEF q
<1>7. dropped \subseteq Nat
  BY <1>2 DEF dropped
<1>8. ASSUME NEW p \in Pullers
      PROVE  /\ lost'[p] \in SUBSET Nat /\ lost[p] \subseteq lost'[p] /\ dropped \ heard[p] \subseteq lost'[p]
             /\ Overtakes(p) => told + 1 \in lost'[p]
  <2>1. lost'[p] = IF Overtakes(p) THEN (lost[p] \cup (dropped \ heard[p])) \cup {told + 1}
                                   ELSE lost[p] \cup (dropped \ heard[p])
    BY <1>3, <1>5
  <2>2. lost[p] \subseteq Nat /\ told + 1 \in Nat
    BY <1>0
  <2> QED
    BY <1>7, <2>1, <2>2
<1>9. \A p \in Pullers : anchor[p].era < restarts /\ LogHead' <= anchor[p].seq => Overtakes(p)
  BY DEF Overtakes, LogHead
<1>10. lost' \in [Pullers -> SUBSET Nat]
  BY <1>4, <1>8
<1> QED
  BY <1>6, <1>8, <1>9, <1>10

LEMMA AnnouncesKeeps == ASSUME CInv, Announces PROVE CInv'
  <1>1. /\ Logged' /\ LogHead' = LogHead + 1 /\ told' = told + 1 /\ restarts' = restarts
    BY AnnouncesLog DEF CInv
  <1>2. Anchored'
    <2>1. anchor' = anchor /\ heard' = heard
      BY DEF Announces
    <2> SUFFICES ASSUME NEW p \in Pullers PROVE Anchor(p)'
      BY <2>1, AnnouncesLost DEF CInv, Anchored
    <2>3. /\ LogHead \in Nat /\ told \in Nat /\ anchor[p].seq \in Nat /\ anchor[p].era \in Nat
          /\ restarts \in Nat /\ Len(log.entries) \in Nat /\ Anchor(p) /\ Len(log'.entries) \in Nat
      BY <1>1, LogTypes DEF CInv, Anchored, Logged
    <2>4. Behind(p)' = Behind(p) /\ Behind(p) = told - (LogHead - anchor[p].seq)
      <3>1. Behind(p) = told - (LogHead - anchor[p].seq)
        BY DEF Behind
      <3>2. Behind(p)' = told' - (LogHead' - anchor[p].seq)
        BY <2>1 DEF Behind
      <3>3. \A t, h, a \in Nat : (t + 1) - ((h + 1) - a) = t - (h - a)
        OBVIOUS
      <3> QED
        BY <1>1, <2>3, <3>1, <3>2, <3>3
    <2>5. /\ lost[p] \subseteq lost'[p]
          /\ \A k \in 1..(told + 1) :
                 k > told - Len(log.entries) => \/ k \in heard[p] \cup lost'[p]
                                                \/ k > (told + 1) - Len(log'.entries)
          /\ anchor[p].era < restarts /\ LogHead' <= anchor[p].seq => told + 1 \in lost'[p]
      BY AnnouncesLost, Zenon
    <2>6. ASSUME NEW k \in 1..(told + 1), k \notin heard[p] \cup lost'[p]
          PROVE  k > (told + 1) - Len(log'.entries) /\ k > Behind(p)
      <3>1. CASE k \in 1..told
        <4>1. k \notin heard[p] \cup lost[p]
          BY <2>5, <2>6
        <4>2. Accounted(p)
          BY <2>3 DEF Anchor
        <4>3. k > told - Len(log.entries) /\ k > Behind(p)
          BY <3>1, <4>1, <4>2 DEF Accounted
        <4> QED
          BY <2>5, <2>6, <4>3
      <3>2. CASE k = told + 1
        <4>1. ~(anchor[p].era < restarts /\ LogHead' <= anchor[p].seq)
          BY <2>5, <2>6, <3>2
        <4>2. anchor[p].seq <= LogHead
          BY <1>1, <2>3, <4>1 DEF Anchor
        <4>3. k > told - Len(log.entries) /\ k > Behind(p)
          BY <2>3, <2>4, <3>2, <4>2
        <4> QED
          BY <2>5, <2>6, <4>3
      <3>3. k \in 1..told \/ k = told + 1
        BY <2>3
      <3> QED
        BY <3>1, <3>2, <3>3
    <2>7. Accounted(p)'
      <3> SUFFICES ASSUME NEW k \in 1..told', k \notin heard'[p] \cup lost'[p]
                   PROVE  k > told' - Len(log'.entries) /\ k > Behind(p)'
        BY DEF Accounted
      <3>1. k \in 1..(told + 1) /\ k \notin heard[p] \cup lost'[p]
        BY <1>1, <2>1
      <3> QED
        BY <1>1, <2>4, <2>6, <3>1
    <2> QED
      BY <1>1, <2>1, <2>3, <2>7 DEF Anchor
  <1>3. Watched'
    <2>1. sub' = [c \in DOMAIN sub |-> [sub[c] EXCEPT !.queue = Append(@, told + 1)]]
      BY DEF Announces, Broadcast
    <2>2. DOMAIN sub' = DOMAIN sub /\ sub' = [c \in DOMAIN sub' |-> sub'[c]]
      BY <2>1
    <2> SUFFICES ASSUME NEW c \in DOMAIN sub PROVE Watcher(c)'
      BY <2>2 DEF Watched
    <2> DEFINE more == Append(sub[c].queue, told + 1)
    <2>3. Watcher(c) /\ told \in Nat /\ sub[c].seen \in Nat /\ Len(sub[c].queue) \in Nat
      BY LogTypes DEF CInv, Watched, Watcher, Channel
    <2>4. Counts(more, sub[c].seen) /\ Len(more) = Len(sub[c].queue) + 1
      BY <2>3, CountsOn DEF Watcher
    <2>5. sub'[c] = [since |-> sub[c].since, seen |-> sub[c].seen, queue |-> more]
      BY <2>1, <2>3 DEF Watcher, Channel
    <2> HIDE DEF more
    <2>6. sub'[c].queue = more /\ sub'[c].seen = sub[c].seen /\ sub'[c] \in Channel
      BY <2>3, <2>4, <2>5 DEF Watcher, Channel, Counts
    <2> QED
      BY <1>1, <2>3, <2>4, <2>6 DEF Watcher
  <1> QED
    BY <1>1, <1>2, <1>3 DEF CInv

LEMMA PartIs ==
    ASSUME NEW q \in Seq(Nat), NEW a \in 0..Len(q)
    PROVE  /\ DOMAIN SubSeq(q, a + 1, Len(q)) = 1..(Len(q) - a)
           /\ \A i \in 1..(Len(q) - a) : SubSeq(q, a + 1, Len(q))[i] = q[a + i]
OBVIOUS

(* Of a log that has the last of t notices, what follows place a has all    *)
(* that came later.                                                         *)
LEMMA PartHas ==
    ASSUME NEW t \in Nat, NEW q, Counts(q, t - Len(q)), NEW a \in 0..Len(q),
           NEW k \in 1..t, k > t - (Len(q) - a)
    PROVE  k \in ToSet(SubSeq(q, a + 1, Len(q)))
  <1> DEFINE i == k - (t - Len(q)) - a
  <1>1. q \in Seq(Nat) /\ Len(q) \in Nat
    BY DEF Counts
  <1>2. i \in 1..(Len(q) - a) /\ a + i \in 1..Len(q) /\ (t - Len(q)) + (a + i) = k
    BY <1>1
  <1> HIDE DEF i
  <1>3. q[a + i] = k
    BY <1>2 DEF Counts
  <1> QED
    BY <1>1, <1>2, <1>3, PartIs DEF ToSet

\* What a client has neither heard nor lost comes with the next answer.
LEMMA SliceHas ==
    ASSUME CInv, NEW p \in Pullers, ~NoticesReset(p)
    PROVE  Missing(p) \subseteq lost[p]
  <1> DEFINE s == anchor[p].seq
             n == Len(log.entries)
             a == IF s < log.base THEN 0 ELSE s - log.base
  <1>1. /\ s \in Nat /\ log.base \in Nat /\ log.entries \in Seq(Nat) /\ told \in Nat /\ n \in Nat
        /\ log.base + n <= told /\ LogHead = log.base + n /\ s <= log.base + n
        /\ Counts(log.entries, told - n)
    <2>1. LogHead \in Nat /\ s \in Nat /\ ~(LogHead < s)
      BY LogTypes DEF CInv, Anchored, NoticesReset
    <2> QED
      BY <2>1, LogTypes DEF CInv, Logged, LogHead
  <1>2. a \in 0..n /\ Slice(s) = SubSeq(log.entries, a + 1, n)
    <2>1. ~(s - log.base > n) /\ n = Len(log.entries)
      BY <1>1
    <2> HIDE DEF s, n
    <2>2. CASE s < log.base
      BY <1>1, <2>1, <2>2 DEF Slice
    <2>3. CASE ~(s < log.base)
      <3>1. s - log.base \in 0..n
        BY <1>1, <2>1, <2>3
      <3>2. Slice(s) = SubSeq(log.entries, (s - log.base) + 1, Len(log.entries))
        BY <2>1, <2>3 DEF Slice
      <3> QED
        BY <2>1, <2>3, <3>1, <3>2
    <2> QED
      BY <2>2, <2>3
  <1>3. ASSUME NEW k \in 1..told, k \notin heard[p] \cup lost[p] PROVE k \in ToSet(Slice(s))
    <2>1. k > told - n /\ k > Behind(p) /\ Behind(p) = told - (log.base + n - s)
      BY <1>1, <1>3 DEF CInv, Anchored, Anchor, Accounted, Behind
    <2> HIDE DEF s, n
    <2>2. k > told - (n - a)
      BY <1>1, <2>1
    <2> HIDE DEF a
    <2> QED
      BY <1>1, <1>2, <2>2, PartHas DEF n
  <1> QED
    BY <1>3 DEF Missing

LEMMA NobodyIsSkipped == ASSUME CInv PROVE NothingIsSkipped
  <1>1. ASSUME NEW p \in Pullers, ~NoticesReset(p) PROVE Missing(p) \subseteq lost[p]
    BY <1>1, SliceHas
  <1>2. ASSUME NEW c \in DOMAIN sub
        PROVE  sub[c].queue = [i \in 1..(told - sub[c].seen) |-> sub[c].seen + i]
    <2>1. Watcher(c) /\ sub[c].seen \in Nat /\ Len(sub[c].queue) \in Nat
      BY DEF CInv, Watched, Watcher, Channel
    <2>2. Len(sub[c].queue) = told - sub[c].seen
      BY <2>1 DEF Watcher
    <2> QED
      BY <2>1, <2>2, CountsIs DEF Watcher
  <1> QED
    BY <1>1, <1>2 DEF NothingIsSkipped

LEMMA PullsKeeps == ASSUME CInv, NEW p \in Pullers, Pulls(p) PROVE CInv'
  <1>1. Logged' /\ Watched' /\ LogHead' = LogHead /\ told' = told /\ restarts' = restarts /\ log' = log
    BY DEF Pulls, CInv, Logged, Watched, Watcher, LogHead
  <1>2. NoticesReset(p) \/ Missing(p) \subseteq lost[p]
    BY SliceHas
  <1>3. 1..told \subseteq heard'[p] \cup lost'[p] /\ heard' \in [Pullers -> SUBSET Nat]
        /\ lost' \in [Pullers -> SUBSET Nat]
        /\ \A q \in Pullers \ {p} : heard'[q] = heard[q] /\ lost'[q] = lost[q]
    <2>1. ToSet(Slice(anchor[p].seq)) \subseteq Nat
      <3>1. log.entries \in Seq(Nat) /\ log.base \in Nat /\ anchor[p].seq \in Nat
        BY DEF CInv, Logged, Anchored
      <3> DEFINE part == Slice(anchor[p].seq)
      <3>2. part \in Seq(Nat)
        BY <3>1 DEF Slice
      <3> HIDE DEF part
      <3>3. ToSet(part) \subseteq Nat
        BY <3>2 DEF ToSet
      <3> QED
        BY <3>3 DEF part
    <2>2. heard \in [Pullers -> SUBSET Nat] /\ 1..told \subseteq Nat /\ lost \in [Pullers -> SUBSET Nat]
      BY DEF CInv, Anchored, Logged
    <2>3. heard' = [heard EXCEPT ![p] = IF NoticesReset(p) THEN 1..told
                                        ELSE heard[p] \cup ToSet(Slice(anchor[p].seq))]
          /\ lost' = [lost EXCEPT ![p] = IF NoticesReset(p) THEN {} ELSE lost[p]]
      BY DEF Pulls
    <2>4. ~NoticesReset(p) => 1..told \subseteq (heard[p] \cup ToSet(Slice(anchor[p].seq))) \cup lost[p]
      BY <1>2 DEF Missing
    <2> QED
      BY <2>1, <2>2, <2>3, <2>4
  <1>4. /\ anchor' \in [Pullers -> [seq : Nat, era : Nat]] /\ anchor'[p] = [seq |-> LogHead, era |-> restarts]
        /\ \A q \in Pullers \ {p} : anchor'[q] = anchor[q]
    BY DEF Pulls, CInv, Anchored, Logged, LogHead
  <1>5. LogHead \in Nat /\ told \in Nat /\ restarts \in Nat
    BY DEF CInv, Logged, LogHead
  <1>6. Anchor(p)'
    BY <1>1, <1>3, <1>4, <1>5 DEF Anchor, Accounted
  <1>7. ASSUME NEW q \in Pullers \ {p} PROVE Anchor(q)'
    BY <1>1, <1>3, <1>4, <1>7 DEF CInv, Anchored, Anchor, Accounted, Behind
  <1>8. Anchored'
    BY <1>3, <1>4, <1>6, <1>7 DEF Anchored
  <1> QED
    BY <1>1, <1>8 DEF CInv

LEMMA RestartsKeeps == ASSUME CInv, RestartsDaemon PROVE CInv'
  <1>1. /\ log' = [base |-> 0, entries |-> <<>>] /\ restarts' = restarts + 1 /\ told' = told
        /\ sub' = Nothing /\ UNCHANGED <<anchor, heard>> /\ lost' = Loses(ToSet(log.entries))
    BY DEF RestartsDaemon
  <1>2. Logged' /\ LogHead' = 0
    BY <1>1 DEF CInv, Logged, Counts, LogHead
  <1>3. Watched'
    <2>1. DOMAIN sub' = {} /\ sub' = [c \in {} |-> 0]
      BY <1>1 DEF Nothing
    <2> QED
      BY <2>1 DEF Watched
  <1>4. lost' \in [Pullers -> SUBSET Nat]
        /\ \A p \in Pullers : lost'[p] = lost[p] \cup (ToSet(log.entries) \ heard[p])
    <2>1. ToSet(log.entries) \subseteq Nat
      BY LogTypes, NumbersIn DEF CInv
    <2> QED
      BY <1>1, <2>1 DEF Loses, CInv, Anchored
  <1>5. ASSUME NEW p \in Pullers PROVE Anchor(p)'
    <2>1. told \in Nat /\ Len(log.entries) <= told /\ Counts(log.entries, told - Len(log.entries))
      BY LogTypes DEF CInv, Logged, LogHead
    <2>2. ASSUME NEW k \in 1..told PROVE k \in heard[p] \cup lost'[p]
      <3>1. k \in heard[p] \cup lost[p] \/ k > told - Len(log.entries)
        BY DEF CInv, Anchored, Anchor, Accounted
      <3>2. k > told - Len(log.entries) => k \in ToSet(log.entries)
        BY <2>1, InTheLog
      <3> QED
        BY <1>4, <3>1, <3>2
    <2>3. anchor[p].era <= restarts /\ anchor[p].era \in Nat /\ restarts \in Nat
      BY DEF CInv, Anchored, Anchor, Logged
    <2>4. Accounted(p)'
      BY <1>1, <2>2 DEF Accounted
    <2> QED
      BY <1>1, <2>3, <2>4 DEF Anchor
  <1>6. Anchored'
    BY <1>1, <1>4, <1>5 DEF CInv, Anchored
  <1> QED
    BY <1>2, <1>3, <1>6 DEF CInv

LEMMA WatchesKeeps == ASSUME CInv, NEW c, Watches(c) PROVE CInv'
  <1>1. /\ sub' = With(sub, c, [since |-> told, seen |-> told, queue |-> <<>>])
        /\ UNCHANGED <<log, told, anchor, heard, restarts, lost>>
    BY DEF Watches
  <1>2. Watched'
    <2> DEFINE it == [since |-> told, seen |-> told, queue |-> <<>>]
    <2>1. /\ told \in Nat /\ it \in Channel /\ it.seen = told
          /\ Counts(it.queue, told) /\ told + Len(it.queue) = told
      BY DEF CInv, Logged, Channel, Counts
    <2>2. DOMAIN sub' = DOMAIN sub \cup {c} /\ sub' = [d \in DOMAIN sub' |-> sub'[d]] /\ sub'[c] = it
          /\ \A d \in DOMAIN sub \ {c} : sub'[d] = sub[d]
      BY <1>1 DEF With
    <2> HIDE DEF it
    <2>3. \A d \in DOMAIN sub' : d = c \/ d \in DOMAIN sub \ {c}
      BY <2>2
    <2> QED
      BY <1>1, <2>1, <2>2, <2>3 DEF CInv, Watched, Watcher
  <1> QED
    BY <1>1, <1>2 DEF CInv, Logged, LogHead, Anchored, Anchor, Accounted, Behind

LEMMA PushesKeeps == ASSUME CInv, NEW c \in DOMAIN sub, Pushes(c) PROVE CInv'
  <1>1. UNCHANGED <<log, told, anchor, heard, restarts, lost>>
    BY DEF Pushes
  <1>2. CASE sub' = Without(sub, {c})
    <2>1. DOMAIN sub' = DOMAIN sub \ {c} /\ sub' = [d \in DOMAIN sub' |-> sub'[d]]
          /\ \A d \in DOMAIN sub' : sub'[d] = sub[d]
      BY <1>2 DEF Without
    <2>2. Watched'
      BY <1>1, <2>1 DEF CInv, Watched, Watcher
    <2> QED
      BY <1>1, <2>2 DEF CInv, Logged, LogHead, Anchored, Anchor, Accounted, Behind
  <1>3. CASE sub' = [sub EXCEPT ![c].seen = Head(sub[c].queue), ![c].queue = Tail(@)]
    <2> DEFINE rest == Tail(sub[c].queue)
    <2>1. Watcher(c) /\ sub[c].seen \in Nat /\ sub[c].queue # <<>> /\ Len(sub[c].queue) \in Nat
      BY DEF CInv, Watched, Watcher, Channel, Pushes
    <2>2. /\ DOMAIN sub' = DOMAIN sub /\ sub' = [d \in DOMAIN sub |-> sub'[d]]
          /\ sub'[c] = [sub[c] EXCEPT !.seen = Head(sub[c].queue), !.queue = rest]
          /\ \A d \in DOMAIN sub \ {c} : sub'[d] = sub[d]
      BY <1>3 DEF CInv, Watched
    <2>3. /\ Counts(rest, sub[c].seen + 1) /\ Len(rest) = Len(sub[c].queue) - 1
          /\ Head(sub[c].queue) = sub[c].seen + 1
      BY <2>1, CountsFromNext DEF Watcher
    <2> HIDE DEF rest
    <2>4. sub'[c] = [since |-> sub[c].since, seen |-> sub[c].seen + 1, queue |-> rest]
      BY <2>1, <2>2, <2>3 DEF Watcher, Channel
    <2>5. sub'[c].queue = rest /\ sub'[c].seen = sub[c].seen + 1 /\ sub'[c] \in Channel
      BY <2>1, <2>3, <2>4 DEF Watcher, Channel, Counts
    <2>6. Watcher(c)'
      BY <1>1, <2>1, <2>3, <2>5 DEF Watcher
    <2>7. ASSUME NEW d \in DOMAIN sub, d # c PROVE Watcher(d)'
      BY <1>1, <2>2, <2>7 DEF CInv, Watched, Watcher
    <2>8. Watched'
      BY <2>2, <2>6, <2>7 DEF Watched
    <2> QED
      BY <1>1, <2>8 DEF CInv, Logged, LogHead, Anchored, Anchor, Accounted, Behind
  <1> QED
    BY <1>2, <1>3 DEF Pushes

LEMMA OnlyChangesChange ==
    ASSUME ReadsPart \/ DirsPart \/ CallsPart \/ EndPart \/ Engine
    PROVE  UNCHANGED <<log, told, sub, anchor, heard, restarts, lost>>
  <1>1. CASE ReadsPart
    BY <1>1 DEF ReadsPart, Opens, Creates, Reads, Others, Closes, Duplicates, Releases, changes
  <1>2. CASE DirsPart
    BY <1>2 DEF DirsPart, EntriesChange, OpensDir, Continues, Lists, Rewinds, ClosesDir, changes
  <1>3. CASE CallsPart
    BY <1>3 DEF CallsPart, Connects, Accepts, Calls, WalksOn, Dispatches, Replies, HangsUp, EndOfStream, changes
  <1>4. CASE EndPart
    BY <1>4 DEF EndPart, Mounts, Runs, Signals, SomebodyUnmounts, ThreadLooks, SessionEnds, TearsDown, changes
  <1>5. CASE Engine
    BY <1>5 DEF Engine, Pump, Finishes, Interrupts, changes
  <1> QED
    BY <1>1, <1>2, <1>3, <1>4, <1>5

\* Who watches has a channel.
Stages == {"away", "queued", "serving", "calling", "answered", "watching", "over"}
Subscribed ==
    /\ conn \in [Conns -> [at : Stages, gone : BOOLEAN]]
    /\ \A c \in Conns : conn[c].at = "watching" => c \in DOMAIN sub

LEMMA SubscribedKeeps == ASSUME Subscribed, [Next]_vars PROVE Subscribed'
  <1> USE DEF Subscribed, Stages
  <1>1. CASE UNCHANGED <<conn, sub>>
    BY <1>1
  <1>2. ASSUME NEW c \in Conns, NEW at \in Stages \ {"watching"}, At(c, at), UNCHANGED sub
        PROVE  Subscribed'
    BY <1>2 DEF At
  <1>3. ASSUME NEW c \in Conns, Connects(c) \/ Accepts(c) \/ Calls(c) \/ WalksOn(c) \/ Replies(c)
                                 \/ HangsUp(c) \/ EndOfStream(c)
        PROVE  Subscribed'
    <2>1. UNCHANGED sub
      BY <1>3 DEF Connects, Accepts, Calls, WalksOn, Dispatches, Replies, HangsUp, EndOfStream, changes
    <2>2. CASE HangsUp(c)
      BY <2>1, <2>2 DEF HangsUp
    <2>3. CASE Calls(c) \/ WalksOn(c)
      BY <1>2, <2>1, <2>3 DEF Calls, WalksOn, Dispatches
    <2>4. CASE Connects(c) \/ Accepts(c) \/ Replies(c) \/ EndOfStream(c)
      BY <1>2, <2>1, <2>4 DEF Connects, Accepts, Replies, EndOfStream, Leaves
    <2> QED
      BY <1>3, <2>2, <2>3, <2>4
  <1>4. ASSUME NEW c \in Conns, Watches(c) PROVE Subscribed'
    BY <1>4 DEF Watches, At, With
  <1>5. ASSUME NEW c \in Conns, Pushes(c) PROVE Subscribed'
    BY <1>5 DEF Pushes, Leaves, At, Without, socket
  <1>6. CASE RestartsDaemon
    BY <1>6 DEF RestartsDaemon
  <1>7. CASE Pump
    <2>1. UNCHANGED sub
      BY <1>7 DEF Pump, changes
    <2>2. ASSUME NEW c \in Conns
          PROVE  conn'[c] = conn[c] \/ conn'[c] = [conn[c] EXCEPT !.at = "answered"]
      BY <1>7 DEF Pump
    <2>3. conn' = [c \in Conns |-> conn'[c]]
      BY <1>7 DEF Pump
    <2> QED
      BY <2>1, <2>2, <2>3
  <1>8. CASE ReadsPart \/ DirsPart
    BY <1>1, <1>8 DEF ReadsPart, Opens, Creates, Reads, Others, Closes, Duplicates, Releases, socket,
       changes, DirsPart, EntriesChange, OpensDir, Continues, Lists, Rewinds, ClosesDir
  <1>9. CASE EndPart
    BY <1>1, <1>9 DEF EndPart, Mounts, Runs, Signals, SomebodyUnmounts, ThreadLooks, SessionEnds,
       TearsDown, changes, socket
  <1>10. CASE \/ \E w \in work : Finishes(w) \/ \E id \in given : Interrupts(id)
              \/ Announces \/ \E p \in Pullers : Pulls(p)
    <2>1. UNCHANGED conn
      BY <1>10 DEF Finishes, Interrupts, Announces, Pulls, socket
    <2>2. DOMAIN sub' = DOMAIN sub
      BY <1>10 DEF Finishes, Interrupts, Announces, Pulls, changes, Broadcast
    <2> QED
      BY <2>1, <2>2
  <1>11. UNCHANGED vars => UNCHANGED <<conn, sub>>
    BY DEF vars, changes, socket
  <1> QED
    BY <1>1, <1>3, <1>4, <1>5, <1>6, <1>7, <1>8, <1>9, <1>10, <1>11
       DEF Next, CallsPart, ChangesPart, Engine, In

LEMMA NextKeepsC == ASSUME CInv, Subscribed, [Next]_vars PROVE CInv'
  <1>1. CASE UNCHANGED <<log, told, sub, anchor, heard, restarts, lost>>
    BY <1>1 DEF CInv, Logged, LogHead, Anchored, Anchor, Accounted, Behind, Watched, Watcher
  <1>2. CASE ChangesPart
    <2>1. ASSUME NEW c \in Conns, Pushes(c) PROVE c \in DOMAIN sub
      BY <2>1 DEF Pushes, Subscribed
    <2> QED
      BY <1>2, <2>1, AnnouncesKeeps, RestartsKeeps, PullsKeeps, WatchesKeeps, PushesKeeps
         DEF ChangesPart, In
  <1>3. UNCHANGED vars => UNCHANGED <<log, told, sub, anchor, heard, restarts, lost>>
    BY DEF vars, changes
  <1> QED
    BY <1>1, <1>2, <1>3, OnlyChangesChange DEF Next

\* A client that asks has every change, gets it with the next answer, or will see
\* that the log began anew -- but for those that the log had let go of before it asked,
\* and those that a log begun anew has told under numbers that the client's anchor had
\* passed; one that watches finds all in order in its channel. However long the log may
\* grow, and however often the daemon starts again.
\* (events.rs Events::start, slice_since; notices.rs Notices::broadcast.)
THEOREM NobodyMissesAChange == Spec => []NothingIsSkipped
  <1>1. Init => CInv /\ Subscribed
    BY InitCInv DEF Init, Subscribed, Stages
  <1>2. CInv /\ Subscribed /\ [Next]_vars => (CInv /\ Subscribed)'
    BY NextKeepsC, SubscribedKeeps
  <1>3. CInv => NothingIsSkipped
    BY NobodyIsSkipped
  <1> QED
    BY <1>1, <1>2, <1>3, PTL DEF Spec

-----------------------------------------------------------------------------
(* Directory streams. A stream that goes on after its first chunk goes on   *)
(* in the listing it has been given.                                        *)

Entries == UNION {ToSet(l) : l \in Listings}
Lister  == [at : {"closed", "open", "asking", "read"}, fh : Nat,
            got : Seq(Entries), from : Seq(Entries)]

Begins(part, whole) == Len(part) <= Len(whole) /\ \A i \in 1..Len(part) : part[i] = whole[i]

Streamed ==
    /\ nextFh \in Nat /\ dir \in Listings
    /\ lister \in [Dirs -> Lister]
    /\ \A h \in DOMAIN streams : h \in 1..nextFh /\ streams[h] \in Seq(Entries)

\* What has been read through d follows its snapshot.
Follows(d) ==
    Registered(d) =>
        /\ lister[d].got # <<>> => /\ streams[lister[d].fh] = lister[d].from
                                  /\ Begins(lister[d].got, lister[d].from)
        /\ lister[d].at = "asking" => lister[d].got = <<>>
        /\ lister[d].at = "read" /\ lister[d].got # <<>> => lister[d].got = lister[d].from

\* An open directory has a handle of its own.
Piece(d) ==
    lister[d].at # "closed" =>
        /\ lister[d].fh \in 1..nextFh /\ Follows(d)
        /\ \A e \in Dirs : lister[e].at # "closed" /\ lister[e].fh = lister[d].fh => e = d

IsDir(i) == i \in DOMAIN parked /\ parked[i].kind = "dir"
Asking ==
    /\ \A i \in DOMAIN parked : IsDir(i) => parked[i].for \in Dirs /\ lister[parked[i].for].at = "asking"
    /\ \A i, j \in DOMAIN parked : IsDir(i) /\ IsDir(j) /\ parked[i].for = parked[j].for => i = j

DInv == Streamed /\ Asking /\ \A d \in Dirs : Piece(d)

LEMMA ListingsAreSequences == \A l \in Listings : l \in Seq(Entries)
  <1> SUFFICES ASSUME NEW l \in Listings PROVE l \in Seq(Entries)
    OBVIOUS
  <1>1. l \in Seq(ToSet(l)) /\ ToSet(l) \subseteq Entries
    BY FrontendsAssumption DEF Entries
  <1> QED
    BY <1>1, SeqMonotonic

LEMMA InitDInv == Init => DInv
  BY EmptySeq DEF Init, DInv, Streamed, Asking, IsDir, Piece, Follows, Registered, Lister, Nothing

\* One chunk more.
LEMMA ChunkGoesOn ==
    ASSUME NEW got \in Seq(Entries), NEW whole \in Seq(Entries), Begins(got, whole)
    PROVE  LET more == Chunk(whole, Len(got)) IN
           /\ got \o more \in Seq(Entries) /\ Begins(got \o more, whole)
           /\ more = <<>> => got \o more = whole /\ got = whole
           /\ more # <<>> => got \o more # <<>>
  <1>1. CASE Len(got) < Len(whole)
    <2> DEFINE x == whole[Len(got) + 1]
    <2>1. Chunk(whole, Len(got)) = <<x>> /\ x \in Entries /\ Len(got) \in Nat /\ Len(whole) \in Nat
      BY <1>1, ElementOfSeq, LenProperties DEF Chunk
    <2>2. /\ <<x>> \in Seq(Entries) /\ Len(<<x>>) = 1 /\ <<x>>[1] = x
      BY <2>1
    <2>3. /\ got \o <<x>> \in Seq(Entries) /\ Len(got \o <<x>>) = Len(got) + 1
          /\ \A i \in 1..Len(got) + 1 : (got \o <<x>>)[i] = IF i <= Len(got) THEN got[i] ELSE <<x>>[i - Len(got)]
      BY <2>2, ConcatProperties
    <2> DEFINE new == got \o <<x>>
    <2>4. ASSUME NEW i \in 1..Len(got) + 1 PROVE new[i] = whole[i]
      <3>1. i \in 1..Len(got) \/ i = Len(got) + 1
        BY <2>1
      <3> QED
        BY <2>1, <2>2, <2>3, <3>1 DEF Begins
    <2>5. new # <<>>
      BY <2>1, <2>3
    <2> QED
      BY <1>1, <2>1, <2>3, <2>4, <2>5 DEF Begins
  <1>2. CASE ~(Len(got) < Len(whole))
    <2>1. Chunk(whole, Len(got)) = <<>> /\ Len(got) = Len(whole)
      BY <1>2, LenProperties DEF Chunk, Begins
    <2>2. got = whole
      BY <2>1, SeqEqual DEF Begins
    <2>3. got \o <<>> = got
      BY ConcatEmptySeq
    <2> QED
      BY <2>1, <2>2, <2>3
  <1> QED
    BY <1>1, <1>2

LEMMA ThenItFollows ==
    ASSUME NEW d, NEW whole, lister'[d].from = whole, streams'[lister'[d].fh] = whole,
           Begins(lister'[d].got, whole), lister'[d].at # "asking",
           lister'[d].at = "read" => lister'[d].got = whole
    PROVE  Follows(d)'
  BY DEF Follows, Begins

LEMMA DirectoryMoves ==
    ASSUME DInv, Streamed', Asking', NEW d \in Dirs, nextFh <= nextFh',
           \A e \in Dirs \ {d} : lister'[e] = lister[e],
           \A h \in 1..nextFh : h # lister[d].fh =>
               /\ h \in DOMAIN streams' <=> h \in DOMAIN streams
               /\ h \in DOMAIN streams => streams'[h] = streams[h],
           lister'[d].at # "closed" =>
               /\ \/ lister[d].at # "closed" /\ lister'[d].fh = lister[d].fh
                  \/ lister[d].at = "closed" /\ lister'[d].fh = nextFh + 1 /\ nextFh' = nextFh + 1
               /\ Follows(d)',
           lister[d].at = "closed" => \A h \in DOMAIN streams : h \in DOMAIN streams' /\ streams'[h] = streams[h],
           lister[d].at = "closed" => \A h \in DOMAIN streams' : h \in DOMAIN streams \/ h = nextFh + 1
    PROVE  DInv'
  <1>1. ASSUME NEW e \in Dirs \ {d}, lister[e].at # "closed"
        PROVE  /\ lister[e].fh \in 1..nextFh /\ Follows(e)' /\ lister'[e].fh \in 1..nextFh'
               /\ lister[d].at # "closed" => lister[e].fh # lister[d].fh
    <2>1. /\ lister[e].fh \in 1..nextFh /\ Follows(e)
          /\ lister[d].at # "closed" => lister[e].fh # lister[d].fh
      BY <1>1 DEF DInv, Piece
    <2>2. /\ lister[e].fh \in DOMAIN streams' <=> lister[e].fh \in DOMAIN streams
          /\ lister[e].fh \in DOMAIN streams => streams'[lister[e].fh] = streams[lister[e].fh]
      <3>1. nextFh \in Nat
        BY DEF DInv, Streamed
      <3> QED
        BY <2>1, <3>1
    <2>3. nextFh \in Nat /\ nextFh' \in Nat
      BY DEF DInv, Streamed
    <2> QED
      BY <2>1, <2>2, <2>3 DEF Follows, Registered
  <1>2. Piece(d)'
    <2>1. nextFh \in Nat /\ nextFh' \in Nat /\ Piece(d)
      BY DEF DInv, Streamed
    <2> QED
      BY <1>1, <2>1 DEF Piece
  <1>3. ASSUME NEW e \in Dirs \ {d} PROVE Piece(e)'
    <2>1. Piece(e) /\ nextFh \in Nat
      BY DEF DInv, Streamed
    <2> QED
      BY <1>1, <2>1 DEF Piece
  <1> QED
    BY <1>2, <1>3 DEF DInv

\* What a directory does that is not asking.
LEMMA AskingStays ==
    ASSUME Asking, NEW d \in Dirs, lister[d].at # "asking",
           \A e \in Dirs \ {d} : lister'[e] = lister[e],
           \A i \in DOMAIN parked' : i \in DOMAIN parked /\ parked'[i] = parked[i]
    PROVE  Asking'
  <1>1. \A i \in DOMAIN parked' : IsDir(i)' => IsDir(i) /\ parked'[i] = parked[i]
    BY DEF IsDir
  <1>2. \A i \in DOMAIN parked : IsDir(i) => parked[i].for \in Dirs \ {d}
    BY DEF Asking
  <1> QED
    BY <1>1, <1>2 DEF Asking, IsDir

LEMMA ContinuesKeeps == ASSUME DInv, NEW d \in Dirs, Continues(d) PROVE DInv'
  <1> DEFINE fh == lister[d].fh
             got == lister[d].got
             more == Chunk(streams[fh], Len(got))
             at == IF more = <<>> THEN "read" ELSE "open"
             new == got \o more
  <1>1. /\ lister' = [lister EXCEPT ![d].at = at, ![d].got = @ \o more, ![d].from = lister[d].from]
    BY DEF Continues, Read
  <1>9. UNCHANGED <<parked, nextFh, dir, streams>> /\ lister[d].at = "open" /\ Registered(d) /\ got # <<>>
    BY DEF Continues, tickets, files
  <1>2. lister[d] \in Lister /\ streams[fh] = lister[d].from /\ Begins(got, lister[d].from) /\ Piece(d)
    BY <1>9 DEF DInv, Streamed, Piece, Follows
  <1>3. /\ new \in Seq(Entries) /\ Begins(new, lister[d].from) /\ new # <<>>
        /\ more = <<>> => new = lister[d].from
    BY <1>9, <1>2, ChunkGoesOn DEF Lister
  <1>4. lister'[d] = [at |-> at, fh |-> fh, got |-> new, from |-> lister[d].from]
        /\ \A e \in Dirs \ {d} : lister'[e] = lister[e]
    BY <1>1, <1>2 DEF DInv, Streamed, Lister
  <1> HIDE DEF new, more
  <1>5. /\ lister'[d].at \in {"read", "open"} /\ lister'[d].fh = fh /\ lister'[d].got = new
        /\ lister'[d].from = lister[d].from /\ (lister'[d].at = "read" => new = lister[d].from)
        /\ lister'[d] \in Lister
    BY <1>2, <1>3, <1>4 DEF Lister
  <1>6. Streamed'
    BY <1>1, <1>9, <1>5 DEF DInv, Streamed
  <1>7. Asking'
    BY <1>9, <1>4, AskingStays DEF DInv
  <1>8. Follows(d)'
    <2>1. streams'[lister'[d].fh] = lister[d].from
      BY <1>9, <1>2, <1>5
    <2>2. Begins(lister'[d].got, lister[d].from)
      BY <1>3, <1>5
    <2> QED
      BY <1>5, <2>1, <2>2, ThenItFollows
  <1> QED
    BY <1>9, <1>2, <1>4, <1>5, <1>6, <1>7, <1>8, DirectoryMoves DEF DInv, Streamed

LEMMA OpensDirKeeps == ASSUME DInv, NEW d \in Dirs, OpensDir(d) PROVE DInv'
  <1> DEFINE new == [at |-> "open", fh |-> nextFh + 1, got |-> <<>>, from |-> <<>>]
  <1>1. /\ lister[d].at = "closed" /\ nextFh' = nextFh + 1 /\ lister' = [lister EXCEPT ![d] = new]
        /\ streams' = streams \/ streams' = With(streams, nextFh + 1, <<>>)
        /\ UNCHANGED <<parked, dir>>
    BY DEF OpensDir, tickets
  <1>2. /\ nextFh \in Nat /\ new \in Lister /\ <<>> \in Seq(Entries)
    BY EmptySeq DEF DInv, Streamed, Lister
  <1>3. /\ \A h \in DOMAIN streams : h \in DOMAIN streams' /\ h \in 1..nextFh /\ streams'[h] = streams[h]
        /\ \A h \in DOMAIN streams' : h \in DOMAIN streams \/ (h = nextFh + 1 /\ streams'[h] = <<>>)
    BY <1>1, <1>2 DEF DInv, Streamed, With
  <1>4. lister'[d] = new /\ \A e \in Dirs \ {d} : lister'[e] = lister[e]
    BY <1>1 DEF DInv, Streamed
  <1>5. Streamed'
    <2>1. lister' \in [Dirs -> Lister]
      BY <1>1, <1>2 DEF DInv, Streamed
    <2>2. \A h \in DOMAIN streams' : h \in 1..nextFh' /\ streams'[h] \in Seq(Entries)
      <3> SUFFICES ASSUME NEW h \in DOMAIN streams' PROVE h \in 1..nextFh + 1 /\ streams'[h] \in Seq(Entries)
        BY <1>1
      <3>1. CASE h \in DOMAIN streams
        BY <1>2, <1>3, <3>1 DEF DInv, Streamed
      <3>2. CASE h = nextFh + 1 /\ streams'[h] = <<>>
        BY <1>2, <3>2
      <3> QED
        BY <1>3, <3>1, <3>2
    <2> QED
      BY <1>1, <1>2, <2>1, <2>2 DEF DInv, Streamed
  <1>6. Asking'
    BY <1>1, <1>4, AskingStays DEF DInv
  <1>7. Follows(d)'
    BY <1>4 DEF Follows
  <1>8. \A h \in 1..nextFh : /\ h \in DOMAIN streams' <=> h \in DOMAIN streams
                            /\ h \in DOMAIN streams => streams'[h] = streams[h]
    BY <1>2, <1>3
  <1> QED
    BY <1>1, <1>2, <1>3, <1>4, <1>5, <1>6, <1>7, <1>8, DirectoryMoves

LEMMA RewindsKeeps == ASSUME DInv, NEW d \in Dirs, Rewinds(d) PROVE DInv'
  <1>1. /\ lister[d].at = "read" /\ lister' = [lister EXCEPT ![d].at = "open", ![d].got = <<>>]
        /\ UNCHANGED <<parked, nextFh, dir, streams>>
    BY DEF Rewinds, tickets, files
  <1>2. lister[d] \in Lister /\ <<>> \in Seq(Entries)
    BY EmptySeq DEF DInv, Streamed
  <1>3. lister'[d] = [at |-> "open", fh |-> lister[d].fh, got |-> <<>>, from |-> lister[d].from]
        /\ \A e \in Dirs \ {d} : lister'[e] = lister[e]
    BY <1>1, <1>2 DEF DInv, Streamed, Lister
  <1>4. lister'[d] \in Lister
    BY <1>2, <1>3 DEF Lister
  <1>5. Streamed'
    BY <1>1, <1>4 DEF DInv, Streamed
  <1>6. Asking'
    BY <1>1, <1>3, AskingStays DEF DInv
  <1>7. Follows(d)'
    BY <1>3 DEF Follows
  <1> QED
    BY <1>1, <1>3, <1>5, <1>6, <1>7, DirectoryMoves DEF DInv, Streamed

LEMMA ClosesDirKeeps == ASSUME DInv, NEW d \in Dirs, ClosesDir(d) PROVE DInv'
  <1>1. /\ lister[d].at \in {"open", "read"} /\ lister' = [lister EXCEPT ![d].at = "closed"]
        /\ streams' = Without(streams, {lister[d].fh}) /\ UNCHANGED <<parked, nextFh, dir>>
    BY DEF ClosesDir, tickets, files
  <1>2. lister[d] \in Lister
    BY DEF DInv, Streamed
  <1>3. lister'[d] = [at |-> "closed", fh |-> lister[d].fh, got |-> lister[d].got, from |-> lister[d].from]
        /\ \A e \in Dirs \ {d} : lister'[e] = lister[e]
    BY <1>1, <1>2 DEF DInv, Streamed, Lister
  <1>4. lister'[d] \in Lister
    BY <1>2, <1>3 DEF Lister
  <1>5. \A h : h # lister[d].fh =>
               /\ h \in DOMAIN streams' <=> h \in DOMAIN streams
               /\ h \in DOMAIN streams => streams'[h] = streams[h]
    BY <1>1 DEF Without
  <1>6. Streamed'
    BY <1>1, <1>4 DEF DInv, Streamed, Without
  <1>7. Asking'
    BY <1>1, <1>3, AskingStays DEF DInv
  <1> QED
    <2>1. nextFh' = nextFh /\ nextFh <= nextFh' /\ lister[d].at # "closed" /\ lister'[d].at = "closed"
      BY <1>1, <1>3 DEF DInv, Streamed
    <2> QED
      BY <1>3, <1>5, <1>6, <1>7, <2>1, DirectoryMoves

LEMMA ListsKeeps == ASSUME DInv, NEW d \in Dirs, Lists(d) PROVE DInv'
  <1>1. /\ lister[d].at = "open" /\ (lister[d].got = <<>> \/ ~Registered(d))
        /\ lister' = [lister EXCEPT ![d].at = "asking"] /\ UNCHANGED <<nextFh, dir, streams>>
    BY DEF Lists, files
  <1>2. parked' = With(parked, nextId, [kind |-> "dir", for |-> d, file |-> d])
    BY DEF Lists, Asks
  <1>3. lister[d] \in Lister
    BY DEF DInv, Streamed
  <1>4. lister'[d] = [at |-> "asking", fh |-> lister[d].fh, got |-> lister[d].got, from |-> lister[d].from]
        /\ \A e \in Dirs \ {d} : lister'[e] = lister[e]
    BY <1>1, <1>3 DEF DInv, Streamed, Lister
  <1>5. lister'[d] \in Lister
    BY <1>3, <1>4 DEF Lister
  <1>6. Streamed'
    BY <1>1, <1>5 DEF DInv, Streamed
  <1>7. Asking'
    <2>1. /\ DOMAIN parked' = DOMAIN parked \cup {nextId} /\ parked'[nextId].kind = "dir" /\ parked'[nextId].for = d
          /\ \A i \in DOMAIN parked' \ {nextId} : i \in DOMAIN parked /\ parked'[i] = parked[i]
      BY <1>2 DEF With
    <2>2. \A i \in DOMAIN parked : IsDir(i) => parked[i].for \in Dirs \ {d} /\ lister[parked[i].for].at = "asking"
      BY <1>1 DEF DInv, Asking
    <2>3. ASSUME NEW i \in DOMAIN parked', IsDir(i)'
          PROVE  /\ parked'[i].for \in Dirs /\ lister'[parked'[i].for].at = "asking"
                 /\ parked'[i].for = d => i = nextId
                 /\ parked'[i].for # d => IsDir(i) /\ parked'[i] = parked[i]
      BY <1>4, <2>1, <2>2, <2>3 DEF IsDir
    <2>4. ASSUME NEW i \in DOMAIN parked', NEW j \in DOMAIN parked', IsDir(i)', IsDir(j)', parked'[i].for = parked'[j].for
          PROVE  i = j
      <3>1. CASE parked'[i].for = d
        BY <2>3, <2>4, <3>1
      <3>2. CASE parked'[i].for # d
        BY <2>3, <2>4, <3>2 DEF DInv, Asking, IsDir
      <3> QED
        BY <3>1, <3>2
    <2> QED
      BY <2>3, <2>4 DEF Asking
  <1>8. Follows(d)'
    <2>1. Piece(d)
      BY DEF DInv
    <2> QED
      BY <1>1, <1>4, <2>1 DEF Piece, Follows, Registered
  <1> QED
    <2>1. nextFh' = nextFh /\ nextFh <= nextFh' /\ streams' = streams /\ lister[d].at = "open"
          /\ lister'[d].at = "asking" /\ lister'[d].fh = lister[d].fh
      BY <1>1, <1>4 DEF DInv, Streamed
    <2> QED
      BY <1>4, <1>6, <1>7, <1>8, <2>1, DirectoryMoves

\* What else is parked or answered does not touch the directories.
LEMMA OtherTickets ==
    ASSUME DInv, UNCHANGED <<dir, streams, lister>>, nextFh' \in Nat, nextFh <= nextFh',
           \A i \in DOMAIN parked' : IsDir(i)' => IsDir(i) /\ parked'[i] = parked[i]
    PROVE  DInv'
  <1>1. Streamed' /\ Asking'
    BY DEF DInv, Streamed, Asking, IsDir
  <1>2. \A d \in Dirs : Piece(d)'
    BY DEF DInv, Streamed, Piece, Follows, Registered
  <1> QED
    BY <1>1, <1>2 DEF DInv

LEMMA PumpKeepsD == ASSUME DInv, Pump PROVE DInv'
  <1> DEFINE ids == Delivered(Head(answers).ids)
             asks == {parked[i].for : i \in {j \in ids \cap DOMAIN parked : parked[j].kind = "dir"}}
  <1>1. parked' = Without(parked, ids) /\ UNCHANGED <<nextFh, dir>>
    BY DEF Pump, files
  <1>2. \A i \in DOMAIN parked' : i \in DOMAIN parked /\ i \notin ids /\ parked'[i] = parked[i]
    BY <1>1 DEF Without
  <1>3. CASE asks = {}
    <2>1. UNCHANGED <<lister, streams>>
      BY <1>3 DEF Pump
    <2> QED
      BY <1>1, <1>2, <2>1, OtherTickets DEF IsDir, DInv, Streamed
  <1>4. CASE asks # {}
    <2>0. PICK d : d = CHOOSE e \in asks : TRUE
      OBVIOUS
    <2> DEFINE more == Chunk(dir, Len(lister[d].got))
               at == IF more = <<>> THEN "read" ELSE "open"
               new == lister[d].got \o more
               from == IF lister[d].got = <<>> THEN dir ELSE lister[d].from
    <2>1. /\ lister' = [lister EXCEPT ![d].at = at, ![d].got = @ \o more, ![d].from = from]
          /\ streams' = Remembered(lister[d].fh, dir)
      BY <1>4, <2>0 DEF Pump, Read
    <2>2. PICK i \in ids \cap DOMAIN parked : parked[i].kind = "dir" /\ parked[i].for = d
      <3>1. d \in asks
        BY <1>4, <2>0
      <3> QED
        BY <3>1
    <2> HIDE DEF asks, ids
    <2>3. d \in Dirs /\ lister[d].at = "asking" /\ lister[d] \in Lister /\ Piece(d)
      BY <2>2 DEF DInv, Asking, IsDir, Streamed
    <2>4. dir \in Seq(Entries) /\ <<>> \in Seq(Entries)
      BY ListingsAreSequences, EmptySeq DEF DInv, Streamed
    <2>5. /\ lister[d].got = <<>> => /\ new \in Seq(Entries) /\ Begins(new, dir)
                                   /\ (more = <<>> => new = dir)
          /\ new \in Seq(Entries) /\ from \in Seq(Entries)
      <3>1. Begins(<<>>, dir)
        BY <2>4, EmptySeq, LenProperties DEF Begins
      <3>2. more \in Seq(Entries)
        BY <2>3, <2>4, ElementOfSeq, LenProperties DEF Chunk, Lister
      <3>3. new \in Seq(Entries)
        BY <2>3, <3>2, ConcatProperties DEF Lister
      <3> QED
        BY <2>3, <2>4, <3>1, <3>3, ChunkGoesOn DEF Lister
    <2> HIDE DEF new, more
    <2>6. lister'[d] = [at |-> at, fh |-> lister[d].fh, got |-> new, from |-> from]
          /\ \A e \in Dirs \ {d} : lister'[e] = lister[e]
      BY <2>1, <2>3 DEF DInv, Streamed, Lister, new
    <2>7. lister'[d] \in Lister /\ lister'[d].at \in {"read", "open"} /\ lister'[d].fh = lister[d].fh
          /\ lister'[d].got = new /\ lister'[d].from = from /\ (lister'[d].at = "read" => more = <<>>)
      BY <2>3, <2>5, <2>6 DEF Lister
    <2>8. /\ DOMAIN streams' = DOMAIN streams
          /\ \A h \in DOMAIN streams : h # lister[d].fh => streams'[h] = streams[h]
          /\ lister[d].fh \in DOMAIN streams => streams'[lister[d].fh] = dir
      BY <2>1 DEF Remembered, With
    <2>9. Streamed'
      <3>1. lister' = [e \in Dirs |-> lister'[e]] /\ \A e \in Dirs : lister[e] \in Lister
        BY <2>1 DEF DInv, Streamed
      <3>2. lister' \in [Dirs -> Lister]
        BY <2>6, <2>7, <3>1
      <3>3. \A h \in DOMAIN streams' : h \in 1..nextFh /\ streams'[h] \in Seq(Entries)
        BY <2>4, <2>8 DEF DInv, Streamed
      <3> QED
        BY <1>1, <3>2, <3>3 DEF DInv, Streamed
    <2>10. Asking'
      <3>1. \A j \in DOMAIN parked' : IsDir(j)' => IsDir(j) /\ parked'[j] = parked[j] /\ parked[j].for \in Dirs \ {d}
        BY <1>2, <2>2, <2>3 DEF DInv, Asking, IsDir
      <3> QED
        BY <2>6, <3>1 DEF DInv, Asking, IsDir
    <2>11. Follows(d)'
      <3>1. CASE Registered(d)
        <4>1. lister[d].got = <<>> /\ streams'[lister[d].fh] = dir /\ from = dir
          BY <2>3, <2>8, <3>1 DEF Piece, Follows, Registered
        <4> QED
          BY <2>5, <2>7, <4>1, ThenItFollows
      <3>2. CASE ~Registered(d)
        <4>1. ~(lister'[d].fh \in DOMAIN streams')
          BY <2>7, <2>8, <3>2 DEF Registered
        <4> QED
          BY <4>1 DEF Follows, Registered
      <3> QED
        BY <3>1, <3>2
    <2> QED
      <3>1. nextFh' = nextFh /\ nextFh <= nextFh' /\ lister[d].at # "closed"
        BY <1>1, <2>3 DEF DInv, Streamed
      <3> QED
        BY <2>3, <2>6, <2>7, <2>8, <2>9, <2>10, <2>11, <3>1, DirectoryMoves
  <1> QED
    BY <1>3, <1>4

LEMMA NextKeepsD == ASSUME DInv, [Next]_vars PROVE DInv'
  <1>1. nextFh \in Nat /\ nextFh + 1 \in Nat /\ nextFh <= nextFh /\ nextFh <= nextFh + 1
    BY DEF DInv, Streamed
  <1>2. CASE UNCHANGED <<parked, nextFh, dir, streams, lister>>
    BY <1>1, <1>2, OtherTickets DEF IsDir
  <1>3. ASSUME NEW f, NEW kind, kind # "dir", NEW file, Asks(f, kind, file), UNCHANGED <<nextFh, dir, streams, lister>>
        PROVE  DInv'
    <2>1. \A i \in DOMAIN parked' : i = nextId \/ (i \in DOMAIN parked /\ parked'[i] = parked[i])
      BY <1>3 DEF Asks, With
    <2>2. parked'[nextId].kind = kind
      BY <1>3 DEF Asks, With
    <2> QED
      BY <1>1, <1>3, <2>1, <2>2, OtherTickets DEF IsDir
  <1>4. ASSUME NEW fh, NEW for, GivesUp(fh, for), UNCHANGED <<nextFh, dir, streams, lister>> PROVE DInv'
    <2>1. \A i \in DOMAIN parked' : i = nextId \/ (i \in DOMAIN parked /\ parked'[i] = parked[i])
      BY <1>4 DEF GivesUp, With
    <2>2. parked'[nextId].kind = "empty"
      BY <1>4 DEF GivesUp, With
    <2> QED
      BY <1>1, <1>4, <2>1, <2>2, OtherTickets DEF IsDir
  <1>5. CASE ReadsPart
    <2>1. ASSUME NEW f, NEW g, Opens(f) \/ Duplicates(f, g) PROVE DInv'
      <3>1. UNCHANGED <<parked, dir, streams, lister>> /\ nextFh' \in {nextFh, nextFh + 1}
        BY <2>1 DEF Opens, Duplicates, tickets, folders
      <3> QED
        BY <1>1, <3>1, OtherTickets DEF IsDir
    <2>2. ASSUME NEW f, Creates(f) PROVE DInv'
      BY <1>3, <2>2 DEF Creates, folders
    <2>3. ASSUME NEW f, Reads(f) PROVE DInv'
      BY <1>3, <2>3 DEF Reads, folders
    <2>4. ASSUME NEW f, Others(f) PROVE DInv'
      BY <1>3, <2>4 DEF Others, folders, files
    <2>5. ASSUME NEW f, Closes(f) PROVE DInv'
      BY <1>4, <2>5 DEF Closes, folders
    <2>6. ASSUME NEW it, Releases(it) PROVE DInv'
      BY <1>4, <2>6 DEF Releases, folders
    <2> QED
      BY <1>5, <2>1, <2>2, <2>3, <2>4, <2>5, <2>6 DEF ReadsPart
  <1>6. CASE DirsPart
    <2>1. ASSUME NEW l \in Listings, EntriesChange(l) PROVE DInv'
      BY <2>1 DEF EntriesChange, DInv, Streamed, Asking, IsDir, Piece, Follows, Registered, tickets, files
    <2> QED
      BY <1>6, <2>1, OpensDirKeeps, ContinuesKeeps, ListsKeeps, RewindsKeeps, ClosesDirKeeps DEF DirsPart, In
  <1>7. CASE CallsPart
    BY <1>2, <1>7 DEF CallsPart, Connects, Accepts, Calls, WalksOn, Dispatches, Replies, HangsUp, EndOfStream,
       tickets, files, folders
  <1>8. CASE ChangesPart
    <2>1. CASE RestartsDaemon
      <3>1. parked' = Nothing /\ UNCHANGED <<nextFh, dir, streams, lister>>
        BY <2>1 DEF RestartsDaemon, files, folders
      <3> QED
        BY <1>1, <3>1, OtherTickets DEF IsDir, Nothing
    <2>2. CASE ~RestartsDaemon
      BY <1>2, <1>8, <2>2 DEF ChangesPart, Announces, Pulls, Watches, Pushes, tickets, files, folders
    <2> QED
      BY <2>1, <2>2
  <1>9. CASE EndPart
    BY <1>2, <1>9 DEF EndPart, Mounts, Runs, Signals, SomebodyUnmounts, ThreadLooks, SessionEnds, TearsDown,
       tickets, files, folders
  <1>10. CASE Engine
    BY <1>2, <1>10, PumpKeepsD DEF Engine, Finishes, Interrupts, files, folders
  <1>11. CASE UNCHANGED vars
    BY <1>2, <1>11 DEF vars, tickets, files, folders
  <1> QED
    BY <1>5, <1>6, <1>7, <1>8, <1>9, <1>10, <1>11 DEF Next

LEMMA ReadIsWhole == ASSUME DInv PROVE StreamsAreOfOnePiece
  BY DEF DInv, Piece, Follows, StreamsAreOfOnePiece

\* However often a directory changes while it is read: what a stream with a
\* snapshot has read when it comes to its end is one listing, the one it began
\* with. (dispatch.rs serve_dir; fs.rs readdir, DirStreams.)
THEOREM StreamsAreWhole == Spec => []StreamsAreOfOnePiece
  <1>1. Init => DInv
    BY InitDInv
  <1>2. DInv /\ [Next]_vars => DInv'
    BY NextKeepsD
  <1>3. DInv => StreamsAreOfOnePiece
    BY ReadIsWhole
  <1> QED
    BY <1>1, <1>2, <1>3, PTL DEF Spec

-----------------------------------------------------------------------------
(* Who is interrupted. A read that has been given up is one of a descriptor *)
(* that is closed for good: descriptors are opened once.                    *)

\* No descriptor is closed while another one reads through its handle.
HandlesApart == "shared handle" \notin Perils

Known == 1..(nextId - 1)
Sent  == {answers[k] : k \in 1..Len(answers)}
Answer == [ids : SUBSET Nat, out : {"ok", "interrupted"}]

Numbered ==
    /\ nextId \in Nat \ {0} /\ answers \in Seq(Answer)
    /\ DOMAIN parked \subseteq Known /\ given \subseteq Known
    /\ \A w \in work : w \subseteq Known
    /\ \A a \in Sent : a.ids \subseteq Known
    /\ \A h \in DOMAIN reads : reads[h] \subseteq Known

Files ==
    /\ DOMAIN fd \subseteq used
    /\ \A f \in DOMAIN fd : fd[f].file \in used
    /\ \A it \in closing : it.file \in used
    /\ \A i \in DOMAIN parked : parked[i].kind # "dir" => parked[i].for \in used
    /\ \A h \in DOMAIN reads : \A i \in reads[h] : i \in DOMAIN parked => parked[i].kind = "data"

\* A file that is being created has no descriptor yet, and nothing else is asked of it.
Newborn(i) ==
    parked[i].kind = "created" =>
        /\ parked[i].for \notin DOMAIN fd
        /\ \A g \in DOMAIN fd : fd[g].file # parked[i].for
        /\ \A it \in closing : it.file # parked[i].for
        /\ \A j \in DOMAIN parked : parked[j].kind # "dir" /\ parked[j].for = parked[i].for => j = i

Dead(i) == i \in DOMAIN parked => parked[i].kind = "data" /\ parked[i].for \notin DOMAIN fd

RInv ==
    /\ Numbered /\ Files /\ \A i \in DOMAIN parked : Newborn(i)
    /\ \A i \in given : Dead(i)
    /\ \A a \in Sent : a.out = "interrupted" => \A i \in a.ids : Dead(i)

LEMMA InitRInv == Init => RInv
  BY EmptySeq DEF Init, RInv, Numbered, Known, Sent, Files, Newborn, Nothing

\* What the channel to the pump loses and gains.
LEMMA SentOn == ASSUME answers \in Seq(Answer), NEW a \in Answer, answers' = Append(answers, a)
                PROVE  Sent' = Sent \cup {a} /\ answers' \in Seq(Answer)
  <1>1. /\ Len(answers') = Len(answers) + 1 /\ Len(answers) \in Nat /\ answers' \in Seq(Answer)
        /\ \A k \in 1..Len(answers) : answers'[k] = answers[k]
        /\ answers'[Len(answers) + 1] = a
    BY AppendProperties, LenProperties
  <1>2. \A k \in 1..Len(answers') : k \in 1..Len(answers) \/ k = Len(answers) + 1
    BY <1>1
  <1>3. 1..Len(answers) \subseteq 1..Len(answers') /\ Len(answers) + 1 \in 1..Len(answers')
    BY <1>1
  <1> QED
    BY <1>1, <1>2, <1>3 DEF Sent

LEMMA SentOff == ASSUME answers \in Seq(Answer), answers # <<>>, answers' = Tail(answers)
                 PROVE  Sent' \subseteq Sent /\ answers' \in Seq(Answer) /\ Head(answers) \in Sent
  <1>1. /\ Len(answers') = Len(answers) - 1 /\ Len(answers) \in Nat \ {0} /\ answers' \in Seq(Answer)
        /\ \A k \in 1..Len(answers') : answers'[k] = answers[k + 1]
    BY HeadTailProperties, EmptySeq
  <1>2. \A k \in 1..Len(answers') : k + 1 \in 1..Len(answers)
    BY <1>1
  <1>3. Head(answers) = answers[1] /\ 1 \in 1..Len(answers)
    BY <1>1
  <1> QED
    BY <1>1, <1>2, <1>3 DEF Sent

\* A request is parked under a new ticket.
LEMMA ParkingKeeps ==
    ASSUME RInv, NEW it, nextId' = nextId + 1, parked' = With(parked, nextId, it), answers' = answers,
           it.kind # "dir" => it.for \in used',
           it.kind # "dir" => \A i \in DOMAIN parked : parked[i].kind = "created" => parked[i].for # it.for,
           it.kind = "created" =>
               /\ it.for \notin DOMAIN fd' /\ \A g \in DOMAIN fd' : fd'[g].file # it.for
               /\ \A c \in closing' : c.file # it.for
               /\ \A j \in DOMAIN parked : parked[j].kind # "dir" => parked[j].for # it.for,
           used \subseteq used', DOMAIN fd' \subseteq DOMAIN fd, \A g \in DOMAIN fd' : fd'[g] = fd[g],
           \A c \in closing' : c \in closing \/ \E g \in DOMAIN fd : c = fd[g],
           \A w \in work' : w \in work \/ w = {nextId} \/ \E v \in work : w = v \cup {nextId},
           \A i \in given' : i \in given \/ ((\E h \in DOMAIN reads : i \in reads[h]) /\ Dead(i)'),
           \A h \in DOMAIN reads' : \A i \in reads'[h] :
               (i = nextId /\ it.kind = "data") \/ (h \in DOMAIN reads /\ i \in reads[h])
    PROVE  RInv'
  <1>1. nextId \in Nat \ {0} /\ Known' = Known \cup {nextId} /\ nextId \notin Known
    BY DEF RInv, Numbered, Known
  <1>2. DOMAIN parked' = DOMAIN parked \cup {nextId} /\ parked'[nextId] = it /\ nextId \notin DOMAIN parked
        /\ \A i \in DOMAIN parked : parked'[i] = parked[i] /\ i # nextId
    BY <1>1 DEF With, RInv, Numbered
  <1>3. Sent' = Sent
    BY DEF Sent
  <1>4. Numbered'
    <2>1. \A w \in work' : w \subseteq Known'
      BY <1>1 DEF RInv, Numbered
    <2>2. given' \subseteq Known' /\ \A h \in DOMAIN reads' : reads'[h] \subseteq Known'
      BY <1>1 DEF RInv, Numbered
    <2> QED
      BY <1>1, <1>2, <1>3, <2>1, <2>2 DEF RInv, Numbered
  <1>5. Files'
    <2>1. ASSUME NEW h \in DOMAIN reads', NEW i \in reads'[h], i \in DOMAIN parked'
          PROVE  parked'[i].kind = "data"
      <3>1. CASE i = nextId /\ it.kind = "data"
        BY <1>2, <3>1
      <3>2. CASE h \in DOMAIN reads /\ i \in reads[h]
        <4>1. i \in Known
          BY <3>2 DEF RInv, Numbered
        <4>2. i \in DOMAIN parked
          BY <1>1, <1>2, <2>1, <4>1
        <4> QED
          BY <1>2, <3>2, <4>2 DEF RInv, Files
      <3> QED
        BY <2>1, <3>1, <3>2
    <2>2. \A i \in DOMAIN parked' : parked'[i].kind # "dir" => parked'[i].for \in used'
      BY <1>2 DEF RInv, Files
    <2>3. \A c \in closing' : c.file \in used'
      BY DEF RInv, Files
    <2>4. DOMAIN fd' \subseteq used' /\ \A f \in DOMAIN fd' : fd'[f].file \in used'
      BY DEF RInv, Files
    <2> QED
      BY <2>1, <2>2, <2>3, <2>4 DEF Files
  <1>6. ASSUME NEW i \in DOMAIN parked' PROVE Newborn(i)'
    <2>1. CASE i = nextId
      BY <1>2, <2>1 DEF Newborn
    <2>2. CASE i \in DOMAIN parked
      BY <1>2, <2>2 DEF Newborn, RInv
    <2> QED
      BY <1>2, <2>1, <2>2
  <1>7. ASSUME NEW i, i # nextId, Dead(i) PROVE Dead(i)'
    BY <1>2, <1>7 DEF Dead
  <1>8. \A i \in given' : Dead(i)'
    <2>1. \A i \in given : i # nextId
      BY <1>1 DEF RInv, Numbered
    <2> QED
      BY <1>7, <2>1 DEF RInv
  <1>9. \A a \in Sent' : a.out = "interrupted" => \A i \in a.ids : Dead(i)'
    <2>1. \A a \in Sent : \A i \in a.ids : i # nextId
      BY <1>1 DEF RInv, Numbered
    <2> QED
      BY <1>3, <1>7, <2>1 DEF RInv
  <1> QED
    BY <1>4, <1>5, <1>6, <1>8, <1>9 DEF RInv

\* go: what joins the engine's work is the new ticket.
LEMMA SubmitsOne ==
    ASSUME NEW alike, Submits(alike)
    PROVE  \A w \in work' : w \in work \/ w = {nextId} \/ \E v \in work : w = v \cup {nextId}
  BY DEF Submits

\* Descriptors are opened: what has no descriptor for good still has none.
LEMMA OpensKeeps ==
    ASSUME RInv, NEW f, NEW it, f \notin used, it.file \in used', used' = used \cup {f},
           it.file = f \/ \E g \in DOMAIN fd : it = fd[g],
           fd' = With(fd, f, it), UNCHANGED <<tickets, closing, reads>>
    PROVE  RInv'
  <1>1. /\ DOMAIN fd' = DOMAIN fd \cup {f} /\ fd'[f] = it
        /\ \A g \in DOMAIN fd : g # f /\ fd'[g] = fd[g]
    BY DEF With, RInv, Files
  <1>2. Numbered' /\ Sent' = Sent
    BY DEF tickets, RInv, Numbered, Known, Sent
  <1>3. Files'
    BY <1>1 DEF tickets, RInv, Files
  <1>4. ASSUME NEW i \in DOMAIN parked PROVE Newborn(i)'
    <2>1. CASE parked[i].kind = "created"
      <3>1. parked[i].for \in used /\ parked[i].for # f
        BY <2>1 DEF RInv, Files
      <3>2. parked[i].for \notin DOMAIN fd' /\ \A g \in DOMAIN fd' : fd'[g].file # parked[i].for
        BY <1>1, <2>1, <3>1 DEF RInv, Newborn
      <3> QED
        BY <2>1, <3>2 DEF RInv, Newborn, tickets
    <2>2. CASE parked[i].kind # "created"
      BY <2>2 DEF Newborn, tickets
    <2> QED
      BY <2>1, <2>2
  <1>5. ASSUME NEW i, Dead(i) PROVE Dead(i)'
    BY <1>1, <1>5 DEF Dead, RInv, Files, tickets
  <1> QED
    BY <1>2, <1>3, <1>4, <1>5 DEF RInv, tickets

LEMMA DescriptorsKeep ==
    ASSUME RInv, NEW f \in Fds, NEW g, Opens(f) \/ Duplicates(f, g)
    PROVE  RInv'
  <1>1. CASE Opens(f)
    <2> DEFINE it == [file |-> f, fh |-> nextFh + 1]
    <2>1. /\ f \notin used /\ it.file = f /\ fd' = With(fd, f, it) /\ used' = used \cup {f}
          /\ UNCHANGED <<tickets, closing, reads>>
      BY <1>1 DEF Opens, Opened, Unopened
    <2> HIDE DEF it
    <2> QED
      BY <2>1, OpensKeeps
  <1>2. CASE Duplicates(f, g)
    <2>1. /\ f \notin used /\ g \in DOMAIN fd /\ fd' = With(fd, f, fd[g]) /\ used' = used \cup {f}
          /\ UNCHANGED <<tickets, closing, reads>>
      BY <1>2 DEF Duplicates, Opened, Unopened
    <2>2. fd[g].file \in used'
      BY <2>1 DEF RInv, Files
    <2> QED
      BY <2>1, <2>2, OpensKeeps
  <1> QED
    BY <1>1, <1>2

LEMMA CreatesKeepsR == ASSUME RInv, NEW f \in Fds, Creates(f) PROVE RInv'
  <1> DEFINE it == [kind |-> "created", for |-> f, file |-> f]
  <1>1. /\ nextId' = nextId + 1 /\ parked' = With(parked, nextId, it) /\ answers' = answers
        /\ it.kind = "created" /\ it.for = f /\ f \notin used /\ used' = used \cup {f}
        /\ UNCHANGED <<fd, closing, reads, given>>
    BY DEF Creates, Asks, CanAsk, Ticket, Unopened
  <1>2. \A w \in work' : w \in work \/ w = {nextId} \/ \E v \in work : w = v \cup {nextId}
    BY SubmitsOne DEF Creates, Asks
  <1> HIDE DEF it
  <1>3. /\ f \notin DOMAIN fd /\ \A g \in DOMAIN fd : fd[g].file # f
        /\ \A c \in closing : c.file # f
        /\ \A j \in DOMAIN parked : parked[j].kind # "dir" => parked[j].for # f
    BY <1>1 DEF RInv, Files
  <1> QED
    BY <1>1, <1>2, <1>3, ParkingKeeps

\* Through a descriptor something is asked for, but not that a file be created.
LEMMA ThroughKeeps ==
    ASSUME RInv, NEW f, NEW kind, NEW file, kind # "created", f \in DOMAIN fd, Asks(f, kind, file),
           UNCHANGED <<answers, given, fd, closing, used>>,
           \A h \in DOMAIN reads' : \A i \in reads'[h] :
               (i = nextId /\ kind = "data") \/ (h \in DOMAIN reads /\ i \in reads[h])
    PROVE  RInv'
  <1> DEFINE it == [kind |-> kind, for |-> f, file |-> file]
  <1>1. /\ nextId' = nextId + 1 /\ parked' = With(parked, nextId, it) /\ it.kind = kind /\ it.for = f
    BY DEF Asks, CanAsk, Ticket
  <1>2. \A w \in work' : w \in work \/ w = {nextId} \/ \E v \in work : w = v \cup {nextId}
    BY SubmitsOne DEF Asks
  <1> HIDE DEF it
  <1>3. f \in used /\ \A i \in DOMAIN parked : parked[i].kind = "created" => parked[i].for # f
    BY DEF RInv, Files, Newborn
  <1> QED
    BY <1>1, <1>2, <1>3, ParkingKeeps

LEMMA ReadsKeepsR == ASSUME RInv, NEW f, Reads(f) PROVE RInv'
  <1>1. f \in DOMAIN fd /\ Asks(f, "data", fd[f].file) /\ UNCHANGED <<answers, given, fd, closing, used>>
    BY DEF Reads, Idle
  <1>2. ASSUME NEW h \in DOMAIN reads', NEW i \in reads'[h]
        PROVE  i = nextId \/ (h \in DOMAIN reads /\ i \in reads[h])
    <2> DEFINE own == fd[f].fh
    <2>1. reads' = With(reads, own, ReadsOf(own) \cup {nextId})
      BY DEF Reads
    <2> HIDE DEF own
    <2> QED
      BY <2>1 DEF With, ReadsOf
  <1> QED
    BY <1>1, <1>2, ThroughKeeps

LEMMA OthersKeepsR == ASSUME RInv, NEW f, Others(f) PROVE RInv'
  <1>1. /\ f \in DOMAIN fd /\ Asks(f, "empty", fd[f].file)
        /\ UNCHANGED <<answers, given, fd, closing, used, reads>>
    BY DEF Others, Idle, files
  <1> QED
    BY <1>1, ThroughKeeps

LEMMA ListsKeepsR == ASSUME RInv, NEW d, Lists(d) PROVE RInv'
  <1> DEFINE it == [kind |-> "dir", for |-> d, file |-> d]
  <1>1. /\ nextId' = nextId + 1 /\ parked' = With(parked, nextId, it) /\ it.kind = "dir"
        /\ UNCHANGED <<answers, given, fd, closing, used, reads>>
    BY DEF Lists, Asks, CanAsk, Ticket, files
  <1>2. \A w \in work' : w \in work \/ w = {nextId} \/ \E v \in work : w = v \cup {nextId}
    BY SubmitsOne DEF Lists, Asks
  <1> HIDE DEF it
  <1> QED
    BY <1>1, <1>2, ParkingKeeps

\* A flush gives up the reads of its handle, and nobody else reads through it.
LEMMA GivesUpKeeps ==
    ASSUME RInv, NEW fh, NEW for, GivesUp(fh, for), ~OthersRead(fh, DOMAIN fd \ DOMAIN fd'),
           UNCHANGED <<answers, used>>,
           for.for \in used, \A i \in DOMAIN parked : parked[i].kind = "created" => parked[i].for # for.for,
           DOMAIN fd' \subseteq DOMAIN fd, \A g \in DOMAIN fd' : fd'[g] = fd[g],
           \A c \in closing' : c \in closing \/ \E g \in DOMAIN fd : c = fd[g],
           \A h \in DOMAIN reads' : \A i \in reads'[h] : h \in DOMAIN reads /\ i \in reads[h]
    PROVE  RInv'
  <1> DEFINE it == [kind |-> "empty", for |-> for.for, file |-> for.file]
  <1>1. /\ nextId' = nextId + 1 /\ parked' = With(parked, nextId, it) /\ it.kind = "empty" /\ it.for = for.for
        /\ work' = work \cup {{nextId}}
    BY DEF GivesUp, Ticket
  <1> HIDE DEF it
  <1>2. ASSUME NEW i \in given', i \notin given PROVE (\E h \in DOMAIN reads : i \in reads[h]) /\ Dead(i)'
    <2>1. i \in ReadsOf(fh)
      BY <1>2 DEF GivesUp, Abandoned
    <2>2. fh \in DOMAIN reads /\ i \in reads[fh]
      BY <2>1 DEF ReadsOf
    <2>3. i \in Known /\ nextId \notin Known
      BY <2>2 DEF RInv, Numbered, Known
    <2>4. i \in DOMAIN parked' => i \in DOMAIN parked /\ parked'[i] = parked[i]
      BY <1>1, <2>3 DEF With
    <2>5. i \in DOMAIN parked => parked[i].kind = "data" /\ parked[i].for \notin DOMAIN fd'
      BY <2>1, <2>2 DEF RInv, Files, OthersRead
    <2> QED
      BY <2>2, <2>4, <2>5 DEF Dead
  <1> QED
    BY <1>1, <1>2, ParkingKeeps

LEMMA ClosesKeepsR == ASSUME HandlesApart, RInv, NEW f, Closes(f) PROVE RInv'
  <1> DEFINE it == fd[f]
             for == [for |-> f, file |-> it.file]
  <1>1. /\ f \in DOMAIN fd /\ ~OthersRead(it.fh, {f}) /\ GivesUp(it.fh, for)
        /\ fd' = Without(fd, {f}) /\ UNCHANGED <<answers, used>>
        /\ reads' = [h \in DOMAIN reads |-> IF h = it.fh THEN {} ELSE reads[h]]
        /\ closing' = closing \/ closing' = closing \cup {fd[f]}
    BY DEF Closes, HandlesApart
  <1>2. DOMAIN fd' = DOMAIN fd \ {f} /\ \A g \in DOMAIN fd' : fd'[g] = fd[g]
    BY <1>1 DEF Without
  <1>3. DOMAIN fd \ DOMAIN fd' = {f}
    BY <1>1, <1>2
  <1>4. f \in used /\ \A i \in DOMAIN parked : parked[i].kind = "created" => parked[i].for # f
    BY <1>1 DEF RInv, Files, Newborn
  <1>5. for.for = f
    OBVIOUS
  <1>6. ~OthersRead(it.fh, DOMAIN fd \ DOMAIN fd')
    BY <1>1, <1>3
  <1>7. \A h \in DOMAIN reads' : \A i \in reads'[h] : h \in DOMAIN reads /\ i \in reads[h]
    BY <1>1
  <1> HIDE DEF it, for
  <1> QED
    BY <1>1, <1>2, <1>4, <1>5, <1>6, <1>7, GivesUpKeeps

LEMMA ReleasesKeepsR == ASSUME HandlesApart, RInv, NEW it, Releases(it) PROVE RInv'
  <1> DEFINE for == [for |-> it.file, file |-> it.file]
  <1>1. /\ it \in closing /\ closing' = closing \ {it} /\ ~OthersRead(it.fh, {}) /\ GivesUp(it.fh, for)
        /\ reads' = Without(reads, {it.fh}) /\ UNCHANGED <<answers, used, fd>>
    BY DEF Releases, HandlesApart
  <1>2. ~OthersRead(it.fh, DOMAIN fd \ DOMAIN fd')
    <2>1. DOMAIN fd \ DOMAIN fd' = {}
      BY <1>1
    <2> QED
      BY <1>1, <2>1
  <1>3. it.file \in used /\ \A i \in DOMAIN parked : parked[i].kind = "created" => parked[i].for # it.file
    BY <1>1 DEF RInv, Files, Newborn
  <1>4. for.for = it.file
    OBVIOUS
  <1>5. \A h \in DOMAIN reads' : \A i \in reads'[h] : h \in DOMAIN reads /\ i \in reads[h]
    BY <1>1 DEF Without
  <1> HIDE DEF for
  <1> QED
    BY <1>1, <1>2, <1>3, <1>4, <1>5, GivesUpKeeps

\* A call on the socket takes a ticket that the kernel's side does not hold.
LEMMA DispatchesKeeps ==
    ASSUME RInv, NEW c, Dispatches(c) PROVE RInv'
  <1>1. UNCHANGED <<parked, given, answers, fd, closing, used, reads>>
    BY DEF Dispatches, files
  <1>2. nextId' \in {nextId, nextId + 1} /\ nextId \in Nat \ {0}
    BY DEF Dispatches, CanAsk, Ticket, RInv, Numbered
  <1>3. Known \subseteq Known' /\ nextId' \in Nat \ {0} /\ Sent' = Sent
    <2>1. CASE nextId' = nextId
      BY <1>1, <1>2, <2>1 DEF Known, Sent
    <2>2. CASE nextId' = nextId + 1
      BY <1>1, <1>2, <2>2 DEF Known, Sent
    <2> QED
      BY <1>2, <2>1, <2>2
  <1>4. \A w \in work' : w \subseteq Known'
    <2>1. CASE UNCHANGED work
      BY <1>3, <2>1 DEF RInv, Numbered
    <2>2. CASE nextId' = nextId + 1 /\ Submits(TRUE)
      <3>1. nextId \in Known'
        BY <1>2, <2>2 DEF Known
      <3>2. \A w \in work' : w \in work \/ w = {nextId} \/ \E v \in work : w = v \cup {nextId}
        BY <2>2, SubmitsOne
      <3>3. \A v \in work : v \subseteq Known'
        BY <1>3 DEF RInv, Numbered
      <3> QED
        BY <3>1, <3>2, <3>3
    <2> QED
      BY <2>1, <2>2 DEF Dispatches, CanAsk, Ticket
  <1>5. Numbered'
    BY <1>1, <1>3, <1>4 DEF RInv, Numbered
  <1>6. Files' /\ \A i \in DOMAIN parked' : Newborn(i)'
    BY <1>1 DEF RInv, Files, Newborn
  <1> QED
    BY <1>1, <1>3, <1>5, <1>6 DEF RInv, Dead

\* Work becomes less, or an answer.
LEMMA EngineKeeps ==
    ASSUME RInv, UNCHANGED <<nextId, parked, fd, closing, used, reads>>,
           given' \subseteq given, \A w \in work' : \E v \in work : w \subseteq v,
           answers' \in Seq(Answer),
           \A a \in Sent' : \/ a \in Sent
                            \/ a.ids \subseteq Known /\ a.out = "ok"
                            \/ a.ids \subseteq given
    PROVE  RInv'
  <1>1. Known' = Known
    BY DEF Known
  <1>2. Numbered'
    BY <1>1 DEF RInv, Numbered
  <1>3. Files' /\ \A i \in DOMAIN parked' : Newborn(i)'
    BY DEF RInv, Files, Newborn
  <1>4. \A i : Dead(i) => Dead(i)'
    BY DEF Dead
  <1>5. \A a \in Sent' : a.out = "interrupted" => \A i \in a.ids : Dead(i)'
    BY <1>4 DEF RInv
  <1> QED
    BY <1>2, <1>3, <1>4, <1>5 DEF RInv

LEMMA FinishesKeeps == ASSUME RInv, NEW w, Finishes(w) PROVE RInv'
  <1> DEFINE a == [ids |-> w, out |-> "ok"]
  <1>1. w \subseteq Known /\ Known \subseteq Nat /\ answers \in Seq(Answer)
    BY DEF Finishes, RInv, Numbered, Known
  <1>2. a \in Answer /\ a.ids = w /\ a.out = "ok" /\ answers' = Append(answers, a)
    BY <1>1 DEF Finishes, Answer
  <1> HIDE DEF a
  <1>3. Sent' = Sent \cup {a} /\ answers' \in Seq(Answer)
    BY <1>1, <1>2, SentOn
  <1>4. UNCHANGED <<nextId, parked, given, fd, closing, used, reads>> /\ work' \subseteq work
    BY DEF Finishes, files
  <1> QED
    BY <1>1, <1>2, <1>3, <1>4, EngineKeeps

LEMMA InterruptsKeeps == ASSUME RInv, NEW id, Interrupts(id) PROVE RInv'
  <1> DEFINE a == [ids |-> {id}, out |-> "interrupted"]
  <1>1. id \in given /\ given \subseteq Nat /\ answers \in Seq(Answer)
    BY DEF Interrupts, RInv, Numbered, Known
  <1>2. a \in Answer /\ a.ids = {id} /\ answers' = Append(answers, a)
    BY <1>1 DEF Interrupts, Answer
  <1> HIDE DEF a
  <1>3. Sent' = Sent \cup {a} /\ answers' \in Seq(Answer)
    BY <1>1, <1>2, SentOn
  <1>4. UNCHANGED <<nextId, parked, fd, closing, used, reads>> /\ given' \subseteq given
    BY DEF Interrupts, files
  <1>5. \A w \in work' : \E v \in work : w \subseteq v
    BY DEF Interrupts
  <1> QED
    BY <1>1, <1>2, <1>3, <1>4, <1>5, EngineKeeps

\* The end of the session, of the engine with it, and of the daemon.
LEMMA EndsKeepR == ASSUME RInv, SessionEnds \/ RestartsDaemon PROVE RInv'
  <1>1. CASE SessionEnds
    <2>1. /\ UNCHANGED <<nextId, parked, answers, fd, closing, used, reads>> /\ given' = {} /\ work' = {}
          /\ answers \in Seq(Answer)
      BY <1>1 DEF SessionEnds, files, RInv, Numbered
    <2>2. Sent' = Sent
      BY <2>1 DEF Sent
    <2> QED
      BY <2>1, <2>2, EngineKeeps
  <1>2. CASE RestartsDaemon
    <2>1. /\ UNCHANGED <<nextId, fd, closing, used, reads>> /\ DOMAIN parked' = {}
          /\ work' = {} /\ given' = {} /\ answers' = <<>>
      BY <1>2 DEF RestartsDaemon, files, Nothing
    <2>2. Known' = Known /\ Sent' = {} /\ answers' \in Seq(Answer)
      BY <2>1, EmptySeq DEF Known, Sent
    <2> QED
      BY <2>1, <2>2 DEF RInv, Numbered, Files
  <1> QED
    BY <1>1, <1>2

\* The pump: a file that has been created gets its descriptor.
LEMMA PumpKeepsR == ASSUME RInv, Pump PROVE RInv'
  <1> DEFINE ids == Delivered(Head(answers).ids)
             new == New(ids)
  <1>1. /\ answers # <<>> /\ answers' = Tail(answers) /\ parked' = Without(parked, ids)
        /\ fd' = [f \in DOMAIN fd \cup new |-> IF f \in new THEN [file |-> f, fh |-> 0] ELSE fd[f]]
        /\ UNCHANGED <<nextId, work, given, closing, used, reads>>
    BY DEF Pump
  <1>2. \A f \in new : \E j \in DOMAIN parked : j \in ids /\ parked[j].kind = "created" /\ parked[j].for = f
    BY DEF New
  <1> HIDE DEF ids, new
  <1>3. DOMAIN parked' = DOMAIN parked \ ids /\ \A i \in DOMAIN parked' : parked'[i] = parked[i]
    BY <1>1 DEF Without
  <1>4. /\ DOMAIN fd' = DOMAIN fd \cup new /\ \A f \in new : fd'[f].file = f
        /\ \A f \in DOMAIN fd \ new : fd'[f] = fd[f]
    BY <1>1
  <1>5. \A i \in DOMAIN parked' : parked[i].kind # "dir" => parked[i].for \notin new
    BY <1>2, <1>3 DEF RInv, Newborn
  <1>6. Sent' \subseteq Sent /\ answers' \in Seq(Answer)
    BY <1>1, SentOff DEF RInv, Numbered
  <1>7. Numbered'
    <2>1. Known' = Known
      BY <1>1 DEF Known
    <2> QED
      BY <1>1, <1>3, <1>6, <2>1 DEF RInv, Numbered
  <1>8. Files'
    <2>1. new \subseteq used
      BY <1>2 DEF RInv, Files
    <2> QED
      BY <1>1, <1>3, <1>4, <2>1 DEF RInv, Files
  <1>9. ASSUME NEW i \in DOMAIN parked' PROVE Newborn(i)'
    BY <1>1, <1>3, <1>4, <1>5 DEF RInv, Newborn
  <1>10. ASSUME NEW i, Dead(i) PROVE Dead(i)'
    BY <1>3, <1>4, <1>5, <1>10 DEF Dead
  <1> QED
    BY <1>1, <1>6, <1>7, <1>8, <1>9, <1>10 DEF RInv

LEMMA NextKeepsR == ASSUME HandlesApart, RInv, [Next]_vars PROVE RInv'
  <1>1. ASSUME UNCHANGED <<tickets, files>> PROVE RInv'
    BY <1>1 DEF tickets, files, RInv, Numbered, Known, Sent, Files, Newborn, Dead
  <1>2. CASE ReadsPart
    BY <1>2, DescriptorsKeep, CreatesKeepsR, ReadsKeepsR, OthersKeepsR, ClosesKeepsR, ReleasesKeepsR
       DEF ReadsPart, In
  <1>3. CASE DirsPart
    <2>1. ASSUME NEW d, OpensDir(d) PROVE RInv'
      BY <2>1 DEF OpensDir, tickets, RInv, Numbered, Known, Sent, Files, Newborn, Dead
    <2>2. ASSUME NEW d, NEW l, EntriesChange(l) \/ Continues(d) \/ Rewinds(d) \/ ClosesDir(d) PROVE RInv'
      BY <1>1, <2>2 DEF EntriesChange, Continues, Rewinds, ClosesDir
    <2> QED
      BY <1>3, <2>1, <2>2, ListsKeepsR DEF DirsPart
  <1>4. CASE CallsPart
    <2>1. ASSUME NEW c, Calls(c) \/ WalksOn(c) PROVE RInv'
      BY <2>1, DispatchesKeeps DEF Calls, WalksOn
    <2>2. ASSUME NEW c, Connects(c) \/ Accepts(c) \/ Replies(c) \/ HangsUp(c) \/ EndOfStream(c) PROVE RInv'
      BY <1>1, <2>2 DEF Connects, Accepts, Replies, HangsUp, EndOfStream
    <2> QED
      BY <1>4, <2>1, <2>2 DEF CallsPart
  <1>5. CASE ChangesPart
    BY <1>1, <1>5, EndsKeepR DEF ChangesPart, Announces, Pulls, Watches, Pushes
  <1>6. CASE EndPart
    BY <1>1, <1>6, EndsKeepR DEF EndPart, Mounts, Runs, Signals, SomebodyUnmounts, ThreadLooks, TearsDown
  <1>7. CASE Engine
    BY <1>7, PumpKeepsR, FinishesKeeps, InterruptsKeeps DEF Engine
  <1>8. CASE UNCHANGED vars
    BY <1>1, <1>8 DEF vars
  <1> QED
    BY <1>2, <1>3, <1>4, <1>5, <1>6, <1>7, <1>8 DEF Next

\* A flush gives up the reads of the handle it is for: as long as no two
\* descriptors that are open share one, whoever is told that his read was
\* interrupted has closed it. (fs.rs flush, release, abandon_reads; dispatch.rs
\* Replies; runtime.rs abandon.)
THEOREM NobodyAliveIsInterrupted == ASSUME HandlesApart PROVE Spec => OnlyTheDeadAreInterrupted
  <1>1. Init => RInv
    BY InitRInv
  <1>2. RInv /\ [Next]_vars => RInv'
    BY NextKeepsR
  <1>3. RInv /\ [Next]_vars =>
          [Pump /\ Head(answers).out = "interrupted" =>
             \A id \in Head(answers).ids \cap DOMAIN parked : parked[id].for \notin DOMAIN fd]_vars
    <2> SUFFICES ASSUME RInv, Pump, Head(answers).out = "interrupted",
                        NEW id \in Head(answers).ids \cap DOMAIN parked
                 PROVE  parked[id].for \notin DOMAIN fd
      OBVIOUS
    <2>1. Head(answers) \in Sent
      <3>1. answers \in Seq(Answer) /\ answers # <<>> /\ answers' = Tail(answers)
        BY DEF RInv, Numbered, Pump
      <3> QED
        BY <3>1, SentOff
    <2> QED
      BY <2>1 DEF RInv, Dead
  <1> QED
    BY <1>1, <1>2, <1>3, PTL DEF Spec, OnlyTheDeadAreInterrupted

-----------------------------------------------------------------------------
(* The end of the mount.                                                    *)

\* The process is not killed before its handlers are there.
SignalsHandled == "early signal" \notin Perils

\* The mount is there only while a process is that takes it down.
Minded ==
    /\ mount \in [process : {"starting", "attached", "serving", "ended"}, session : {"none", "running", "over"},
                  mounted : BOOLEAN, signal : BOOLEAN, finished : BOOLEAN,
                  thread : {"none", "polling", "gone"}]
    /\ mount.process \in {"starting", "ended"} => ~mount.mounted

\* However the session ends -- by a signal, by somebody's umount, by an error of
\* its own -- the process that is gone leaves no mount behind. (main.rs Teardown;
\* unmount_on_signal; Session::run.)
THEOREM NoMountIsLeft == ASSUME SignalsHandled PROVE Spec => []NoStumpIsLeft
  <1>1. Init => Minded
    BY DEF Init, Minded
  <1>2. Minded /\ [Next]_vars => Minded'
    <2> SUFFICES ASSUME Minded, [Next]_vars PROVE Minded'
      OBVIOUS
    <2>1. ASSUME UNCHANGED mount PROVE Minded'
      BY <2>1 DEF Minded
    <2>2. CASE ReadsPart
      BY <2>1, <2>2 DEF ReadsPart, Opens, Creates, Reads, Others, Closes, Duplicates, Releases
    <2>3. CASE DirsPart
      BY <2>1, <2>3 DEF DirsPart, EntriesChange, OpensDir, Continues, Lists, Rewinds, ClosesDir
    <2>4. CASE CallsPart
      BY <2>1, <2>4 DEF CallsPart, Connects, Accepts, Calls, WalksOn, Dispatches, Replies, HangsUp, EndOfStream
    <2>5. CASE ChangesPart
      BY <2>1, <2>5 DEF ChangesPart, Announces, RestartsDaemon, Pulls, Watches, Pushes
    <2>6. CASE EndPart
      <3>1. CASE Mounts \/ Runs \/ SomebodyUnmounts
        BY <3>1 DEF Minded, Mounts, Runs, SomebodyUnmounts
      <3>2. CASE Signals
        BY <3>2 DEF Minded, Signals, Alive, SignalsHandled
      <3>3. CASE ThreadLooks \/ SessionEnds
        BY <3>3 DEF Minded, ThreadLooks, SessionEnds
      <3>4. CASE TearsDown
        BY <3>4 DEF Minded, TearsDown, TornDown
      <3> QED
        BY <2>6, <3>1, <3>2, <3>3, <3>4 DEF EndPart
    <2>7. CASE Engine
      BY <2>1, <2>7 DEF Engine, Pump, Finishes, Interrupts
    <2>8. CASE UNCHANGED vars
      BY <2>1, <2>8 DEF vars
    <2> QED
      BY <2>2, <2>3, <2>4, <2>5, <2>6, <2>7, <2>8 DEF Next
  <1>3. Minded => NoStumpIsLeft
    BY DEF Minded, NoStumpIsLeft
  <1> QED
    BY <1>1, <1>2, <1>3, PTL DEF Spec
=============================================================================
