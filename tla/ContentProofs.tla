---------------------------- MODULE ContentProofs ---------------------------
(***************************************************************************)
(* That a cached copy is what its sidecar says, that an editor is never    *)
(* handed older bytes than its upload will claim to be based on, and that  *)
(* what is kept on purpose is not evicted. The first two rest on a premise, *)
(* the third on none; its lemmas are named K... after its invariant.        *)
(***************************************************************************)
EXTENDS Content, SequenceTheorems, TLAPS

-----------------------------------------------------------------------------
(* What is published. Everybody who works on a file works on the version    *)
(* its row lists and downloads what the server has, which is no older; one  *)
(* at a time has <id>.part, so no bytes change under another's hands.       *)

\* No publisher works on another version than the row's, and no two stage at once.
Orderly == {"late publisher", "late request", "stale auto", "shared staging"} \cap Perils = {}

NoneOlder(b, v) == \A i \in DOMAIN b : b[i] >= v

\* What a run of reads has collected and prefetched is no older than its etag.
Collected(x) ==
    /\ x = [etag |-> x.etag, next |-> x.next, run |-> x.run, start |-> x.start, buf |-> x.buf,
            spill |-> [name |-> x.spill.name, bytes |-> x.spill.bytes]]
    /\ x.etag \in Nat /\ x.start \in Nat /\ x.buf \in Seq(Versions) /\ x.spill.bytes \in Seq(Versions)
    /\ NoneOlder(x.buf, x.etag) /\ NoneOlder(x.spill.bytes, x.etag)

Fetching == {"pin", "auto", "fill", "refill"}
Through  == Fetching \cup {"store"}         \* what goes through <id>.part
Staging(j) == j.op \in Through /\ j.pc \in {"stream", "bare", "rename"}

Job(j) ==
    /\ j = [op |-> j.op, file |-> j.file, etag |-> j.etag, pc |-> j.pc, off |-> j.off, win |-> j.win,
            bytes |-> j.bytes, doomed |-> j.doomed, lock |-> j.lock, guard |-> j.guard, at |-> j.at,
            going |-> j.going]
    /\ Collected(j.win) /\ j.bytes \in Seq(Versions) /\ j.off \in Nat
    /\ j.at = IF Staging(j) THEN "part" ELSE "nowhere"

\* Everybody works on the version the row lists.
Abreast(j) == j.pc # "idle" => j.file \in Files /\ j.etag = row[j.file]

\* Where in its operation a thread can be.
Placed(j) ==
    /\ j.pc \in {"look", "local", "window", "fetch"} => j.op = "read"
    /\ j.pc \in {"lock", "wait"} => j.op \in Fetching
    /\ j.pc \in {"open", "direct"} => j.op \in {"fill", "refill"}
    /\ j.pc \in {"stage", "stream"} => j.op \in Through \cup {"hydrate"}
    /\ j.pc \in {"bare", "rename"} => j.op \in Through \cup {"hydrate", "read"}

\* The bytes a thread has in its hands.
Carries(j) ==
    /\ j.op \in {"fill", "refill", "store"} /\ j.bytes # <<>> => NoOlder(j.bytes, j.etag)
    /\ j.op \in {"fill", "refill"} /\ j.pc \in {"evict", "doom", "doomed", "done"} => j.bytes # <<>>
    /\ j.op = "store" /\ j.pc \in {"stage", "stream"} => j.bytes # <<>>
    /\ j.pc = "filled" => j.op \in {"fill", "refill"} /\ j.bytes # <<>>
    /\ j.op = "hydrate" /\ j.pc \in {"bare", "rename"} => NoOlder(j.bytes, j.etag)
    /\ j.op = "read" /\ j.pc \in {"fetch", "bare", "rename"} => j.win.etag = j.etag
    /\ j.op = "read" /\ j.pc \in {"bare", "rename"} => Len(j.win.spill.bytes) = Length[j.etag]

\* What it finds on the disk.
Finds(j) ==
    /\ j.op \in Through /\ j.pc \in {"bare", "rename"} /\ part[j.file].there => NoOlder(part[j.file].bytes, j.etag)
    /\ j.pc = "rename" => sidecar[j.file] \in {NoVersion, j.etag}
    /\ j.pc \in {"seal", "open"} /\ blob[j.file].there => NoOlder(blob[j.file].bytes, j.etag)

Sound(j) == Job(j) /\ Abreast(j) /\ Placed(j) /\ Carries(j) /\ Finds(j)

Typed ==
    /\ row \in [Files -> Versions] /\ server \in [Files -> Versions] /\ \A f \in Files : row[f] <= server[f]
    /\ sidecar \in [Files -> Versions \cup {NoVersion}]
    /\ blob \in [Files -> [there : BOOLEAN, bytes : Seq(Versions)]]
    /\ part \in [Files -> [there : BOOLEAN, bytes : Seq(Versions)]]
    /\ windows = [f \in Files |-> windows[f]] /\ \A f \in Files : Collected(windows[f])
    /\ requests \in Seq([file : Files, etag : Versions])
    /\ work = [w \in Threads |-> work[w]]

Apart == \A v, w \in Threads : Staging(work[v]) /\ Staging(work[w]) /\ work[v].file = work[w].file => v = w
Asked == \A i \in DOMAIN requests : requests[i].etag = row[requests[i].file]
Claims(f) == blob[f].there /\ sidecar[f] # NoVersion => NoOlder(blob[f].bytes, sidecar[f])

CInv == Typed /\ Apart /\ Asked /\ (\A f \in Files : Claims(f)) /\ \A w \in Threads : Sound(work[w])

-----------------------------------------------------------------------------
(* Bytes.                                                                  *)

LEMMA VersionsAre ==
    /\ Versions \subseteq Nat \ {0} /\ NoVersion = 0
    /\ \A v \in Versions : Length[v] \in Nat \ {0}
  <1>1. Len(Length) \in Nat /\ Versions = 1..Len(Length)
    BY ContentAssumption, LenProperties DEF Versions
  <1>2. \A v \in 1..Len(Length) : Length[v] \in Nat \ {0}
    BY ContentAssumption, ElementOfSeq
  <1> QED
    BY <1>1, <1>2 DEF NoVersion

LEMMA BytesAre ==
    ASSUME NEW v \in Versions
    PROVE  /\ Bytes(v) \in Seq(Versions) /\ Len(Bytes(v)) = Length[v] /\ Bytes(v) # <<>>
           /\ \A i \in DOMAIN Bytes(v) : Bytes(v)[i] = v
  <1>1. Length[v] \in Nat \ {0}
    BY VersionsAre
  <1> DEFINE b == [i \in 1..Length[v] |-> v]
  <1>2. b \in Seq(Versions) /\ Len(b) = Length[v] /\ \A i \in DOMAIN b : b[i] = v
    BY <1>1, IsASeq
  <1>3. b = Bytes(v)
    BY DEF Bytes
  <1> HIDE DEF b
  <1>4. b # <<>>
    BY <1>1, <1>2, EmptySeq
  <1> QED
    BY <1>2, <1>3, <1>4

\* A download that is not cut short.
LEMMA NewerIsNoOlder ==
    ASSUME NEW u \in Versions, NEW v \in Versions, v <= u, Length[u] >= Length[v]
    PROVE  NoOlder(Bytes(u), v)
  BY BytesAre, VersionsAre DEF NoOlder

LEMMA NoOlderIsThere ==
    ASSUME NEW b \in Seq(Versions), NEW v \in Versions, NoOlder(b, v) PROVE b # <<>>
  BY VersionsAre, EmptySeq DEF NoOlder

-----------------------------------------------------------------------------
(* One thread moves, the others stay where they are.                        *)

Only(w, j) == work' = [v \in Threads |-> IF v = w THEN j ELSE work[v]]

LEMMA Moves ==
    ASSUME CInv, NEW w \in Threads, NEW j, Only(w, j), row' = row, Typed',
           Job(j), Abreast(j), Placed(j), Carries(j), Asked',
           Staging(j) => \A v \in Threads \ {w} : Staging(work[v]) => work[v].file # j.file,
           \A v \in Threads : Finds(work[v])',
           \A f \in Files : Claims(f)'
    PROVE  CInv'
  <1>1. work'[w] = j /\ \A v \in Threads \ {w} : work'[v] = work[v]
    BY DEF Only
  <1>2. ASSUME NEW v \in Threads PROVE Sound(work[v])'
    <2>1. CASE v = w
      BY <1>1, <2>1 DEF Sound, Job, Abreast, Placed, Carries, Staging
    <2>2. CASE v # w
      BY <1>1, <2>2 DEF CInv, Sound, Job, Abreast, Placed, Carries, Staging
    <2> QED
      BY <2>1, <2>2
  <1>3. Apart'
    <2> SUFFICES ASSUME NEW v \in Threads, NEW u \in Threads,
                        Staging(work'[v]), Staging(work'[u]), work'[v].file = work'[u].file
                 PROVE  v = u
      BY DEF Apart, Staging
    <2> QED
      BY <1>1 DEF CInv, Apart
  <1> QED
    BY <1>2, <1>3 DEF CInv

LEMMA Stands ==
    ASSUME CInv, NEW w \in Threads, NEW j, Only(w, j),
           UNCHANGED <<row, server, blob, sidecar, part, windows, requests>>,
           Sound(j), Staging(j) => Staging(work[w]) /\ j.file = work[w].file
    PROVE  CInv'
  <1>1. work'[w] = j /\ (\A v \in Threads \ {w} : work'[v] = work[v]) /\ work' = [v \in Threads |-> work'[v]]
    BY DEF Only
  <1>2. Typed' /\ Asked' /\ \A f \in Files : Claims(f)'
    BY <1>1 DEF CInv, Typed, Asked, Claims
  <1>3. \A v \in Threads : Finds(work[v])'
    BY <1>1 DEF CInv, Sound, Finds
  <1>4. Staging(j) => \A v \in Threads \ {w} : Staging(work[v]) => work[v].file # j.file
    BY DEF CInv, Apart
  <1> QED
    BY <1>2, <1>3, <1>4, Moves DEF Sound

\* A thread that is done.
LEMMA IdleIsSound == Sound(Idle) /\ ~Staging(Idle)
  <1>1. Collected(NoWindow)
    <2> DEFINE x == NoWindow
    <2>1. x = [etag |-> x.etag, next |-> x.next, run |-> x.run, start |-> x.start, buf |-> x.buf,
               spill |-> [name |-> x.spill.name, bytes |-> x.spill.bytes]]
      BY DEF NoWindow, NoSpill
    <2>2. x.etag = 0 /\ x.start = 0 /\ x.buf = <<>> /\ x.spill.bytes = <<>>
      BY DEF NoWindow, NoSpill, NoVersion
    <2>3. <<>> \in Seq(Versions) /\ \A v : NoneOlder(<<>>, v)
      BY EmptySeq DEF NoneOlder
    <2> HIDE DEF x
    <2>4. Collected(x)
      BY <2>1, <2>2, <2>3 DEF Collected
    <2> QED
      BY <2>4 DEF x
  <1> QED
    BY <1>1, EmptySeq DEF Sound, Job, Abreast, Placed, Carries, Finds, Staging, Idle

LEMMA Idles ==
    ASSUME CInv, NEW w \in Threads, Finishes(w),
           UNCHANGED <<row, server, blob, sidecar, part, windows, requests>>
    PROVE  CInv'
  <1>1. Only(w, Idle)
    BY DEF Finishes, Only, CInv, Typed
  <1> QED
    BY <1>1, IdleIsSound, Stands

\* The next place, and nothing else of the thread's.
LEMMA Turned ==
    ASSUME CInv, NEW w \in Threads, NEW p, Goes(w, p)
    PROVE  \E j : /\ Only(w, j) /\ j.pc = p
                  /\ j.op = work[w].op /\ j.file = work[w].file /\ j.etag = work[w].etag
                  /\ j.win = work[w].win /\ j.bytes = work[w].bytes
                  /\ (Staging(j) <=> Staging(work[w])) => Job(j)
  <1> DEFINE i == work[w]
             j == [i EXCEPT !.pc = p]
  <1>1. Only(w, j)
    BY DEF Goes, Only, CInv, Typed
  <1>2. Job(i)
    BY DEF CInv, Sound
  <1> HIDE DEF i
  <1>3. /\ j = [op |-> i.op, file |-> i.file, etag |-> i.etag, pc |-> p, off |-> i.off, win |-> i.win,
                bytes |-> i.bytes, doomed |-> i.doomed, lock |-> i.lock, guard |-> i.guard, at |-> i.at,
                going |-> i.going]
    BY <1>2 DEF Job
  <1> HIDE DEF j
  <1>4. /\ j.op = i.op /\ j.file = i.file /\ j.etag = i.etag /\ j.pc = p /\ j.off = i.off /\ j.win = i.win
        /\ j.bytes = i.bytes /\ j.doomed = i.doomed /\ j.lock = i.lock /\ j.guard = i.guard /\ j.at = i.at
        /\ j.going = i.going
    BY <1>3
  <1>5. (Staging(j) <=> Staging(i)) => Job(j)
    BY <1>2, <1>3, <1>4 DEF Job
  <1> QED
    BY <1>1, <1>4, <1>5 DEF i

\* From a place to another where no file is staged, with what is true there.
LEMMA GoesOn ==
    ASSUME CInv, NEW w \in Threads, NEW p, Goes(w, p), work[w].pc # "idle", ~Staging(work[w]),
           p \notin {"stream", "bare", "rename"},
           UNCHANGED <<row, server, blob, sidecar, part, windows, requests>>,
           p \in {"look", "local", "window", "fetch"} => work[w].op = "read",
           p \in {"lock", "wait"} => work[w].op \in Fetching,
           p \in {"open", "direct"} => work[w].op \in {"fill", "refill"},
           p \in {"stage", "stream"} => work[w].op \in Through \cup {"hydrate"},
           work[w].op \in {"fill", "refill"} /\ p \in {"evict", "doom", "doomed", "done"} => work[w].bytes # <<>>,
           work[w].op = "store" /\ p = "stage" => work[w].bytes # <<>>,
           p = "filled" => work[w].op \in {"fill", "refill"} /\ work[w].bytes # <<>>,
           work[w].op = "read" => p # "fetch",
           p \in {"seal", "open"} /\ blob[work[w].file].there => NoOlder(blob[work[w].file].bytes, work[w].etag)
    PROVE  CInv'
  <1>1. PICK j : /\ Only(w, j) /\ j.pc = p
                 /\ j.op = work[w].op /\ j.file = work[w].file /\ j.etag = work[w].etag
                 /\ j.win = work[w].win /\ j.bytes = work[w].bytes
                 /\ (Staging(j) <=> Staging(work[w])) => Job(j)
    BY Turned
  <1>2. Sound(work[w])
    BY DEF CInv
  <1>3. ~Staging(j) /\ Job(j)
    BY <1>1 DEF Staging
  <1>4. Abreast(j) /\ Placed(j)
    BY <1>1, <1>2 DEF Sound, Abreast, Placed
  <1>5. Carries(j) /\ Finds(j)
    BY <1>1, <1>2 DEF Sound, Carries, Finds
  <1> QED
    BY <1>1, <1>3, <1>4, <1>5, Stands DEF Sound

Frame == UNCHANGED <<row, server, blob, sidecar, part, windows, requests>>

LEMMA LooksKeeps == ASSUME CInv, NEW w \in Threads, Looks(w) \/ ReadsBlob(w) \/ ServesOutdated(w) PROVE CInv'
  <1>1. Frame
    BY DEF Looks, ReadsBlob, ServesOutdated, facts, disk, memory, Frame
  <1>2. work[w].op = "read" /\ work[w].pc \in {"look", "local"}
    BY DEF Looks, ReadsBlob, ServesOutdated, At, CInv, Sound, Placed
  <1>3. Goes(w, "local") \/ Goes(w, "window") \/ Finishes(w)
    BY DEF Looks, ReadsBlob, ServesOutdated
  <1>4. ~Staging(work[w])
    BY <1>2 DEF Staging
  <1> QED
    BY <1>1, <1>2, <1>3, <1>4, GoesOn, Idles DEF Frame

LEMMA MarksKeeps == ASSUME CInv, NEW w \in Threads, Marks(w) \/ HandsOver(w) PROVE CInv'
  <1>1. Frame
    BY DEF Marks, HandsOver, facts, disk, memory, Frame
  <1>2. Finishes(w) \/ (Goes(w, "unlock") /\ work[w].pc = "mark")
    BY DEF Marks, HandsOver, At
  <1>3. work[w].pc = "mark" => ~Staging(work[w])
    BY DEF Staging
  <1> QED
    BY <1>1, <1>2, <1>3, GoesOn, Idles DEF Frame

Told(op, file, etag, pc, off, win, bytes, doomed, lock, guard, at, going) ==
    [op |-> op, file |-> file, etag |-> etag, pc |-> pc, off |-> off, win |-> win, bytes |-> bytes,
     doomed |-> doomed, lock |-> lock, guard |-> guard, at |-> at, going |-> going]

\* What windows and requests may become while a thread moves.
Reading == /\ UNCHANGED <<row, server, blob, sidecar, part>>
           /\ windows' = [f \in Files |-> windows'[f]] /\ \A f \in Files : Collected(windows'[f])
           /\ requests' \in Seq([file : Files, etag : Versions])
           /\ \A i \in DOMAIN requests' : requests'[i].etag = row[requests'[i].file]

LEMMA FrameIsReading == ASSUME CInv, Frame PROVE Reading
  BY DEF CInv, Typed, Asked, Frame, Reading

\* What a thread at i may become where no file is staged.
Fits(i, op, pc, win, bytes) ==
    /\ ~(op \in Through /\ pc \in {"stream", "bare", "rename"}) /\ Collected(win) /\ bytes \in Seq(Versions)
    /\ pc \in {"look", "local", "window", "fetch"} => op = "read"
    /\ pc \in {"lock", "wait"} => op \in Fetching
    /\ pc \in {"open", "direct"} => op \in {"fill", "refill"}
    /\ pc \in {"stage", "stream"} => op \in Through \cup {"hydrate"}
    /\ pc \in {"bare", "rename"} => op = "read" /\ pc = "bare"
    /\ op \in {"fill", "refill", "store"} /\ bytes # <<>> => NoOlder(bytes, i.etag)
    /\ op \in {"fill", "refill"} /\ pc \in {"evict", "doom", "doomed", "done"} => bytes # <<>>
    /\ op = "store" /\ pc \in {"stage", "stream"} => bytes # <<>>
    /\ pc = "filled" => op \in {"fill", "refill"} /\ bytes # <<>>
    /\ op = "read" /\ pc \in {"fetch", "bare", "rename"} => win.etag = i.etag
    /\ op = "read" /\ pc \in {"bare", "rename"} => Len(win.spill.bytes) = Length[i.etag]
    /\ pc \in {"seal", "open"} /\ blob[i.file].there => NoOlder(blob[i.file].bytes, i.etag)

LEMMA Turns ==
    ASSUME CInv, NEW w \in Threads, Reading,
           NEW op, NEW pc, NEW win, NEW bytes, NEW doomed, NEW lock, NEW guard,
           Only(w, Told(op, work[w].file, work[w].etag, pc, work[w].off, win, bytes, doomed, lock, guard,
                        work[w].at, work[w].going)),
           work[w].pc # "idle", ~Staging(work[w]), Fits(work[w], op, pc, win, bytes)
    PROVE  CInv'
  <1> DEFINE i == work[w]
             j == Told(op, i.file, i.etag, pc, i.off, win, bytes, doomed, lock, guard, i.at, i.going)
  <1>1. Only(w, j)
    OBVIOUS
  <1>2. Sound(i)
    BY DEF CInv
  <1>3. /\ j = [op |-> op, file |-> i.file, etag |-> i.etag, pc |-> pc, off |-> i.off, win |-> win,
                bytes |-> bytes, doomed |-> doomed, lock |-> lock, guard |-> guard, at |-> i.at, going |-> i.going]
    BY DEF Told
  <1>4. i.pc # "idle" /\ ~Staging(i)
    OBVIOUS
  <1> HIDE DEF i
  <1> HIDE DEF j
  <1>5. /\ j.op = op /\ j.file = i.file /\ j.etag = i.etag /\ j.pc = pc /\ j.off = i.off /\ j.win = win
        /\ j.bytes = bytes /\ j.doomed = doomed /\ j.lock = lock /\ j.guard = guard /\ j.at = i.at
        /\ j.going = i.going
    BY <1>3
  <1>6. ~Staging(j)
    BY <1>5 DEF Staging, Fits
  <1>7. Job(j)
    BY <1>2, <1>3, <1>4, <1>5, <1>6 DEF Sound, Job, Fits, i
  <1>8. Abreast(j)
    BY <1>2, <1>4, <1>5 DEF Sound, Abreast
  <1>9. Placed(j) /\ Carries(j) /\ Finds(j)
    BY <1>5 DEF Placed, Carries, Finds, Fits, i
  <1>10. Typed' /\ Asked' /\ \A f \in Files : Claims(f)'
    BY <1>1 DEF Only, Reading, CInv, Typed, Asked, Claims
  <1>11. \A v \in Threads : Finds(work[v])'
    <2>1. work'[w] = j /\ \A v \in Threads \ {w} : work'[v] = work[v]
      BY <1>1 DEF Only
    <2>2. UNCHANGED <<blob, sidecar, part>>
      BY DEF Reading
    <2> QED
      BY <1>9, <2>1, <2>2 DEF CInv, Sound, Finds
  <1> QED
    BY <1>1, <1>6, <1>7, <1>8, <1>9, <1>10, <1>11, Moves DEF Reading

\* How the record of a thread is changed.
LEMMA Changed ==
    ASSUME CInv, NEW w \in Threads, NEW j, work' = [work EXCEPT ![w] = j] PROVE Only(w, j)
  BY DEF Only, CInv, Typed

LEMMA IsTold ==
    ASSUME CInv, NEW w \in Threads
    PROVE  LET i == work[w] IN
           i = Told(i.op, i.file, i.etag, i.pc, i.off, i.win, i.bytes, i.doomed, i.lock, i.guard, i.at, i.going)
  BY DEF CInv, Sound, Job, Told

LEMMA TakesLockKeeps == ASSUME CInv, NEW w \in Threads, TakesLock(w) PROVE CInv'
  <1> DEFINE i == work[w]
             lock == IF slot[i.file] = NoOne THEN w ELSE slot[i.file]
             j == Told(i.op, i.file, i.etag, "wait", i.off, i.win, i.bytes, i.doomed, lock, i.guard, i.at, i.going)
  <1>1. i.pc = "lock" /\ Reading
    BY FrameIsReading DEF TakesLock, At, facts, disk, memory, Frame
  <1>2. Only(w, j)
    <2> DEFINE k == [i EXCEPT !.pc = "wait", !.lock = lock]
    <2>1. work' = [work EXCEPT ![w] = k]
      BY DEF TakesLock
    <2>2. i = Told(i.op, i.file, i.etag, i.pc, i.off, i.win, i.bytes, i.doomed, i.lock, i.guard, i.at, i.going)
      BY IsTold
    <2>3. k = j
      <3> HIDE DEF i, lock
      <3> SUFFICES ASSUME NEW x, x = k PROVE x = j
        OBVIOUS
      <3> QED
        BY <2>2 DEF Told
    <2> HIDE DEF k
    <2> QED
      BY <2>1, <2>3, Changed
  <1>3. Sound(i) /\ ~Staging(i) /\ i.op \in Fetching
    BY <1>1 DEF CInv, Sound, Placed, Staging
  <1> HIDE DEF lock
  <1>4. Collected(i.win) /\ i.bytes \in Seq(Versions)
    BY <1>3 DEF Sound, Job
  <1>5. i.op \in {"fill", "refill", "store"} /\ i.bytes # <<>> => NoOlder(i.bytes, i.etag)
    BY <1>3 DEF Sound, Carries
  <1>6. Fits(i, i.op, "wait", i.win, i.bytes)
    BY <1>3, <1>4, <1>5 DEF Fits, Fetching
  <1> QED
    BY <1>1, <1>2, <1>3, <1>6, Turns

LEMMA Holds ==
    ASSUME CInv, NEW w \in Threads
    PROVE  LET i == work[w] IN
           /\ Collected(i.win) /\ i.bytes \in Seq(Versions)
           /\ i.op \in {"fill", "refill", "store"} /\ i.bytes # <<>> => NoOlder(i.bytes, i.etag)
           /\ i.pc # "idle" => i.file \in Files /\ i.etag = row[i.file] /\ i.etag \in Versions
                               /\ row[i.file] <= server[i.file] /\ server[i.file] \in Versions
           /\ Placed(i) /\ Carries(i) /\ Finds(i)
  BY DEF CInv, Typed, Sound, Job, Abreast, Carries

\* A fresh copy is what somebody finds who works on the version it claims.
LEMMA FreshIsGood ==
    ASSUME CInv, NEW f \in Files, NEW v \in Versions, Fresh(f, v) PROVE NoOlder(blob[f].bytes, v)
  <1>1. v # NoVersion
    BY VersionsAre
  <1> QED
    BY <1>1 DEF CInv, Claims, Fresh

LEMMA EntersKeeps == ASSUME CInv, NEW w \in Threads, Enters(w) PROVE CInv'
  <1> DEFINE i == work[w]
             pc == IF Fresh(i.file, i.etag) THEN AfterFetch(i.op) ELSE "stage"
             k == [i EXCEPT !.guard = TRUE, !.pc = pc]
             j == Told(i.op, i.file, i.etag, pc, i.off, i.win, i.bytes, i.doomed, i.lock, TRUE, i.at, i.going)
  <1>1. i.pc = "wait" /\ Reading
    BY FrameIsReading DEF Enters, At, facts, disk, memory, Frame
  <1>2. Only(w, j)
    <2>1. work' = [work EXCEPT ![w] = k]
      BY DEF Enters
    <2>2. i = Told(i.op, i.file, i.etag, i.pc, i.off, i.win, i.bytes, i.doomed, i.lock, i.guard, i.at, i.going)
      BY IsTold
    <2>3. k = j
      <3> HIDE DEF i, pc
      <3> SUFFICES ASSUME NEW x, x = k PROVE x = j
        OBVIOUS
      <3> QED
        BY <2>2 DEF Told
    <2> HIDE DEF k
    <2> QED
      BY <2>1, <2>3, Changed
  <1>3. i.op \in Fetching /\ ~Staging(i)
    BY <1>1, Holds DEF Placed, Staging
  <1>4. pc = "open" => i.op \in {"fill", "refill"}
    BY <1>3 DEF AfterFetch, Keeping, Fetching
  <1>5. pc = "open" => NoOlder(blob[i.file].bytes, i.etag)
    BY <1>1, Holds, FreshIsGood
  <1>6. pc \in {"open", "mark", "stage"}
    BY DEF AfterFetch
  <1>7. Fits(i, i.op, pc, i.win, i.bytes)
    <2> HIDE DEF pc
    <2> QED
      BY <1>3, <1>4, <1>5, <1>6, Holds DEF Fits, Fetching, Through
  <1> HIDE DEF pc
  <1> QED
    BY <1>1, <1>2, <1>3, <1>7, Turns

LEMMA OpensKeeps == ASSUME CInv, NEW w \in Threads, Opens(w) PROVE CInv'
  <1> DEFINE i == work[w]
             b == blob[i.file]
             bytes == IF b.there THEN b.bytes ELSE <<>>
             k == [i EXCEPT !.pc = "unlock", !.bytes = bytes]
             j == Told(i.op, i.file, i.etag, "unlock", i.off, i.win, bytes, i.doomed, i.lock, i.guard, i.at, i.going)
  <1>1. i.pc = "open" /\ Reading
    BY FrameIsReading DEF Opens, At, facts, disk, memory, Frame
  <1>2. Only(w, j)
    <2>1. work' = [work EXCEPT ![w] = k]
      BY DEF Opens
    <2>2. i = Told(i.op, i.file, i.etag, i.pc, i.off, i.win, i.bytes, i.doomed, i.lock, i.guard, i.at, i.going)
      BY IsTold
    <2>3. k = j
      <3> HIDE DEF i, bytes
      <3> SUFFICES ASSUME NEW x, x = k PROVE x = j
        OBVIOUS
      <3> QED
        BY <2>2 DEF Told
    <2> HIDE DEF k
    <2> QED
      BY <2>1, <2>3, Changed
  <1>3. ~Staging(i) /\ i.file \in Files
    BY <1>1, Holds DEF Staging
  <1>4. bytes \in Seq(Versions)
    BY <1>3, EmptySeq DEF CInv, Typed
  <1>5. bytes # <<>> => NoOlder(bytes, i.etag)
    BY <1>1, Holds DEF Finds
  <1> HIDE DEF bytes
  <1>6. Fits(i, i.op, "unlock", i.win, bytes)
    BY <1>4, <1>5, Holds DEF Fits
  <1> QED
    BY <1>1, <1>2, <1>3, <1>6, Turns

LEMMA UnlocksKeeps == ASSUME CInv, NEW w \in Threads, Unlocks(w) PROVE CInv'
  <1> DEFINE i == work[w]
             k == [i EXCEPT !.pc = "collect", !.guard = FALSE, !.lock = NoOne]
             j == Told(i.op, i.file, i.etag, "collect", i.off, i.win, i.bytes, i.doomed, NoOne, FALSE, i.at, i.going)
  <1>1. i.pc = "unlock" /\ Reading
    BY FrameIsReading DEF Unlocks, At, facts, disk, memory, Frame
  <1>2. Only(w, j)
    <2>1. work' = [work EXCEPT ![w] = k]
      BY DEF Unlocks
    <2>2. i = Told(i.op, i.file, i.etag, i.pc, i.off, i.win, i.bytes, i.doomed, i.lock, i.guard, i.at, i.going)
      BY IsTold
    <2>3. k = j
      <3> HIDE DEF i
      <3> SUFFICES ASSUME NEW x, x = k PROVE x = j
        OBVIOUS
      <3> QED
        BY <2>2 DEF Told
    <2> HIDE DEF k
    <2> QED
      BY <2>1, <2>3, Changed
  <1>3. ~Staging(i)
    BY <1>1 DEF Staging
  <1>4. Fits(i, i.op, "collect", i.win, i.bytes)
    BY Holds DEF Fits
  <1> QED
    BY <1>1, <1>2, <1>3, <1>4, Turns

LEMMA CollectsKeeps == ASSUME CInv, NEW w \in Threads, Collects(w) PROVE CInv'
  <1>1. work[w].pc = "collect" /\ Frame
    BY DEF Collects, At, facts, disk, Frame
  <1>2. Finishes(w) \/ (Goes(w, "evict") /\ work[w].bytes # <<>>)
    BY DEF Collects
  <1>3. ~Staging(work[w])
    BY <1>1 DEF Staging
  <1> QED
    BY <1>1, <1>2, <1>3, GoesOn, Idles DEF Frame

LEMMA PicksDoomedKeeps == ASSUME CInv, NEW w \in Threads, PicksDoomed(w) PROVE CInv'
  <1> DEFINE i == work[w]
  <1>1. i.pc = "evict" /\ Reading
    BY FrameIsReading DEF PicksDoomed, At, facts, disk, memory, Frame
  <1>2. PICK D : work' = [work EXCEPT ![w] = [i EXCEPT !.doomed = D, !.pc = IF D = {} THEN "done" ELSE "doom"]]
    BY DEF PicksDoomed
  <1> DEFINE pc == IF D = {} THEN "done" ELSE "doom"
             k == [i EXCEPT !.doomed = D, !.pc = pc]
             j == Told(i.op, i.file, i.etag, pc, i.off, i.win, i.bytes, D, i.lock, i.guard, i.at, i.going)
  <1>3. Only(w, j)
    <2>1. work' = [work EXCEPT ![w] = k]
      BY <1>2
    <2>2. i = Told(i.op, i.file, i.etag, i.pc, i.off, i.win, i.bytes, i.doomed, i.lock, i.guard, i.at, i.going)
      BY IsTold
    <2>3. k = j
      <3> HIDE DEF i, pc
      <3> SUFFICES ASSUME NEW x, x = k PROVE x = j
        OBVIOUS
      <3> QED
        BY <2>2 DEF Told
    <2> HIDE DEF k
    <2> QED
      BY <2>1, <2>3, Changed
  <1>4. ~Staging(i) /\ pc \in {"done", "doom"}
    BY <1>1 DEF Staging
  <1> HIDE DEF pc
  <1>5. i.op \in {"fill", "refill"} => i.bytes # <<>>
    BY <1>1, Holds DEF Carries
  <1>6. Fits(i, i.op, pc, i.win, i.bytes)
    BY <1>4, <1>5, Holds DEF Fits
  <1> QED
    BY <1>1, <1>3, <1>4, <1>6, Turns

LEMMA FillsDirectlyKeeps == ASSUME CInv, NEW w \in Threads, FillsDirectly(w) PROVE CInv'
  <1> DEFINE i == work[w]
             pc == IF i.op = "refill" THEN "stage" ELSE "filled"
             op == IF i.op = "refill" THEN "store" ELSE i.op
             bytes == Bytes(server[i.file])
             k == [i EXCEPT !.pc = pc, !.op = op, !.bytes = bytes]
             j == Told(op, i.file, i.etag, pc, i.off, i.win, bytes, i.doomed, i.lock, i.guard, i.at, i.going)
  <1>1. i.pc = "direct" /\ Frame /\ Reading
    BY FrameIsReading DEF FillsDirectly, At, facts, disk, memory, Frame
  <1>2. CASE ~Arrives(w)
    <2>1. Finishes(w)
      BY <1>2 DEF FillsDirectly
    <2> QED
      BY <1>1, <2>1, Idles DEF Frame
  <1>3. CASE Arrives(w)
    <2>1. Only(w, j)
      <3>1. work' = [work EXCEPT ![w] = k]
        BY <1>3 DEF FillsDirectly
      <3>2. i = Told(i.op, i.file, i.etag, i.pc, i.off, i.win, i.bytes, i.doomed, i.lock, i.guard, i.at, i.going)
        BY IsTold
      <3>3. k = j
        <4> HIDE DEF i, pc, op, bytes
        <4> SUFFICES ASSUME NEW x, x = k PROVE x = j
          OBVIOUS
        <4> QED
          BY <3>2 DEF Told
      <3> HIDE DEF k
      <3> QED
        BY <3>1, <3>3, Changed
    <2>2. ~Staging(i) /\ i.op \in {"fill", "refill"} /\ Collected(i.win)
      BY <1>1, Holds DEF Staging, Placed
    <2>3. bytes \in Seq(Versions) /\ bytes # <<>>
      BY <1>1, Holds, BytesAre
    <2>4. NoOlder(bytes, i.etag)
      BY <1>1, <1>3, Holds, NewerIsNoOlder DEF Arrives
    <2> HIDE DEF bytes
    <2>5. Fits(i, op, pc, i.win, bytes)
      BY <2>2, <2>3, <2>4 DEF Fits, Through
    <2> HIDE DEF op, pc
    <2> QED
      BY <1>1, <2>1, <2>2, <2>5, Turns
  <1> QED
    BY <1>2, <1>3

LEMMA EndsKeeps == ASSUME CInv, NEW w \in Threads, Ends(w) PROVE CInv'
  <1> DEFINE i == work[w]
             k == [i EXCEPT !.op = "store", !.pc = "stage"]
             j == Told("store", i.file, i.etag, "stage", i.off, i.win, i.bytes, i.doomed, i.lock, i.guard, i.at, i.going)
  <1>1. i.pc \in {"done", "failed"} /\ Frame /\ Reading
    BY FrameIsReading DEF Ends, At, facts, disk, memory, Frame
  <1>2. ~Staging(i) /\ i.pc # "idle"
    BY <1>1 DEF Staging
  <1>3. CASE Finishes(w)
    BY <1>1, <1>3, Idles DEF Frame
  <1>4. CASE i.pc = "done" /\ i.op = "fill" /\ Goes(w, "filled")
    <2>1. i.bytes # <<>>
      BY <1>4, Holds DEF Carries
    <2> QED
      BY <1>1, <1>2, <1>4, <2>1, GoesOn DEF Frame
  <1>5. CASE i.pc = "done" /\ i.op = "refill" /\ work' = [work EXCEPT ![w].op = "store", ![w].pc = "stage"]
    <2>1. Only(w, j)
      <3>1. work' = [work EXCEPT ![w] = k]
        BY <1>5
      <3>2. i = Told(i.op, i.file, i.etag, i.pc, i.off, i.win, i.bytes, i.doomed, i.lock, i.guard, i.at, i.going)
        BY IsTold
      <3>3. k = j
        <4> HIDE DEF i
        <4> SUFFICES ASSUME NEW x, x = k PROVE x = j
          OBVIOUS
        <4> QED
          BY <3>2 DEF Told
      <3> HIDE DEF k
      <3> QED
        BY <3>1, <3>3, Changed
    <2>2. i.bytes # <<>> /\ NoOlder(i.bytes, i.etag) /\ Collected(i.win) /\ i.bytes \in Seq(Versions)
      BY <1>5, Holds DEF Carries
    <2>3. Fits(i, "store", "stage", i.win, i.bytes)
      BY <2>2 DEF Fits, Through
    <2> QED
      BY <1>1, <1>2, <2>1, <2>3, Turns
  <1>6. \/ Finishes(w)
        \/ i.pc = "done" /\ i.op = "fill" /\ Goes(w, "filled")
        \/ i.pc = "done" /\ i.op = "refill" /\ work' = [work EXCEPT ![w].op = "store", ![w].pc = "stage"]
    BY DEF Ends, At
  <1> QED
    BY <1>3, <1>4, <1>5, <1>6

\* A thread that is done, and what it has made of the windows and the requests.
LEMMA Rests == ASSUME CInv, NEW w \in Threads, Finishes(w), Reading PROVE CInv'
  <1>1. Only(w, Idle)
    BY DEF Finishes, Only, CInv, Typed
  <1>2. Typed' /\ Asked' /\ \A f \in Files : Claims(f)'
    BY <1>1 DEF Only, Reading, CInv, Typed, Asked, Claims
  <1>3. \A v \in Threads : Finds(work[v])'
    <2>1. work'[w] = Idle /\ \A v \in Threads \ {w} : work'[v] = work[v]
      BY <1>1 DEF Only
    <2>2. UNCHANGED <<blob, sidecar, part>> /\ Finds(Idle)
      BY IdleIsSound DEF Reading, Sound
    <2> QED
      BY <2>1, <2>2 DEF CInv, Sound, Finds
  <1> QED
    BY <1>1, <1>2, <1>3, Moves, IdleIsSound DEF Sound, Reading

-----------------------------------------------------------------------------
(* Windows.                                                                 *)

LEMMA NoWindowIsCollected == Collected(NoWindow)
  BY IdleIsSound DEF Sound, Job, Idle

LEMMA WindowIsCollected ==
    ASSUME NEW v \in Nat, NEW off, NEW name PROVE Collected(Window(v, off, name)) /\ Window(v, off, name).etag = v
  <1> DEFINE x == Window(v, off, name)
             n == IF off = 0 THEN name ELSE 0
             s == [name |-> n, bytes |-> <<>>]
  <1>1. x = [etag |-> v, next |-> off, run |-> 0, start |-> 0, buf |-> <<>>, spill |-> s]
    <2> DEFINE y == NoWindow
    <2>1. y = [etag |-> 0, next |-> 0, run |-> 0, start |-> 0, buf |-> <<>>, spill |-> [name |-> 0, bytes |-> <<>>]]
      BY DEF NoWindow, NoSpill, NoVersion
    <2>2. x = [y EXCEPT !.etag = v, !.next = off, !.spill.name = n]
      BY DEF Window
    <2> HIDE DEF x, y, n
    <2> QED
      BY <2>1, <2>2
  <1>2. <<>> \in Seq(Versions) /\ NoneOlder(<<>>, v)
    BY EmptySeq DEF NoneOlder
  <1> HIDE DEF x, n
  <1>3. Collected(x) /\ x.etag = v
    BY <1>1, <1>2 DEF Collected
  <1> QED
    BY <1>3 DEF x

LEMMA RangeIs ==
    ASSUME CInv, NEW f \in Files, NEW off \in Nat, NEW n \in Int
    PROVE  RangeOf(f, off, n) \in Seq(Versions) /\ \A i \in DOMAIN RangeOf(f, off, n) : RangeOf(f, off, n)[i] = server[f]
  <1> DEFINE L == Length[server[f]]
             m == IF off >= L THEN 0 ELSE IF off + n > L THEN L - off ELSE n
             p == IF m < 0 THEN 0 ELSE m
             b == [i \in 1..p |-> server[f]]
  <1>1. server[f] \in Versions /\ L \in Nat
    BY VersionsAre DEF CInv, Typed
  <1>2. m \in Int /\ p \in Nat
    BY <1>1
  <1>3. 1..m = 1..p
    BY <1>2
  <1>4. RangeOf(f, off, n) = b
    BY <1>3 DEF RangeOf
  <1> HIDE DEF p
  <1>5. b \in Seq(Versions) /\ \A i \in DOMAIN b : b[i] = server[f]
    BY <1>1, <1>2, IsASeq
  <1> QED
    BY <1>4, <1>5

LEMMA RefilledIsCollected ==
    ASSUME CInv, NEW w \in Threads, work[w].pc = "fetch"
    PROVE  Collected(Refilled(w)) /\ Refilled(w).etag = work[w].etag
  <1> DEFINE i == work[w]
             win == i.win
             left == Length[i.etag] - i.off
             n == IF left < FetchChunk THEN left ELSE FetchChunk
             b == RangeOf(i.file, i.off, n)
             x == [win EXCEPT !.start = i.off, !.buf = b]
  <1>1. Collected(win) /\ win.etag = i.etag /\ i.file \in Files /\ i.etag \in Versions /\ i.off \in Nat
        /\ i.etag <= server[i.file]
    <2>1. i.op = "read" /\ i.off \in Nat
      BY DEF CInv, Sound, Placed, Job
    <2> QED
      BY <2>1, Holds DEF Carries
  <1>2. n \in Int
    <2> DEFINE L == Length[i.etag]
    <2>1. L \in Nat /\ i.off \in Nat
      BY <1>1, VersionsAre
    <2> HIDE DEF i, L
    <2>2. left \in Int
      BY <2>1 DEF L
    <2> HIDE DEF left
    <2> QED
      BY <2>2, ContentAssumption
  <1> HIDE DEF n
  <1>3. b \in Seq(Versions) /\ \A k \in DOMAIN b : b[k] = server[i.file]
    BY <1>1, <1>2, RangeIs
  <1>4. NoneOlder(b, i.etag)
    BY <1>1, <1>3 DEF NoneOlder
  <1>5. Collected(x) /\ x.etag = i.etag
    <2>1. win = [etag |-> win.etag, next |-> win.next, run |-> win.run, start |-> win.start, buf |-> win.buf,
                 spill |-> [name |-> win.spill.name, bytes |-> win.spill.bytes]]
      BY <1>1 DEF Collected
    <2>2. i.off \in Nat /\ b \in Seq(Versions) /\ NoneOlder(b, win.etag)
      BY <1>1, <1>3, <1>4
    <2> HIDE DEF win, b
    <2> DEFINE z == [etag |-> win.etag, next |-> win.next, run |-> win.run, start |-> i.off, buf |-> b,
                     spill |-> [name |-> win.spill.name, bytes |-> win.spill.bytes]]
    <2>3. x = z
      <3> DEFINE e == win.etag  n1 == win.next  r == win.run  s1 == win.start  b1 == win.buf
                 m == win.spill.name  c == win.spill.bytes
      <3>1. win = [etag |-> e, next |-> n1, run |-> r, start |-> s1, buf |-> b1, spill |-> [name |-> m, bytes |-> c]]
        BY <2>1
      <3> HIDE DEF i, e, n1, r, s1, b1, m, c
      <3> SUFFICES ASSUME NEW y, y = [win EXCEPT !.start = i.off, !.buf = b]
                   PROVE  y = [etag |-> e, next |-> n1, run |-> r, start |-> i.off, buf |-> b,
                               spill |-> [name |-> m, bytes |-> c]]
        BY DEF e, n1, r, s1, b1, m, c
      <3> QED
        BY <3>1
    <2> HIDE DEF x
    <2> QED
      BY <1>1, <2>2, <2>3 DEF Collected
  <1>6. Refilled(w) = win \/ Refilled(w) = x
    BY DEF Refilled, n
  <1> QED
    BY <1>1, <1>5, <1>6

LEMMA ServedIsNoOlder ==
    ASSUME CInv, NEW w \in Threads, work[w].pc = "fetch"
    PROVE  Served(w) \in Seq(Versions) /\ NoneOlder(Served(w), work[w].etag)
  <1> DEFINE i == work[w]
             win == Refilled(w)
             k == i.off - win.start + 1
             b == RangeOf(i.file, i.off, 1)
  <1>1. Collected(win) /\ win.etag = i.etag /\ i.file \in Files /\ i.etag \in Versions /\ i.off \in Nat
        /\ i.etag <= server[i.file] /\ server[i.file] \in Versions
    <2>1. i.off \in Nat
      BY DEF CInv, Sound, Job
    <2> QED
      BY <2>1, Holds, RefilledIsCollected
  <1>2. Served(w) \in {<<win.buf[k]>>, <<>>, b} /\ (Served(w) = <<win.buf[k]>> => Buffered(win, i.off) \/ Served(w) \in {<<>>, b})
    BY DEF Served
  <1>3. b \in Seq(Versions) /\ NoneOlder(b, i.etag)
    BY <1>1, RangeIs DEF NoneOlder
  <1>4. <<>> \in Seq(Versions) /\ NoneOlder(<<>>, i.etag)
    BY EmptySeq DEF NoneOlder
  <1>5. ASSUME Buffered(win, i.off) PROVE <<win.buf[k]>> \in Seq(Versions) /\ NoneOlder(<<win.buf[k]>>, i.etag)
    <2>1. win.buf \in Seq(Versions) /\ win.start \in Nat /\ NoneOlder(win.buf, i.etag)
      BY <1>1 DEF Collected
    <2>2. k \in DOMAIN win.buf
      BY <1>1, <1>5, <2>1, LenProperties DEF Buffered
    <2>3. win.buf[k] \in Versions /\ win.buf[k] >= i.etag
      BY <2>1, <2>2, ElementOfSeq DEF NoneOlder
    <2> HIDE DEF k
    <2> DEFINE u == win.buf[k]
    <2> HIDE DEF u
    <2>4. <<u>> \in Seq(Versions) /\ NoneOlder(<<u>>, i.etag)
      BY <2>3 DEF NoneOlder, u
    <2> QED
      BY <2>4 DEF u
  <1> QED
    BY <1>2, <1>3, <1>4, <1>5

LEMMA AdvancedIsCollected ==
    ASSUME CInv, NEW w \in Threads, work[w].pc = "fetch"
    PROVE  Collected(Advanced(w)) /\ Advanced(w).etag = work[w].etag
  <1> DEFINE win == Refilled(w)
             out == Served(w)
             b == IF win.spill.name # 0 THEN win.spill.bytes \o out ELSE win.spill.bytes
             x == [win EXCEPT !.next = @ + Len(out), !.run = @ + Len(out),
                              !.spill.bytes = IF win.spill.name # 0 THEN @ \o out ELSE @]
  <1>1. Collected(win) /\ win.etag = work[w].etag /\ out \in Seq(Versions) /\ NoneOlder(out, win.etag)
    BY RefilledIsCollected, ServedIsNoOlder
  <1>2. Advanced(w) = x
    BY DEF Advanced
  <1>3. win = [etag |-> win.etag, next |-> win.next, run |-> win.run, start |-> win.start, buf |-> win.buf,
               spill |-> [name |-> win.spill.name, bytes |-> win.spill.bytes]]
    BY <1>1 DEF Collected
  <1>4. b \in Seq(Versions) /\ NoneOlder(b, win.etag)
    <2>1. win.spill.bytes \in Seq(Versions) /\ NoneOlder(win.spill.bytes, win.etag)
      BY <1>1 DEF Collected
    <2> HIDE DEF win, out
    <2> DEFINE s == win.spill.bytes
    <2>2. s \o out \in Seq(Versions) /\ NoneOlder(s \o out, win.etag)
      <3> HIDE DEF s
      <3>1. s \in Seq(Versions) /\ out \in Seq(Versions)
        BY <1>1, <2>1 DEF s
      <3>2. /\ s \o out \in Seq(Versions) /\ Len(s \o out) = Len(s) + Len(out)
            /\ \A k \in 1..(Len(s) + Len(out)) : (s \o out)[k] = IF k <= Len(s) THEN s[k] ELSE out[k - Len(s)]
        BY <3>1, ConcatProperties
      <3>3. /\ DOMAIN s = 1..Len(s) /\ DOMAIN out = 1..Len(out) /\ DOMAIN (s \o out) = 1..Len(s \o out)
            /\ Len(s) \in Nat /\ Len(out) \in Nat
        BY <3>1, <3>2, LenProperties
      <3>4. NoneOlder(s, win.etag)
        BY <2>1 DEF s
      <3> QED
        BY <1>1, <3>2, <3>3, <3>4 DEF NoneOlder
    <2> QED
      BY <2>1, <2>2
  <1> HIDE DEF win, out
  <1> DEFINE z == [etag |-> win.etag, next |-> win.next + Len(out), run |-> win.run + Len(out), start |-> win.start,
                   buf |-> win.buf, spill |-> [name |-> win.spill.name, bytes |-> b]]
  <1>5. x = z
    <2> DEFINE e == win.etag  n1 == win.next  r == win.run  s1 == win.start  b1 == win.buf
               m == win.spill.name  c == win.spill.bytes  L == Len(out)
    <2>1. win = [etag |-> e, next |-> n1, run |-> r, start |-> s1, buf |-> b1, spill |-> [name |-> m, bytes |-> c]]
      BY <1>3
    <2>2. x = [win EXCEPT !.next = n1 + L, !.run = r + L, !.spill.bytes = b]
      BY DEF n1, r, L, c
    <2> HIDE DEF e, n1, r, s1, b1, m, c, b, L, x
    <2> SUFFICES ASSUME NEW y, y = [win EXCEPT !.next = n1 + L, !.run = r + L, !.spill.bytes = b]
                 PROVE  y = [etag |-> e, next |-> n1 + L, run |-> r + L, start |-> s1, buf |-> b1,
                             spill |-> [name |-> m, bytes |-> b]]
      BY <2>2 DEF e, n1, r, s1, b1, m, L
    <2> QED
      BY <2>1
  <1> HIDE DEF x, b
  <1>6. Collected(x) /\ x.etag = win.etag
    BY <1>1, <1>4, <1>5 DEF Collected
  <1> QED
    BY <1>1, <1>2, <1>6

LEMMA TakesWindowKeeps == ASSUME CInv, NEW w \in Threads, TakesWindow(w) PROVE CInv'
  <1> DEFINE i == work[w]
             prior == windows[i.file]
             new == Window(i.etag, i.off, FreeName)
             win == IF Continues(prior, w) THEN prior ELSE new
             k == [i EXCEPT !.pc = "fetch", !.win = win]
             j == Told(i.op, i.file, i.etag, "fetch", i.off, win, i.bytes, i.doomed, i.lock, i.guard, i.at, i.going)
  <1>1. i.pc = "window" /\ i.op = "read" /\ i.file \in Files /\ i.etag \in Versions
    BY Holds DEF TakesWindow, At, Placed
  <1>2. Reading
    <2>1. UNCHANGED <<row, server, blob, sidecar, part, requests>> /\ windows' = [windows EXCEPT ![i.file] = NoWindow]
      BY DEF TakesWindow, facts
    <2>2. windows' = [f \in Files |-> IF f = i.file THEN NoWindow ELSE windows[f]]
      BY <2>1 DEF CInv, Typed
    <2>3. \A f \in Files : Collected(windows'[f])
      BY <2>2, NoWindowIsCollected DEF CInv, Typed
    <2> QED
      BY <2>1, <2>2, <2>3 DEF Reading, CInv, Typed, Asked
  <1>3. Only(w, j)
    <2>1. work' = [work EXCEPT ![w] = k]
      BY DEF TakesWindow
    <2>2. i = Told(i.op, i.file, i.etag, i.pc, i.off, i.win, i.bytes, i.doomed, i.lock, i.guard, i.at, i.going)
      BY IsTold
    <2>3. k = j
      <3> HIDE DEF i, win
      <3> SUFFICES ASSUME NEW x, x = k PROVE x = j
        OBVIOUS
      <3> QED
        BY <2>2 DEF Told
    <2> HIDE DEF k
    <2> QED
      BY <2>1, <2>3, Changed
  <1>4. Collected(win) /\ win.etag = i.etag
    <2>1. Collected(new) /\ new.etag = i.etag
      BY <1>1, VersionsAre, WindowIsCollected
    <2>2. Collected(prior)
      BY <1>1 DEF CInv, Typed
    <2>3. Continues(prior, w) => prior.etag = i.etag
      BY DEF Continues
    <2> HIDE DEF prior, new
    <2> QED
      BY <2>1, <2>2, <2>3
  <1> HIDE DEF win
  <1>5. ~Staging(i)
    BY <1>1 DEF Staging
  <1>6. Fits(i, i.op, "fetch", win, i.bytes)
    BY <1>1, <1>4, Holds DEF Fits
  <1> QED
    BY <1>1, <1>2, <1>3, <1>5, <1>6, Turns

\* What is kept of the windows is this one and what was there, with nothing prefetched perhaps.
LEMMA KeptIsCollected ==
    ASSUME CInv, NEW w \in Threads, work[w].pc = "fetch", NEW ws \in Kept(w)
    PROVE  ws = [f \in Files |-> ws[f]] /\ \A f \in Files : Collected(ws[f])
  <1> DEFINE f0 == work[w].file
             put(gone) == [g \in Files |-> IF g = f0 THEN Advanced(w)
                                           ELSE IF g \in gone THEN NoWindow ELSE windows[g]]
             cut(us, bufs) == [g \in Files |-> IF g \in bufs THEN [us[g] EXCEPT !.buf = <<>>, !.start = 0]
                                               ELSE us[g]]
  <1>1. PICK c : ws = cut(put(c[1]), c[2])
    BY DEF Kept
  <1>2. \A g \in Files : Collected(put(c[1])[g])
    BY AdvancedIsCollected, NoWindowIsCollected DEF CInv, Typed
  <1> DEFINE us == put(c[1])
  <1>3. ws = [g \in Files |-> IF g \in c[2] THEN [us[g] EXCEPT !.buf = <<>>, !.start = 0] ELSE us[g]]
    BY <1>1
  <1> HIDE DEF us
  <1>4. ASSUME NEW x, Collected(x) PROVE Collected([x EXCEPT !.buf = <<>>, !.start = 0])
    <2> DEFINE e == x.etag  n == x.next  r == x.run  s == x.start  b == x.buf  m == x.spill.name  u == x.spill.bytes
    <2>1. x = [etag |-> e, next |-> n, run |-> r, start |-> s, buf |-> b, spill |-> [name |-> m, bytes |-> u]]
      BY <1>4 DEF Collected
    <2>2. e \in Nat /\ u \in Seq(Versions) /\ NoneOlder(u, e)
      BY <1>4 DEF Collected
    <2>3. <<>> \in Seq(Versions) /\ NoneOlder(<<>>, e)
      BY EmptySeq DEF NoneOlder
    <2> HIDE DEF e, n, r, s, b, m, u
    <2> DEFINE y == [x EXCEPT !.buf = <<>>, !.start = 0]
               z == [etag |-> e, next |-> n, run |-> r, start |-> 0, buf |-> <<>>, spill |-> [name |-> m, bytes |-> u]]
    <2>4. y = z
      <3> SUFFICES ASSUME NEW k, k = [x EXCEPT !.buf = <<>>, !.start = 0] PROVE k = z
        OBVIOUS
      <3> QED
        BY <2>1
    <2> HIDE DEF y
    <2>5. Collected(z)
      <3> HIDE DEF z
      <3>1. z = [etag |-> e, next |-> n, run |-> r, start |-> 0, buf |-> <<>>, spill |-> [name |-> m, bytes |-> u]]
        BY DEF z
      <3> QED
        BY <2>2, <2>3, <3>1 DEF Collected
    <2>6. Collected(y)
      BY <2>4, <2>5
    <2> QED
      BY <2>6 DEF y
  <1>5. \A g \in Files : Collected(us[g])
    BY <1>2 DEF us
  <1> QED
    BY <1>3, <1>4, <1>5

LEMMA FetchesKeeps == ASSUME CInv, NEW w \in Threads, Fetches(w) \/ FetchFails(w) PROVE CInv'
  <1> DEFINE i == work[w]
             win == Advanced(w)
             k == [i EXCEPT !.pc = "bare", !.win = win]
             j == Told(i.op, i.file, i.etag, "bare", i.off, win, i.bytes, i.doomed, i.lock, i.guard, i.at, i.going)
  <1>1. i.pc = "fetch" /\ i.op = "read" /\ i.file \in Files /\ i.etag \in Versions /\ i.etag = row[i.file]
    BY Holds DEF Fetches, FetchFails, At, Placed
  <1>2. UNCHANGED <<row, server, blob, sidecar, part>>
    BY DEF Fetches, FetchFails, facts
  <1>3. CASE Finishes(w) /\ UNCHANGED <<windows, requests>>
    BY <1>2, <1>3, Idles
  <1>4. CASE /\ work' = [work EXCEPT ![w].pc = "bare", ![w].win = win]
             /\ UNCHANGED <<windows, requests>> /\ Complete(win, i.etag)
    <2>1. Only(w, j)
      <3>1. work' = [work EXCEPT ![w] = k]
        BY <1>4
      <3>2. i = Told(i.op, i.file, i.etag, i.pc, i.off, i.win, i.bytes, i.doomed, i.lock, i.guard, i.at, i.going)
        BY IsTold
      <3>3. k = j
        <4> HIDE DEF i, win
        <4> SUFFICES ASSUME NEW x, x = k PROVE x = j
          OBVIOUS
        <4> QED
          BY <3>2 DEF Told
      <3> HIDE DEF k
      <3> QED
        BY <3>1, <3>3, Changed
    <2>2. Reading
      BY <1>2, <1>4, FrameIsReading DEF Frame
    <2>3. Collected(win) /\ win.etag = i.etag /\ Len(win.spill.bytes) = Length[i.etag]
      BY <1>1, <1>4, AdvancedIsCollected DEF Complete
    <2> HIDE DEF win
    <2>4. ~Staging(i)
      BY <1>1 DEF Staging
    <2>5. Fits(i, i.op, "bare", win, i.bytes)
      BY <1>1, <2>3, Holds DEF Fits, Through, Fetching
    <2> QED
      BY <1>1, <2>1, <2>2, <2>4, <2>5, Turns
  <1>5. CASE Finishes(w) /\ windows' \in Kept(w) /\ Tallies(w)
    <2>1. windows' = [f \in Files |-> windows'[f]] /\ \A f \in Files : Collected(windows'[f])
      BY <1>1, <1>5, KeptIsCollected
    <2> DEFINE r == [file |-> i.file, etag |-> i.etag]
    <2>2. requests' = requests \/ requests' = Append(requests, r)
      BY <1>5 DEF Tallies
    <2>3. requests \in Seq([file : Files, etag : Versions]) /\ r \in [file : Files, etag : Versions]
      BY <1>1 DEF CInv, Typed
    <2>4. r.etag = row[r.file]
      BY <1>1
    <2> HIDE DEF r
    <2>5. /\ Append(requests, r) \in Seq([file : Files, etag : Versions])
          /\ \A n \in DOMAIN Append(requests, r) : Append(requests, r)[n] = r \/ (n \in DOMAIN requests /\ Append(requests, r)[n] = requests[n])
      BY <2>3, AppendProperties, LenProperties
    <2>6. Asked
      BY DEF CInv
    <2>7. \A n \in DOMAIN requests' : requests'[n].etag = row[requests'[n].file]
      BY <2>2, <2>4, <2>5, <2>6 DEF Asked
    <2>8. requests' \in Seq([file : Files, etag : Versions])
      BY <2>2, <2>3, <2>5
    <2>9. Reading
      BY <1>2, <2>1, <2>7, <2>8 DEF Reading
    <2> QED
      BY <1>5, <2>9, Rests
  <1>6. \/ Finishes(w) /\ UNCHANGED <<windows, requests>>
        \/ /\ work' = [work EXCEPT ![w].pc = "bare", ![w].win = win]
           /\ UNCHANGED <<windows, requests>> /\ Complete(win, i.etag)
        \/ Finishes(w) /\ windows' \in Kept(w) /\ Tallies(w)
    BY DEF Fetches, FetchFails
  <1> QED
    BY <1>3, <1>4, <1>5, <1>6

-----------------------------------------------------------------------------
(* What begins, and what happens to nobody in particular.                   *)

LEMMA MovesOn ==
    ASSUME CInv, NEW w \in Threads, NEW j, Only(w, j), Typed', Job(j), Placed(j), Carries(j), Asked',
           j.pc # "idle" => j.file \in Files /\ j.etag = row'[j.file],
           Staging(j) => \A v \in Threads \ {w} : Staging(work[v]) => work[v].file # j.file,
           \A v \in Threads \ {w} : work[v].pc # "idle" => row'[work[v].file] = row[work[v].file],
           \A v \in Threads : Finds(work[v])',
           \A f \in Files : Claims(f)'
    PROVE  CInv'
  <1>1. work'[w] = j /\ \A v \in Threads \ {w} : work'[v] = work[v]
    BY DEF Only
  <1>2. ASSUME NEW v \in Threads PROVE Sound(work[v])'
    <2>1. CASE v = w
      BY <1>1, <2>1 DEF Sound, Job, Abreast, Placed, Carries, Staging
    <2>2. CASE v # w
      BY <1>1, <2>2 DEF CInv, Sound, Job, Abreast, Placed, Carries, Staging
    <2> QED
      BY <2>1, <2>2
  <1>3. Apart'
    <2> SUFFICES ASSUME NEW v \in Threads, NEW u \in Threads,
                        Staging(work'[v]), Staging(work'[u]), work'[v].file = work'[u].file
                 PROVE  v = u
      BY DEF Apart, Staging
    <2> QED
      BY <1>1 DEF CInv, Apart
  <1> QED
    BY <1>2, <1>3 DEF CInv

LEMMA Stays ==
    ASSUME CInv, UNCHANGED <<work, blob, sidecar, part>>, Typed', Asked',
           \A v \in Threads : work[v].pc # "idle" => row'[work[v].file] = row[work[v].file]
    PROVE  CInv'
  <1>1. ASSUME NEW v \in Threads PROVE Sound(work[v])'
    <2>1. Sound(work[v])
      BY DEF CInv
    <2> QED
      BY <2>1 DEF Sound, Job, Abreast, Placed, Carries, Finds, Staging
  <1>2. Apart' /\ \A f \in Files : Claims(f)'
    BY DEF CInv, Apart, Claims, Staging
  <1> QED
    BY <1>1, <1>2 DEF CInv

\* The record of an operation that begins.
Begun(op, f, v, pc, off, bytes) ==
    Told(op, f, v, pc, off, NoWindow, bytes, {}, NoOne, FALSE, "nowhere", NoOne)

LEMMA DoingIsBegun ==
    ASSUME NEW op, NEW f, NEW v, NEW pc
    PROVE  /\ Doing(op, f, v, pc) = Begun(op, f, v, pc, 0, <<>>)
           /\ \A off : [Doing(op, f, v, pc) EXCEPT !.off = off] = Begun(op, f, v, pc, off, <<>>)
           /\ \A bytes : [Doing(op, f, v, pc) EXCEPT !.bytes = bytes] = Begun(op, f, v, pc, 0, bytes)
  <1> DEFINE x == Doing(op, f, v, pc)
             i == Idle
             nil == <<>>
             win == NoWindow
             none == {}
  <1>1. i = Told("none", NoOne, NoVersion, "idle", 0, win, nil, none, NoOne, FALSE, "nowhere", NoOne)
    BY DEF Idle, Told
  <1>2. x = [i EXCEPT !.op = op, !.file = f, !.etag = v, !.pc = pc]
    BY DEF Doing
  <1> HIDE DEF i, nil, win, none
  <1>3. x = Told(op, f, v, pc, 0, win, nil, none, NoOne, FALSE, "nowhere", NoOne)
    <2> HIDE DEF x
    <2> QED
      BY <1>1, <1>2 DEF Told
  <1> HIDE DEF x
  <1>4. ASSUME NEW off PROVE [x EXCEPT !.off = off] = Told(op, f, v, pc, off, win, nil, none, NoOne, FALSE, "nowhere", NoOne)
    <2> SUFFICES ASSUME NEW y, y = [x EXCEPT !.off = off]
                 PROVE y = Told(op, f, v, pc, off, win, nil, none, NoOne, FALSE, "nowhere", NoOne)
      OBVIOUS
    <2> QED
      BY <1>3 DEF Told
  <1>5. ASSUME NEW bytes PROVE [x EXCEPT !.bytes = bytes] = Told(op, f, v, pc, 0, win, bytes, none, NoOne, FALSE, "nowhere", NoOne)
    <2> SUFFICES ASSUME NEW y, y = [x EXCEPT !.bytes = bytes]
                 PROVE y = Told(op, f, v, pc, 0, win, bytes, none, NoOne, FALSE, "nowhere", NoOne)
      OBVIOUS
    <2> QED
      BY <1>3 DEF Told
  <1> QED
    BY <1>3, <1>4, <1>5 DEF x, nil, win, none, Begun

\* Where operations begin.
Opening(op, pc) ==
    \/ op = "read" /\ pc = "look"
    \/ op \in Fetching /\ pc = "lock"
    \/ op \in {"fill", "refill"} /\ pc = "direct"
    \/ op = "hydrate" /\ pc = "stage"

LEMMA BegunIs ==
    ASSUME NEW op, NEW pc, NEW f, NEW v, NEW off \in Nat, NEW bytes \in Seq(Versions)
    PROVE  LET j == Begun(op, f, v, pc, off, bytes) IN
           /\ j.op = op /\ j.file = f /\ j.etag = v /\ j.pc = pc /\ j.bytes = bytes /\ j.win = NoWindow
           /\ ~Staging(j) => Job(j)
  <1> DEFINE j == Begun(op, f, v, pc, off, bytes)
             win == NoWindow
             none == {}
  <1>1. j = [op |-> op, file |-> f, etag |-> v, pc |-> pc, off |-> off, win |-> win, bytes |-> bytes,
             doomed |-> none, lock |-> NoOne, guard |-> FALSE, at |-> "nowhere", going |-> NoOne]
    BY DEF Begun, Told
  <1>2. Collected(win)
    BY NoWindowIsCollected
  <1> HIDE DEF win, none, j
  <1>3. /\ j.op = op /\ j.file = f /\ j.etag = v /\ j.pc = pc /\ j.off = off /\ j.win = win /\ j.bytes = bytes
        /\ j.doomed = none /\ j.lock = NoOne /\ j.guard = FALSE /\ j.at = "nowhere" /\ j.going = NoOne
    BY <1>1
  <1>4. ~Staging(j) => Job(j)
    BY <1>1, <1>2, <1>3 DEF Job
  <1> QED
    BY <1>3, <1>4 DEF j, win

LEMMA BegunIsSound ==
    ASSUME NEW op, NEW pc, Opening(op, pc), NEW f \in Files, NEW off \in Nat
    PROVE  Sound(Begun(op, f, row[f], pc, off, <<>>)) /\ ~Staging(Begun(op, f, row[f], pc, off, <<>>))
  <1> DEFINE v == row[f]
             nil == <<>>
             j == Begun(op, f, v, pc, off, nil)
  <1>1. nil \in Seq(Versions)
    BY EmptySeq
  <1> HIDE DEF v, nil
  <1>2. /\ j.op = op /\ j.file = f /\ j.etag = v /\ j.pc = pc /\ j.bytes = nil
        /\ ~Staging(j) => Job(j)
    BY <1>1, BegunIs
  <1> HIDE DEF j
  <1>3. ~Staging(j) /\ Job(j)
    BY <1>2 DEF Staging, Opening
  <1>4. Abreast(j) /\ Placed(j) /\ Carries(j) /\ Finds(j)
    BY <1>2 DEF Abreast, Placed, Carries, Finds, Opening, Through, Fetching, v, nil
  <1> QED
    BY <1>3, <1>4 DEF Sound, j, v, nil

LEMMA StartsKeeps ==
    ASSUME CInv, NEW w \in Threads, NEW op, NEW pc, Opening(op, pc), NEW f \in Files, NEW off \in Nat, Frame,
           work' = [work EXCEPT ![w] = Begun(op, f, row[f], pc, off, <<>>)]
    PROVE  CInv'
  <1> DEFINE j == Begun(op, f, row[f], pc, off, <<>>)
  <1>1. Sound(j) /\ ~Staging(j)
    BY BegunIsSound
  <1>2. Only(w, j)
    BY DEF Only, CInv, Typed
  <1> HIDE DEF j
  <1> QED
    BY <1>1, <1>2, Stands DEF Frame

LEMMA BeginsKeeps ==
    ASSUME CInv, NEW w \in Workers, NEW f \in Files,
           \/ \E off \in 0..(Length[row[f]] - 1) : StartsRead(w, f, off)
           \/ Pins(w, f) \/ Refreshes(w, f)
           \/ \E op \in {"fill", "refill"} : StartsFill(w, f, op)
    PROVE  CInv'
  <1>0. w \in Threads /\ row[f] \in Versions /\ Length[row[f]] \in Nat
    BY VersionsAre DEF Threads, CInv, Typed
  <1>1. ASSUME NEW off \in 0..(Length[row[f]] - 1), StartsRead(w, f, off) PROVE CInv'
    <2>1. work' = [work EXCEPT ![w] = Begun("read", f, row[f], "look", off, <<>>)]
      <3> DEFINE x == [Doing("read", f, row[f], "look") EXCEPT !.off = off]
      <3>1. work' = [work EXCEPT ![w] = x]
        BY <1>1 DEF StartsRead, Starts
      <3>2. x = Begun("read", f, row[f], "look", off, <<>>)
        BY DoingIsBegun
      <3> HIDE DEF x
      <3> QED
        BY <3>1, <3>2
    <2>2. Frame /\ off \in Nat /\ Opening("read", "look")
      BY <1>0, <1>1 DEF StartsRead, facts, disk, memory, Frame, Opening
    <2> QED
      BY <1>0, <2>1, <2>2, StartsKeeps
  <1>2. ASSUME Pins(w, f) \/ Refreshes(w, f) PROVE CInv'
    <2>1. work' = [work EXCEPT ![w] = Begun("pin", f, row[f], "lock", 0, <<>>)]
      <3> DEFINE x == Doing("pin", f, row[f], "lock")
      <3>1. work' = [work EXCEPT ![w] = x]
        BY <1>2 DEF Pins, Refreshes, Starts
      <3>2. x = Begun("pin", f, row[f], "lock", 0, <<>>)
        BY DoingIsBegun
      <3> HIDE DEF x
      <3> QED
        BY <3>1, <3>2
    <2>2. Frame /\ Opening("pin", "lock")
      BY <1>2 DEF Pins, Refreshes, facts, disk, memory, Frame, Opening, Fetching
    <2> QED
      BY <1>0, <2>1, <2>2, StartsKeeps
  <1>3. ASSUME NEW op \in {"fill", "refill"}, StartsFill(w, f, op) PROVE CInv'
    <2> DEFINE pc == IF Length[row[f]] > Budget THEN "direct" ELSE "lock"
    <2>1. work' = [work EXCEPT ![w] = Begun(op, f, row[f], pc, 0, <<>>)]
      <3> DEFINE x == Doing(op, f, row[f], pc)
      <3>1. work' = [work EXCEPT ![w] = x]
        BY <1>3 DEF StartsFill, Starts
      <3>2. x = Begun(op, f, row[f], pc, 0, <<>>)
        BY DoingIsBegun
      <3> HIDE DEF x
      <3> QED
        BY <3>1, <3>2
    <2>2. Frame /\ Opening(op, pc)
      BY <1>3 DEF StartsFill, facts, disk, memory, Frame, Opening, Fetching
    <2> HIDE DEF pc
    <2> QED
      BY <1>0, <2>1, <2>2, StartsKeeps
  <1> QED
    BY <1>1, <1>2, <1>3

LEMMA Takes ==
    ASSUME CInv, NEW w \in Threads, NEW j, Only(w, j), Reading, Sound(j), ~Staging(j) PROVE CInv'
  <1>1. Typed' /\ Asked' /\ \A f \in Files : Claims(f)'
    BY DEF Only, Reading, CInv, Typed, Asked, Claims
  <1>2. \A v \in Threads : Finds(work[v])'
    <2>1. work'[w] = j /\ \A v \in Threads \ {w} : work'[v] = work[v]
      BY DEF Only
    <2>2. UNCHANGED <<blob, sidecar, part>> /\ Finds(j)
      BY DEF Reading, Sound
    <2> QED
      BY <2>1, <2>2 DEF CInv, Sound, Finds
  <1> QED
    BY <1>1, <1>2, Moves DEF Sound, Reading

LEMMA RequestsAre == ASSUME CInv PROVE \A n \in DOMAIN requests : requests[n].file \in Files
  <1> DEFINE R == [file : Files, etag : Versions]
  <1>1. requests \in Seq(R)
    BY DEF CInv, Typed
  <1> HIDE DEF R
  <1>2. \A n \in DOMAIN requests : requests[n] \in R
    BY <1>1, ElementOfSeq, LenProperties
  <1> QED
    BY <1>2 DEF R

LEMMA HydratesKeeps == ASSUME CInv, Hydrates PROVE CInv'
  <1> DEFINE r == Head(requests)
  <1>1. requests \in Seq([file : Files, etag : Versions]) /\ requests # <<>> /\ requests' = Tail(requests)
    BY DEF CInv, Typed, Hydrates
  <1>2. /\ requests' \in Seq([file : Files, etag : Versions])
        /\ r = requests[1] /\ 1 \in DOMAIN requests
        /\ \A n \in DOMAIN requests' : n + 1 \in DOMAIN requests /\ requests'[n] = requests[n + 1]
    BY <1>1, HeadTailProperties, LenProperties, EmptySeq
  <1>3. r.file \in Files /\ r.etag = row[r.file]
    BY <1>1, <1>2, RequestsAre DEF CInv, Asked
  <1>4. Reading
    <2>1. UNCHANGED <<row, server, blob, sidecar, part, windows>>
      BY DEF Hydrates, facts, disk
    <2>2. \A n \in DOMAIN requests' : requests'[n].etag = row[requests'[n].file]
      BY <1>2 DEF CInv, Asked
    <2> QED
      BY <1>2, <2>1, <2>2 DEF Reading, CInv, Typed
  <1>5. CASE UNCHANGED work
    <2>1. Typed' /\ Asked'
      BY <1>4, <1>5 DEF Reading, CInv, Typed, Asked
    <2> QED
      BY <1>4, <1>5, <2>1, Stays DEF Reading
  <1>6. CASE work' = [work EXCEPT ![hydrator] = Doing("hydrate", r.file, r.etag, "stage")]
    <2> DEFINE f == r.file
               x == Doing("hydrate", f, row[f], "stage")
               j == Begun("hydrate", f, row[f], "stage", 0, <<>>)
    <2>1. work' = [work EXCEPT ![hydrator] = x]
      BY <1>3, <1>6
    <2>2. x = j
      BY DoingIsBegun
    <2>3. f \in Files /\ hydrator \in Threads
      BY <1>3 DEF Threads
    <2> HIDE DEF f, x
    <2>4. Sound(j) /\ ~Staging(j)
      <3>1. Opening("hydrate", "stage")
        BY DEF Opening
      <3> QED
        BY <2>3, <3>1, BegunIsSound
    <2> HIDE DEF j
    <2>5. Only(hydrator, j)
      BY <2>1, <2>2, <2>3 DEF Only, CInv, Typed
    <2> QED
      BY <1>4, <2>3, <2>4, <2>5, Takes
  <1> QED
    BY <1>5, <1>6 DEF Hydrates

\* A row that moves is nobody's business just then.
LEMMA NobodyIsConcerned ==
    ASSUME Orderly, NEW f \in Files, MayMove(f)
    PROVE  /\ \A v \in Threads : work[v].file # f
           /\ \A n \in DOMAIN requests : requests[n].file # f
  BY DEF Orderly, MayMove, Busy

LEMMA WorldKeeps ==
    ASSUME CInv, Orderly,
           \/ \E f \in Files : Unpins(f) \/ ForeignPut(f)
           \/ \E w \in Workers \cup {NoOne}, f \in Files : Walk(w, f)
           \/ ServerGoes \/ ServerComes
    PROVE  CInv'
  <1>1. ASSUME UNCHANGED <<row, server, blob, sidecar, part, windows, requests, work>> PROVE CInv'
    <2>1. Typed' /\ Asked'
      BY <1>1 DEF CInv, Typed, Asked
    <2> QED
      BY <1>1, <2>1, Stays
  <1>2. ASSUME NEW f \in Files, Unpins(f) PROVE CInv'
    BY <1>1, <1>2 DEF Unpins, memory
  <1>3. CASE ServerGoes \/ ServerComes
    BY <1>1, <1>3 DEF ServerGoes, ServerComes, disk, memory
  <1>4. ASSUME NEW f \in Files, ForeignPut(f) PROVE CInv'
    <2>1. UNCHANGED <<row, blob, sidecar, part, windows, requests, work>>
      BY <1>4 DEF ForeignPut, disk, memory
    <2>2. server[f] + 1 \in Versions /\ server' = [server EXCEPT ![f] = @ + 1]
      BY <1>4 DEF ForeignPut
    <2>3. server' \in [Files -> Versions] /\ \A g \in Files : row[g] <= server'[g]
      BY <2>2, VersionsAre DEF CInv, Typed
    <2>4. Typed' /\ Asked'
      BY <2>1, <2>3 DEF CInv, Typed, Asked
    <2> QED
      BY <2>1, <2>4, Stays
  <1>5. ASSUME NEW w, NEW f \in Files, Walk(w, f) PROVE CInv'
    <2>1. UNCHANGED <<server, blob, sidecar, part, windows, requests, work>>
      BY <1>5 DEF Walk, disk, memory, Settles, Orderly
    <2>2. row' = [row EXCEPT ![f] = server[f]]
      BY <1>5 DEF Walk
    <2>3. /\ \A v \in Threads : work[v].file # f
          /\ \A n \in DOMAIN requests : requests[n].file # f
      BY <1>5, NobodyIsConcerned DEF Walk
    <2>4. row' \in [Files -> Versions] /\ (\A g \in Files : row'[g] <= server[g]) /\ \A g \in Files \ {f} : row'[g] = row[g]
      BY <2>2, VersionsAre DEF CInv, Typed
    <2>5. Typed'
      BY <2>1, <2>4 DEF CInv, Typed
    <2>6. \A n \in DOMAIN requests : requests[n].file \in Files
      BY RequestsAre
    <2>7. Asked'
      BY <2>1, <2>3, <2>4, <2>6 DEF CInv, Asked
    <2>8. \A v \in Threads : work[v].pc # "idle" => row'[work[v].file] = row[work[v].file]
      BY <2>3, <2>4 DEF CInv, Sound, Abreast
    <2> QED
      BY <2>1, <2>5, <2>7, <2>8, Stays
  <1> QED
    BY <1>2, <1>3, <1>4, <1>5

LEMMA StartsStoreKeeps == ASSUME CInv, Orderly, NEW w \in Workers, NEW f \in Files, StartsStore(w, f) PROVE CInv'
  <1> DEFINE v == server[f] + 1
             b == Bytes(v)
             x == [Doing("store", f, v, "stage") EXCEPT !.bytes = b]
             j == Begun("store", f, v, "stage", 0, b)
  <1>1. v \in Versions /\ UNCHANGED <<blob, sidecar, part, windows, requests>> /\ w \in Threads
    BY DEF StartsStore, disk, memory, Threads
  <1>2. row' = [row EXCEPT ![f] = v] /\ server' = [server EXCEPT ![f] = v] /\ work' = [work EXCEPT ![w] = x]
    BY DEF StartsStore, Starts
  <1>3. v > server[f]
    BY VersionsAre DEF CInv, Typed
  <1> HIDE DEF v
  <1>4. /\ \A u \in Threads : work[u].file # f
        /\ \A n \in DOMAIN requests : requests[n].file # f
    BY NobodyIsConcerned DEF StartsStore
  <1>5. b \in Seq(Versions) /\ b # <<>> /\ NoOlder(b, v)
    BY <1>1, BytesAre, NewerIsNoOlder, VersionsAre
  <1>6. x = j
    BY DoingIsBegun
  <1> HIDE DEF b, x
  <1>7. /\ j.op = "store" /\ j.file = f /\ j.etag = v /\ j.pc = "stage" /\ j.bytes = b /\ j.win = NoWindow
        /\ ~Staging(j) => Job(j)
    BY <1>5, BegunIs
  <1> HIDE DEF j
  <1>8. Only(w, j)
    BY <1>1, <1>2, <1>6 DEF Only, CInv, Typed
  <1>9. ~Staging(j) /\ Job(j) /\ Placed(j) /\ Carries(j)
    BY <1>5, <1>7 DEF Staging, Placed, Carries, Through
  <1>10. /\ row' \in [Files -> Versions] /\ server' \in [Files -> Versions] /\ (\A g \in Files : row'[g] <= server'[g])
         /\ (\A g \in Files \ {f} : row'[g] = row[g]) /\ row'[f] = v
    BY <1>1, <1>2, VersionsAre DEF CInv, Typed
  <1>11. Typed'
    BY <1>1, <1>8, <1>10 DEF CInv, Typed, Only
  <1>12. \A n \in DOMAIN requests : requests[n].file \in Files
    BY RequestsAre
  <1>13. Asked'
    BY <1>1, <1>4, <1>10, <1>12 DEF CInv, Asked
  <1>14. \A u \in Threads \ {w} : work[u].pc # "idle" => row'[work[u].file] = row[work[u].file]
    BY <1>4, <1>10 DEF CInv, Sound, Abreast
  <1>15. \A u \in Threads : Finds(work[u])'
    <2>1. work'[w] = j /\ \A u \in Threads \ {w} : work'[u] = work[u]
      BY <1>1, <1>8 DEF Only
    <2> QED
      BY <1>1, <1>7, <2>1 DEF CInv, Sound, Finds
  <1>16. \A g \in Files : Claims(g)'
    BY <1>1 DEF CInv, Claims
  <1> QED
    BY <1>1, <1>7, <1>8, <1>9, <1>10, <1>11, <1>13, <1>14, <1>15, <1>16, MovesOn

LEMMA CrashKeeps == ASSUME CInv, Crash PROVE CInv'
  <1>1. /\ UNCHANGED <<row, server, blob, sidecar>> /\ requests' = <<>>
        /\ part' = [f \in Files |-> NoFile] /\ windows' = [f \in Files |-> NoWindow] /\ work' = [w \in Threads |-> Idle]
    BY DEF Crash, facts
  <1>2. NoFile \in [there : BOOLEAN, bytes : Seq(Versions)]
    BY EmptySeq DEF NoFile
  <1>3. \A f \in Files : Collected(windows'[f])
    BY <1>1, NoWindowIsCollected
  <1>4. requests' \in Seq([file : Files, etag : Versions]) /\ Asked'
    BY <1>1, EmptySeq DEF Asked
  <1>5. Typed'
    BY <1>1, <1>2, <1>3, <1>4 DEF CInv, Typed
  <1>6. \A f \in Files : Claims(f)'
    BY <1>1 DEF CInv, Claims
  <1>7. \A w \in Threads : Sound(work[w])' /\ ~Staging(work'[w])
    <2> SUFFICES ASSUME NEW w \in Threads PROVE Sound(work[w])' /\ ~Staging(work'[w])
      OBVIOUS
    <2>1. work'[w] = Idle
      BY <1>1
    <2>2. Job(Idle) /\ Placed(Idle) /\ Carries(Idle) /\ Idle.pc = "idle" /\ ~Staging(Idle)
      BY IdleIsSound DEF Sound, Idle
    <2> HIDE DEF Idle
    <2> QED
      BY <2>1, <2>2 DEF Sound, Job, Abreast, Placed, Carries, Finds, Staging
  <1>8. Apart'
    BY <1>7 DEF Apart, Staging
  <1> QED
    BY <1>4, <1>5, <1>6, <1>7, <1>8 DEF CInv

-----------------------------------------------------------------------------
(* Staging and publishing.                                                  *)

Handle(op, pc) == IF op \in Through /\ pc \in {"stream", "bare", "rename"} THEN "part" ELSE "nowhere"

LEMMA Retold ==
    ASSUME CInv, NEW w \in Threads, NEW pc, NEW win, NEW bytes, NEW doomed, NEW lock, NEW guard, NEW at, NEW going,
           Collected(win), bytes \in Seq(Versions), at = Handle(work[w].op, pc)
    PROVE  Job(Told(work[w].op, work[w].file, work[w].etag, pc, work[w].off, win, bytes, doomed, lock, guard,
                    at, going))
  <1> DEFINE i == work[w]
             j == Told(i.op, i.file, i.etag, pc, i.off, win, bytes, doomed, lock, guard, at, going)
  <1>2. i.off \in Nat /\ at = IF i.op \in Through /\ pc \in {"stream", "bare", "rename"} THEN "part" ELSE "nowhere"
    BY DEF CInv, Sound, Job, Handle
  <1> HIDE DEF i
  <1>3. j = [op |-> i.op, file |-> i.file, etag |-> i.etag, pc |-> pc, off |-> i.off, win |-> win,
             bytes |-> bytes, doomed |-> doomed, lock |-> lock, guard |-> guard, at |-> at, going |-> going]
    BY DEF Told
  <1> HIDE DEF j
  <1>4. /\ j.op = i.op /\ j.file = i.file /\ j.etag = i.etag /\ j.pc = pc /\ j.off = i.off /\ j.win = win
        /\ j.bytes = bytes /\ j.doomed = doomed /\ j.lock = lock /\ j.guard = guard /\ j.at = at
        /\ j.going = going
    BY <1>3
  <1>5. Job(j)
    BY <1>2, <1>3, <1>4 DEF Job, Staging
  <1> QED
    BY <1>5 DEF i, j

\* Nothing of another's work changes but by what is on the disk.
LEMMA Others ==
    ASSUME CInv, NEW w \in Threads, NEW j, Only(w, j)
    PROVE  /\ work'[w] = j /\ \A v \in Threads \ {w} : work'[v] = work[v] /\ Finds(work[v])
           /\ work' = [v \in Threads |-> work'[v]]
  BY DEF Only, CInv, Sound

LEMMA BaresKeeps == ASSUME CInv, NEW w \in Threads, Bares(w) PROVE CInv'
  <1> DEFINE i == work[w]
             f == i.file
  <1>1. /\ i.pc = "bare" /\ UNCHANGED <<row, server, blob, part, windows, requests>>
        /\ sidecar' = [sidecar EXCEPT ![f] = NoVersion] /\ Goes(w, "rename")
    BY DEF Bares, At, facts, memory
  <1>2. PICK j : /\ Only(w, j) /\ j.pc = "rename"
                 /\ j.op = i.op /\ j.file = f /\ j.etag = i.etag /\ j.win = i.win /\ j.bytes = i.bytes
                 /\ (Staging(j) <=> Staging(i)) => Job(j)
    BY <1>1, Turned
  <1>3. (Staging(j) <=> Staging(i)) /\ Job(j)
    BY <1>1, <1>2 DEF Staging
  <1>4. f \in Files /\ Placed(i) /\ Carries(i) /\ Finds(i) /\ Abreast(i)
    BY <1>1, Holds DEF CInv, Sound
  <1>5. Abreast(j) /\ Placed(j) /\ Carries(j)
    BY <1>1, <1>2, <1>4 DEF Abreast, Placed, Carries
  <1>6. sidecar' \in [Files -> Versions \cup {NoVersion}] /\ sidecar'[f] = NoVersion
        /\ \A g \in Files : sidecar'[g] = sidecar[g] \/ sidecar'[g] = NoVersion
    BY <1>1, <1>4 DEF CInv, Typed
  <1>7. Typed' /\ Asked'
    BY <1>1, <1>2, <1>6, Others DEF CInv, Typed, Asked
  <1>8. ASSUME NEW v \in Threads PROVE Finds(work[v])'
    <2>1. CASE v = w
      <3>1. work'[v] = j
        BY <1>2, <2>1, Others
      <3> QED
        BY <1>1, <1>2, <1>4, <1>6, <3>1 DEF Finds
    <2>2. CASE v # w
      <3>1. work'[v] = work[v] /\ Finds(work[v])
        BY <1>2, <2>2, Others
      <3>2. work[v].pc = "rename" => work[v].file \in Files
        BY DEF CInv, Sound, Abreast
      <3> QED
        BY <1>1, <1>6, <3>1, <3>2 DEF Finds
    <2> QED
      BY <2>1, <2>2
  <1>9. \A g \in Files : Claims(g)'
    BY <1>1, <1>6 DEF CInv, Claims
  <1>10. Staging(j) => \A v \in Threads \ {w} : Staging(work[v]) => work[v].file # j.file
    BY <1>2, <1>3 DEF CInv, Apart
  <1> QED
    BY <1>1, <1>2, <1>3, <1>5, <1>7, <1>8, <1>9, <1>10, Moves

LEMMA SealsKeeps == ASSUME CInv, NEW w \in Threads, Seals(w) PROVE CInv'
  <1> DEFINE i == work[w]
             f == i.file
             p == AfterSeal(i.op)
  <1>1. /\ i.pc = "seal" /\ UNCHANGED <<row, server, blob, part, windows, requests>>
        /\ sidecar' = [sidecar EXCEPT ![f] = i.etag] /\ Goes(w, p)
    BY DEF Seals, At, facts, memory
  <1>2. PICK j : /\ Only(w, j) /\ j.pc = p
                 /\ j.op = i.op /\ j.file = f /\ j.etag = i.etag /\ j.win = i.win /\ j.bytes = i.bytes
                 /\ (Staging(j) <=> Staging(i)) => Job(j)
    BY <1>1, Turned
  <1>3. /\ p \in {"mark", "open", "evict"}
        /\ p = "open" => i.op \in {"fill", "refill"}
        /\ i.op \in {"fill", "refill"} => p = "open"
    BY DEF AfterSeal, AfterFetch, Keeping
  <1> HIDE DEF p
  <1>4. ~Staging(j) /\ Job(j)
    BY <1>1, <1>2, <1>3 DEF Staging
  <1>5. f \in Files /\ i.etag \in Versions /\ i.etag = row[f] /\ Placed(i) /\ Carries(i) /\ Finds(i) /\ Abreast(i)
    BY <1>1, Holds DEF CInv, Sound
  <1>6. Abreast(j) /\ Placed(j) /\ Carries(j)
    BY <1>1, <1>2, <1>3, <1>5 DEF Abreast, Placed, Carries
  <1>7. sidecar' \in [Files -> Versions \cup {NoVersion}] /\ sidecar'[f] = i.etag
        /\ \A g \in Files \ {f} : sidecar'[g] = sidecar[g]
    BY <1>1, <1>5 DEF CInv, Typed
  <1>8. Typed' /\ Asked'
    BY <1>1, <1>2, <1>7, Others DEF CInv, Typed, Asked
  <1>9. ASSUME NEW v \in Threads PROVE Finds(work[v])'
    <2>1. CASE v = w
      <3>1. work'[v] = j
        BY <1>2, <2>1, Others
      <3> QED
        BY <1>1, <1>2, <1>3, <1>5, <3>1 DEF Finds
    <2>2. CASE v # w
      <3>1. work'[v] = work[v] /\ Finds(work[v])
        BY <1>2, <2>2, Others
      <3>2. work[v].pc = "rename" => work[v].file \in Files /\ work[v].etag = row[work[v].file]
        BY DEF CInv, Sound, Abreast
      <3> QED
        BY <1>1, <1>5, <1>7, <3>1, <3>2 DEF Finds
    <2> QED
      BY <2>1, <2>2
  <1>10. \A g \in Files : Claims(g)'
    <2>1. blob[f].there => NoOlder(blob[f].bytes, i.etag)
      BY <1>1, <1>5 DEF Finds
    <2> QED
      BY <1>1, <1>5, <1>7, <2>1 DEF CInv, Claims
  <1> QED
    BY <1>1, <1>2, <1>4, <1>6, <1>8, <1>9, <1>10, Moves

\* Who has <id>.part open has it alone, and nobody has the blob open.
LEMMA NobodyElseHasIt ==
    ASSUME CInv
    PROVE  /\ \A f : Moved(work, "blob", "nowhere", f) = work
           /\ \A w \in Threads, v \in Threads : Staging(work[w]) /\ v \in Busy(work[w].file) /\ work[v].at = "part"
                                                  => v = w
  <1>1. \A v \in Threads : work[v].at # "blob" /\ (work[v].at = "part" => Staging(work[v]))
    BY DEF CInv, Sound, Job
  <1>2. work = [v \in Threads |-> work[v]]
    BY DEF CInv, Typed
  <1> QED
    BY <1>1, <1>2 DEF Moved, Busy, CInv, Apart

LEMMA PartsStand ==
    ASSUME CInv, NEW f \in Files, NEW x \in [there : BOOLEAN, bytes : Seq(Versions)], part' = [part EXCEPT ![f] = x]
    PROVE  /\ part' \in [Files -> [there : BOOLEAN, bytes : Seq(Versions)]] /\ part'[f] = x
           /\ \A g \in Files \ {f} : part'[g] = part[g]
  BY DEF CInv, Typed

LEMMA BlobsStand ==
    ASSUME CInv, NEW f \in Files, NEW x \in [there : BOOLEAN, bytes : Seq(Versions)], blob' = [blob EXCEPT ![f] = x]
    PROVE  /\ blob' \in [Files -> [there : BOOLEAN, bytes : Seq(Versions)]] /\ blob'[f] = x
           /\ \A g \in Files \ {f} : blob'[g] = blob[g]
  BY DEF CInv, Typed

LEMMA FileIs ==
    /\ NoFile \in [there : BOOLEAN, bytes : Seq(Versions)] /\ ~NoFile.there
    /\ \A b \in Seq(Versions) : File(b) \in [there : BOOLEAN, bytes : Seq(Versions)] /\ File(b).there /\ File(b).bytes = b
  BY EmptySeq DEF NoFile, File

LEMMA PartIsUsed ==
    ASSUME NEW w PROVE UsesPart(w) <=> work[w].op \in Through
  BY DEF UsesPart, Through, Fetching, Keeping

\* What is done with <id>.part by whom has it alone; the blob stays.
Puts(f, x) == part' = [part EXCEPT ![f] = x]

LEMMA PartTurns ==
    ASSUME CInv, NEW w \in Threads, NEW j, Only(w, j), UNCHANGED <<row, server, blob, sidecar, windows, requests>>,
           NEW f \in Files, f = work[w].file, NEW x \in [there : BOOLEAN, bytes : Seq(Versions)],
           Puts(f, x),
           Job(j), Placed(j), Carries(j), j.file = f, j.etag = work[w].etag, work[w].pc # "idle",
           \A v \in Threads \ {w} : Staging(work[v]) => work[v].file # f,
           j.op \in Through /\ j.pc \in {"bare", "rename"} /\ x.there => NoOlder(x.bytes, j.etag),
           j.pc \notin {"rename", "seal", "open"}
    PROVE  CInv'
  <1>1. /\ part' \in [Files -> [there : BOOLEAN, bytes : Seq(Versions)]] /\ part'[f] = x
        /\ \A g \in Files \ {f} : part'[g] = part[g]
    BY PartsStand DEF Puts
  <1>2. Typed' /\ Asked' /\ \A g \in Files : Claims(g)'
    BY <1>1, Others DEF CInv, Typed, Asked, Claims
  <1>3. ASSUME NEW v \in Threads PROVE Finds(work[v])'
    <2>1. CASE v = w
      <3>1. work'[v] = j
        BY <2>1, Others
      <3> QED
        BY <1>1, <3>1 DEF Finds
    <2>2. CASE v # w
      <3>1. work'[v] = work[v] /\ Finds(work[v])
        BY <2>2, Others
      <3>2. work[v].op \in Through /\ work[v].pc \in {"bare", "rename"} => work[v].file \in Files \ {f}
        BY <2>2 DEF CInv, Sound, Abreast, Staging
      <3>3. work[v].op \in Through /\ work[v].pc \in {"bare", "rename"} => part'[work[v].file] = part[work[v].file]
        BY <1>1, <3>2
      <3> QED
        BY <3>1, <3>3 DEF Finds
    <2> QED
      BY <2>1, <2>2
  <1>4. Abreast(j)
    BY Holds DEF Abreast
  <1> QED
    BY <1>2, <1>3, <1>4, Moves

LEMMA StagesKeeps == ASSUME CInv, Orderly, NEW w \in Threads, Stages(w) PROVE CInv'
  <1> DEFINE i == work[w]
             f == i.file
  <1>1. i.pc = "stage" /\ UNCHANGED <<row, server, blob, sidecar, windows, requests>>
    BY DEF Stages, At, facts, memory
  <1>2. f \in Files /\ i.op \in Through \cup {"hydrate"} /\ Placed(i) /\ Carries(i)
        /\ Collected(i.win) /\ i.bytes \in Seq(Versions)
    BY <1>1, Holds DEF Placed
  <1>3. CASE UsesPart(w)
    <2> DEFINE k == [i EXCEPT !.pc = "stream", !.at = "part"]
               t == Told(i.op, i.file, i.etag, "stream", i.off, i.win, i.bytes, i.doomed, i.lock, i.guard, "part", i.going)
    <2>1. work' = [work EXCEPT ![w] = k] /\ Puts(f, File(<<>>)) /\ OnPart(f) = {}
      BY <1>3 DEF Stages, Orderly, Puts
    <2>2. i = Told(i.op, i.file, i.etag, i.pc, i.off, i.win, i.bytes, i.doomed, i.lock, i.guard, i.at, i.going)
      BY IsTold
    <2>3. k = t
      <3> HIDE DEF i
      <3> SUFFICES ASSUME NEW x, x = k PROVE x = t
        OBVIOUS
      <3> QED
        BY <2>2 DEF Told
    <2> HIDE DEF k
    <2>4. Only(w, t)
      BY <2>1, <2>3, Changed
    <2>5. i.op \in Through
      BY <1>3, PartIsUsed
    <2>6. /\ Job(t) /\ t.op = i.op /\ t.file = f /\ t.etag = i.etag /\ t.pc = "stream"
          /\ t.win = i.win /\ t.bytes = i.bytes
      <3>1. "part" = Handle(i.op, "stream")
        BY <2>5 DEF Handle
      <3>2. Job(t)
        BY <1>2, <3>1, Retold
      <3> HIDE DEF i
      <3> QED
        BY <3>2 DEF Told
    <2> HIDE DEF t
    <2>7. Placed(t) /\ Carries(t)
      BY <1>1, <1>2, <2>5, <2>6 DEF Placed, Carries
    <2>8. \A v \in Threads \ {w} : Staging(work[v]) => work[v].file # f
      BY <2>1, PartIsUsed DEF OnPart, Busy, Staging
    <2>9. File(<<>>) \in [there : BOOLEAN, bytes : Seq(Versions)]
      BY FileIs, EmptySeq
    <2> QED
      BY <1>1, <1>2, <2>1, <2>4, <2>6, <2>7, <2>8, <2>9, PartTurns
  <1>4. CASE ~UsesPart(w)
    <2>1. Goes(w, "stream") /\ UNCHANGED part /\ i.op = "hydrate"
      BY <1>2, <1>4, PartIsUsed DEF Stages
    <2>2. PICK j : /\ Only(w, j) /\ j.pc = "stream"
                   /\ j.op = i.op /\ j.file = f /\ j.etag = i.etag /\ j.win = i.win /\ j.bytes = i.bytes
                   /\ (Staging(j) <=> Staging(i)) => Job(j)
      BY <2>1, Turned
    <2>3. ~Staging(j) /\ ~Staging(i) /\ Job(j)
      BY <2>1, <2>2 DEF Staging, Through, Fetching
    <2>4. Abreast(j) /\ Placed(j) /\ Carries(j) /\ Finds(j)
      BY <1>1, <1>2, <2>1, <2>2, Holds DEF Abreast, Placed, Carries, Finds
    <2> QED
      BY <1>1, <2>1, <2>2, <2>3, <2>4, Stands DEF Sound
  <1> QED
    BY <1>3, <1>4

LEMMA StreamsKeeps == ASSUME CInv, NEW w \in Threads, Streams(w) PROVE CInv'
  <1> DEFINE i == work[w]
             f == i.file
             in == Incoming(w)
             bytes == IF UsesPart(w) THEN <<>> ELSE in
             k == [i EXCEPT !.pc = "bare", !.bytes = bytes]
             t == Told(i.op, i.file, i.etag, "bare", i.off, i.win, bytes, i.doomed, i.lock, i.guard, i.at, i.going)
  <1>1. /\ i.pc = "stream" /\ UNCHANGED <<row, server, sidecar, windows, requests>>
        /\ i.op = "store" \/ Arrives(w)
        /\ part' = IF i.at = "part" THEN [part EXCEPT ![f].bytes = in] ELSE part
        /\ blob' = IF i.at = "blob" THEN [blob EXCEPT ![f].bytes = in] ELSE blob
        /\ work' = [work EXCEPT ![w] = k]
    BY DEF Streams, At, facts, memory
  <1>2. f \in Files /\ i.op \in Through \cup {"hydrate"} /\ Placed(i) /\ Carries(i) /\ Collected(i.win)
        /\ i.etag \in Versions /\ i.bytes \in Seq(Versions)
    BY <1>1, Holds DEF Placed
  <1>3. in \in Seq(Versions) /\ NoOlder(in, i.etag)
    <2>1. CASE i.op = "store"
      BY <1>1, <1>2, <2>1 DEF Incoming, Carries
    <2>2. CASE i.op # "store"
      <3>1. in = Bytes(server[f]) /\ Length[server[f]] >= Length[i.etag]
        BY <1>1, <2>2 DEF Incoming, Arrives
      <3>2. server[f] \in Versions /\ i.etag \in Versions /\ i.etag <= server[f]
        BY <1>1, Holds
      <3>3. Bytes(server[f]) \in Seq(Versions)
        BY <3>2, BytesAre
      <3>4. NoOlder(Bytes(server[f]), i.etag)
        BY <3>1, <3>2, NewerIsNoOlder
      <3> QED
        BY <3>1, <3>3, <3>4
    <2> QED
      BY <2>1, <2>2
  <1> HIDE DEF in
  <1>4. Only(w, t)
    <2>2. i = Told(i.op, i.file, i.etag, i.pc, i.off, i.win, i.bytes, i.doomed, i.lock, i.guard, i.at, i.going)
      BY IsTold
    <2>3. k = t
      <3> HIDE DEF i, bytes
      <3> SUFFICES ASSUME NEW x, x = k PROVE x = t
        OBVIOUS
      <3> QED
        BY <2>2 DEF Told
    <2> HIDE DEF k
    <2> QED
      BY <1>1, <2>3, Changed
  <1>5. bytes \in Seq(Versions)
    BY <1>3, EmptySeq
  <1>6. i.at = IF i.op \in Through THEN "part" ELSE "nowhere"
    BY <1>1 DEF CInv, Sound, Job, Staging
  <1> HIDE DEF bytes
  <1>7. /\ Job(t) /\ t.op = i.op /\ t.file = f /\ t.etag = i.etag /\ t.pc = "bare"
        /\ t.win = i.win /\ t.bytes = bytes
    <2>1. i.at = Handle(i.op, "bare")
      BY <1>6 DEF Handle
    <2>2. Job(t)
      BY <1>2, <1>5, <2>1, Retold
    <2> HIDE DEF i
    <2> QED
      BY <2>2 DEF Told
  <1> HIDE DEF t
  <1>8. CASE i.op \in Through
    <2> DEFINE x == [part[f] EXCEPT !.bytes = in]
    <2>1. Puts(f, x) /\ UNCHANGED blob /\ bytes = <<>>
      BY <1>1, <1>6, <1>8, PartIsUsed DEF bytes, Puts
    <2>2. x \in [there : BOOLEAN, bytes : Seq(Versions)] /\ x.bytes = in
      <3>1. part[f] \in [there : BOOLEAN, bytes : Seq(Versions)]
        BY <1>2 DEF CInv, Typed
      <3> QED
        BY <1>3, <3>1
    <2> HIDE DEF x
    <2>3. Placed(t) /\ Carries(t)
      BY <1>7, <1>8, <2>1 DEF Placed, Carries, Through, Fetching
    <2>4. \A v \in Threads \ {w} : Staging(work[v]) => work[v].file # f
      BY <1>1, <1>8 DEF CInv, Apart, Staging
    <2>5. t.op \in Through /\ t.pc \in {"bare", "rename"} /\ x.there => NoOlder(x.bytes, t.etag)
      BY <1>3, <1>7, <2>2
    <2>6. t.pc \notin {"rename", "seal", "open"} /\ i.pc # "idle"
      BY <1>1, <1>7
    <2>7. UNCHANGED <<row, server, blob, sidecar, windows, requests>> /\ f \in Files
      BY <1>1, <1>2, <2>1
    <2>8. Job(t) /\ t.file = f /\ t.etag = i.etag
      BY <1>7
    <2> QED
      BY <1>4, <2>1, <2>2, <2>3, <2>4, <2>5, <2>6, <2>7, <2>8, PartTurns
  <1>9. CASE i.op \notin Through
    <2>1. UNCHANGED <<part, blob>> /\ i.op = "hydrate" /\ bytes = in
      BY <1>1, <1>2, <1>6, <1>9, PartIsUsed DEF bytes
    <2>2. ~Staging(t)
      BY <1>7, <1>9 DEF Staging
    <2>3. Abreast(t) /\ Placed(t) /\ Carries(t) /\ Finds(t)
      BY <1>1, <1>2, <1>3, <1>7, <1>9, <2>1, Holds DEF Abreast, Placed, Carries, Finds, Through, Fetching
    <2> QED
      BY <1>1, <1>4, <1>7, <2>1, <2>2, <2>3, Stands DEF Sound
  <1> QED
    BY <1>8, <1>9

\* A handle is given up: nobody else's changes with it.
LEMMA LetsGo ==
    ASSUME CInv, NEW w \in Threads, NEW m, m = [v \in Threads |-> m[v]], \A v \in Threads \ {w} : m[v] = work[v],
           NEW at, m[w] = work[w] \/ m[w] = [work[w] EXCEPT !.at = at],
           NEW pc, work' = [m EXCEPT ![w].pc = pc, ![w].at = "nowhere"]
    PROVE  LET i == work[w] IN
           Only(w, Told(i.op, i.file, i.etag, pc, i.off, i.win, i.bytes, i.doomed, i.lock, i.guard, "nowhere", i.going))
  <1> DEFINE i == work[w]
             h == m[w]
             t == Told(i.op, i.file, i.etag, pc, i.off, i.win, i.bytes, i.doomed, i.lock, i.guard, "nowhere", i.going)
  <1>1. i = Told(i.op, i.file, i.etag, i.pc, i.off, i.win, i.bytes, i.doomed, i.lock, i.guard, i.at, i.going)
    BY IsTold
  <1>2. h = i \/ h = [i EXCEPT !.at = at]
    OBVIOUS
  <1> DEFINE k == [h EXCEPT !.pc = pc, !.at = "nowhere"]
  <1>3. work' = [m EXCEPT ![w] = k]
    OBVIOUS
  <1>4. k = t
    <2> HIDE DEF i, h
    <2>1. PICK a : h = Told(i.op, i.file, i.etag, i.pc, i.off, i.win, i.bytes, i.doomed, i.lock, i.guard, a, i.going)
      <3> SUFFICES ASSUME NEW x, x = h
                   PROVE \E a : x = Told(i.op, i.file, i.etag, i.pc, i.off, i.win, i.bytes, i.doomed, i.lock, i.guard, a, i.going)
        OBVIOUS
      <3>1. CASE h = i
        BY <1>1, <3>1
      <3>2. CASE h = [i EXCEPT !.at = at]
        <4>1. x = Told(i.op, i.file, i.etag, i.pc, i.off, i.win, i.bytes, i.doomed, i.lock, i.guard, at, i.going)
          BY <1>1, <3>2 DEF Told
        <4> QED
          BY <4>1
      <3> QED
        BY <1>2, <3>1, <3>2
    <2> SUFFICES ASSUME NEW x, x = k PROVE x = t
      OBVIOUS
    <2> QED
      BY <2>1 DEF Told
  <1> HIDE DEF k, t
  <1>5. Only(w, t)
    BY <1>3, <1>4 DEF Only
  <1> QED
    BY <1>5 DEF t

LEMMA HandsIn ==
    ASSUME CInv, NEW w \in Threads, NEW m, m = [v \in Threads |-> m[v]], \A v \in Threads \ {w} : m[v] = work[v],
           NEW at, m[w] = work[w] \/ m[w] = [work[w] EXCEPT !.at = at], NEW pc, NEW win, NEW bytes,
           work' = [m EXCEPT ![w].pc = pc, ![w].at = "nowhere", ![w].win = win, ![w].bytes = bytes]
    PROVE  LET i == work[w] IN
           Only(w, Told(i.op, i.file, i.etag, pc, i.off, win, bytes, i.doomed, i.lock, i.guard, "nowhere", i.going))
  <1> DEFINE i == work[w]
             h == m[w]
             t == Told(i.op, i.file, i.etag, pc, i.off, win, bytes, i.doomed, i.lock, i.guard, "nowhere", i.going)
  <1>1. i = Told(i.op, i.file, i.etag, i.pc, i.off, i.win, i.bytes, i.doomed, i.lock, i.guard, i.at, i.going)
    BY IsTold
  <1>2. h = i \/ h = [i EXCEPT !.at = at]
    OBVIOUS
  <1> DEFINE k == [h EXCEPT !.pc = pc, !.at = "nowhere", !.win = win, !.bytes = bytes]
  <1>3. work' = [m EXCEPT ![w] = k]
    OBVIOUS
  <1>4. k = t
    <2> HIDE DEF i, h
    <2>1. PICK a : h = Told(i.op, i.file, i.etag, i.pc, i.off, i.win, i.bytes, i.doomed, i.lock, i.guard, a, i.going)
      <3> SUFFICES ASSUME NEW x, x = h
                   PROVE \E a : x = Told(i.op, i.file, i.etag, i.pc, i.off, i.win, i.bytes, i.doomed, i.lock, i.guard, a, i.going)
        OBVIOUS
      <3>1. CASE h = i
        BY <1>1, <3>1
      <3>2. CASE h = [i EXCEPT !.at = at]
        <4>1. x = Told(i.op, i.file, i.etag, i.pc, i.off, i.win, i.bytes, i.doomed, i.lock, i.guard, at, i.going)
          BY <1>1, <3>2 DEF Told
        <4> QED
          BY <4>1
      <3> QED
        BY <1>2, <3>1, <3>2
    <2> SUFFICES ASSUME NEW x, x = k PROVE x = t
      OBVIOUS
    <2> QED
      BY <2>1 DEF Told
  <1> HIDE DEF k, t
  <1>5. Only(w, t)
    BY <1>3, <1>4 DEF Only
  <1> QED
    BY <1>5 DEF t

\* Who gives up has nothing more to do with the file.
LEMMA GivesUpKeeps ==
    ASSUME CInv, NEW w \in Threads, NEW pc \in {"unlock", "failed"},
           LET i == work[w] IN
           Only(w, Told(i.op, i.file, i.etag, pc, i.off, i.win, i.bytes, i.doomed, i.lock, i.guard, "nowhere", i.going)),
           UNCHANGED <<row, server, blob, sidecar, windows, requests>>, work[w].pc # "idle",
           part' = part \/ (Staging(work[w]) /\ Puts(work[w].file, NoFile))
    PROVE  CInv'
  <1> DEFINE i == work[w]
             f == i.file
             t == Told(i.op, i.file, i.etag, pc, i.off, i.win, i.bytes, i.doomed, i.lock, i.guard, "nowhere", i.going)
  <1>1. Only(w, t)
    OBVIOUS
  <1>2. f \in Files /\ Placed(i) /\ Carries(i) /\ Abreast(i) /\ Collected(i.win) /\ i.bytes \in Seq(Versions)
    BY Holds DEF CInv, Sound
  <1>3. Job(t)
    <2>1. "nowhere" = Handle(i.op, pc)
      BY DEF Handle
    <2> QED
      BY <1>2, <2>1, Retold
  <1>4. t.op = i.op /\ t.file = i.file /\ t.etag = i.etag /\ t.pc = pc /\ t.win = i.win /\ t.bytes = i.bytes
    <2> HIDE DEF i
    <2> QED
      BY DEF Told
  <1> HIDE DEF t
  <1>5. Placed(t) /\ Carries(t) /\ Abreast(t) /\ ~Staging(t) /\ Finds(t)
    BY <1>2, <1>4 DEF Placed, Carries, Abreast, Staging, Finds
  <1>6. CASE UNCHANGED part
    BY <1>1, <1>3, <1>5, <1>6, Stands DEF Sound
  <1>7. CASE Staging(i) /\ Puts(f, NoFile)
    <2>1. \A v \in Threads \ {w} : Staging(work[v]) => work[v].file # f
      BY <1>7 DEF CInv, Apart
    <2>2. /\ t.pc \notin {"rename", "seal", "open"} /\ t.file = f /\ t.etag = i.etag /\ i.pc # "idle"
          /\ t.op \in Through /\ t.pc \in {"bare", "rename"} /\ NoFile.there => NoOlder(NoFile.bytes, t.etag)
      BY <1>4
    <2>3. UNCHANGED <<row, server, blob, sidecar, windows, requests>>
      OBVIOUS
    <2>4. Placed(t) /\ Carries(t) /\ f \in Files
      BY <1>2, <1>5
    <2> QED
      BY <1>1, <1>3, <1>7, <2>1, <2>2, <2>3, <2>4, FileIs, PartTurns
  <1> QED
    BY <1>6, <1>7

LEMMA StreamFailsKeeps == ASSUME CInv, NEW w \in Threads, StreamFails(w) PROVE CInv'
  <1> DEFINE i == work[w]
             f == i.file
             p == GivesUp(w)
             m == IF UsesPart(w) THEN Moved(work, "part", "nowhere", f) ELSE work
  <1>1. /\ i.pc = "stream" /\ UNCHANGED <<row, server, blob, sidecar, windows, requests>>
        /\ part' = IF UsesPart(w) THEN [part EXCEPT ![f] = NoFile] ELSE part
        /\ work' = [m EXCEPT ![w].pc = p, ![w].at = "nowhere"]
    BY DEF StreamFails, At, facts, memory
  <1>2. p \in {"unlock", "failed"}
    BY DEF GivesUp
  <1>3. /\ m = [v \in Threads |-> m[v]] /\ \A v \in Threads \ {w} : m[v] = work[v]
        /\ m[w] = i \/ m[w] = [i EXCEPT !.at = "nowhere"]
    <2>1. CASE ~UsesPart(w)
      BY <2>1 DEF CInv, Typed
    <2>2. CASE UsesPart(w)
      <3>1. Staging(i)
        BY <1>1, <2>2, PartIsUsed DEF Staging
      <3>2. m = [v \in Threads |-> IF v \in Busy(f) /\ work[v].at = "part" THEN [work[v] EXCEPT !.at = "nowhere"]
                                   ELSE work[v]]
        BY <2>2 DEF Moved
      <3>3. \A v \in Threads \ {w} : ~(v \in Busy(f) /\ work[v].at = "part")
        BY <3>1, NobodyElseHasIt
      <3> HIDE DEF m, f
      <3> QED
        BY <3>2, <3>3
    <2> QED
      BY <2>1, <2>2
  <1>4. UsesPart(w) => Staging(i)
    BY <1>1, PartIsUsed DEF Staging
  <1>5. work' = [m EXCEPT ![w].pc = p, ![w].at = "nowhere"]
    BY <1>1
  <1> HIDE DEF p, m
  <1>6. Only(w, Told(i.op, i.file, i.etag, p, i.off, i.win, i.bytes, i.doomed, i.lock, i.guard, "nowhere", i.going))
    BY <1>3, <1>5, LetsGo
  <1>7. UNCHANGED <<row, server, blob, sidecar, windows, requests>> /\ i.pc # "idle"
    BY <1>1
  <1>8. part' = part \/ (Staging(i) /\ Puts(f, NoFile))
    BY <1>1, <1>4 DEF Puts
  <1> QED
    BY <1>2, <1>6, <1>7, <1>8, GivesUpKeeps

LEMMA RenamesKeeps == ASSUME CInv, NEW w \in Threads, Renames(w) PROVE CInv'
  <1> DEFINE i == work[w]
             f == i.file
             src == Source(w)
             p == GivesUp(w)
             freed == Moved(work, "blob", "nowhere", f)
             m == IF UsesPart(w)
                  THEN [v \in Threads |-> IF v \in Busy(f) /\ work[v].at = "part" THEN [freed[v] EXCEPT !.at = "blob"]
                                          ELSE freed[v]]
                  ELSE freed
  <1>1. /\ i.pc = "rename" /\ UNCHANGED <<row, server, sidecar, windows, requests>>
        /\ part' = IF UsesPart(w) THEN [part EXCEPT ![f] = NoFile] ELSE part
    BY DEF Renames, At, facts, memory
  <1>2. f \in Files /\ Placed(i) /\ Carries(i) /\ Finds(i) /\ Abreast(i) /\ Collected(i.win) /\ i.bytes \in Seq(Versions)
        /\ i.etag = row[f] /\ i.op \in Through \cup {"hydrate", "read"} /\ i.etag \in Versions
    BY <1>1, Holds DEF CInv, Sound, Placed
  <1>3. UsesPart(w) => Staging(i)
    BY <1>1, PartIsUsed DEF Staging
  <1>4. src \in [there : BOOLEAN, bytes : Seq(Versions)] /\ (src.there => NoOlder(src.bytes, i.etag))
        /\ (~src.there => UsesPart(w))
    <2>1. CASE UsesPart(w)
      <3>0. i.op \in Through
        BY <2>1, PartIsUsed
      <3>1. src = part[f] /\ i.op \in Through
        BY <2>1, <3>0 DEF Source, Through, Fetching
      <3> QED
        BY <1>1, <1>2, <2>1, <3>1 DEF Finds, CInv, Typed
    <2>2. CASE ~UsesPart(w) /\ i.op = "read"
      <3> DEFINE b == i.win.spill.bytes
      <3>1. src = File(b)
        BY <2>2 DEF Source
      <3>2. b \in Seq(Versions) /\ NoneOlder(b, i.win.etag)
        BY <1>2 DEF Collected
      <3>3. i.win.etag = i.etag /\ Len(b) = Length[i.etag]
        BY <1>1, <1>2, <2>2 DEF Carries
      <3>4. NoOlder(b, i.etag)
        BY <1>2, <3>2, <3>3, VersionsAre DEF NoOlder, NoneOlder
      <3> HIDE DEF b
      <3> QED
        BY <3>1, <3>2, <3>4, FileIs
    <2>3. CASE ~UsesPart(w) /\ i.op = "hydrate"
      <3>1. src = File(i.bytes)
        BY <2>3 DEF Source
      <3>2. NoOlder(i.bytes, i.etag)
        BY <1>1, <1>2, <2>3 DEF Carries
      <3> QED
        BY <1>2, <3>1, <3>2, FileIs
    <2> QED
      BY <1>2, <2>1, <2>2, <2>3, PartIsUsed
  <1>5. CASE ~src.there
    <2>1. work' = [work EXCEPT ![w].pc = p, ![w].at = "nowhere"] /\ UNCHANGED blob
      BY <1>5 DEF Renames
    <2>2. p \in {"unlock", "failed"}
      BY DEF GivesUp
    <2>3. work = [v \in Threads |-> work[v]]
      BY DEF CInv, Typed
    <2> HIDE DEF p
    <2>4. Only(w, Told(i.op, i.file, i.etag, p, i.off, i.win, i.bytes, i.doomed, i.lock, i.guard, "nowhere", i.going))
      BY <2>1, <2>3, LetsGo
    <2>5. UNCHANGED <<row, server, blob, sidecar, windows, requests>> /\ i.pc # "idle"
      BY <1>1, <2>1
    <2>6. part' = part \/ (Staging(i) /\ Puts(f, NoFile))
      BY <1>1, <1>3 DEF Puts
    <2> QED
      BY <2>2, <2>4, <2>5, <2>6, GivesUpKeeps
  <1>6. CASE src.there
    <2> DEFINE nil == <<>>
               t == Told(i.op, i.file, i.etag, "seal", i.off, NoWindow, nil, i.doomed, i.lock, i.guard, "nowhere", i.going)
    <2>1. /\ work' = [m EXCEPT ![w].pc = "seal", ![w].at = "nowhere", ![w].win = NoWindow, ![w].bytes = nil]
          /\ blob' = [blob EXCEPT ![f] = src]
      BY <1>6 DEF Renames
    <2>2. freed = work /\ work = [v \in Threads |-> work[v]]
      BY NobodyElseHasIt DEF CInv, Typed
    <2>3. /\ m = [v \in Threads |-> m[v]] /\ \A v \in Threads \ {w} : m[v] = work[v]
          /\ m[w] = i \/ m[w] = [i EXCEPT !.at = "blob"]
      <3>1. CASE ~UsesPart(w)
        BY <2>2, <3>1
      <3>2. CASE UsesPart(w)
        <4>1. m = [v \in Threads |-> IF v \in Busy(f) /\ work[v].at = "part" THEN [work[v] EXCEPT !.at = "blob"]
                                     ELSE work[v]]
          BY <2>2, <3>2
        <4>2. \A v \in Threads \ {w} : ~(v \in Busy(f) /\ work[v].at = "part")
          BY <1>3, <3>2, NobodyElseHasIt
        <4> HIDE DEF m, f
        <4> QED
          BY <4>1, <4>2
      <3> QED
        BY <3>1, <3>2
    <2> HIDE DEF m, nil
    <2>4. Only(w, t)
      <3> DEFINE win == NoWindow
      <3> HIDE DEF win
      <3>1. work' = [m EXCEPT ![w].pc = "seal", ![w].at = "nowhere", ![w].win = win, ![w].bytes = nil]
        BY <2>1 DEF win
      <3>2. Only(w, Told(i.op, i.file, i.etag, "seal", i.off, win, nil, i.doomed, i.lock, i.guard, "nowhere", i.going))
        BY <2>3, <3>1, HandsIn
      <3> QED
        BY <3>2 DEF win
    <2>5. nil \in Seq(Versions) /\ nil = <<>>
      BY EmptySeq DEF nil
    <2>6. Job(t)
      <3>1. "nowhere" = Handle(i.op, "seal")
        BY DEF Handle
      <3> QED
        BY <2>5, <3>1, NoWindowIsCollected, Retold
    <2>7. t.op = i.op /\ t.file = i.file /\ t.etag = i.etag /\ t.pc = "seal" /\ t.bytes = nil
      <3> DEFINE win == NoWindow
      <3> HIDE DEF i, win
      <3> QED
        BY DEF Told
    <2> HIDE DEF t
    <2>8. Placed(t) /\ Carries(t) /\ Abreast(t) /\ ~Staging(t)
      BY <1>2, <2>5, <2>7 DEF Placed, Carries, Abreast, Staging
    <2>9. /\ blob' \in [Files -> [there : BOOLEAN, bytes : Seq(Versions)]] /\ blob'[f] = src
          /\ \A g \in Files \ {f} : blob'[g] = blob[g]
      BY <1>2, <1>4, <2>1, BlobsStand
    <2>10. /\ part' \in [Files -> [there : BOOLEAN, bytes : Seq(Versions)]]
           /\ \A g \in Files : part'[g] = part[g] \/ (g = f /\ ~part'[g].there)
      <3>1. CASE UsesPart(w)
        BY <1>1, <1>2, <3>1, FileIs, PartsStand
      <3>2. CASE ~UsesPart(w)
        BY <1>1, <3>2 DEF CInv, Typed
      <3> QED
        BY <3>1, <3>2
    <2>11. Typed' /\ Asked'
      BY <1>1, <2>4, <2>9, <2>10, Others DEF CInv, Typed, Asked
    <2>12. ASSUME NEW v \in Threads PROVE Finds(work[v])'
      <3>1. CASE v = w
        <4>1. work'[v] = t
          BY <2>4, <3>1, Others
        <4> QED
          BY <1>2, <1>4, <2>7, <2>9, <4>1 DEF Finds
      <3>2. CASE v # w
        <4>1. work'[v] = work[v] /\ Finds(work[v])
          BY <2>4, <3>2, Others
        <4> DEFINE j == work[v]
        <4>2. j.pc # "idle" => j.file \in Files /\ j.etag = row[j.file]
          BY DEF CInv, Sound, Abreast
        <4> HIDE DEF j
        <4>3. j.op \in Through /\ j.pc \in {"bare", "rename"} /\ part'[j.file].there => NoOlder(part'[j.file].bytes, j.etag)
          BY <2>10, <4>1, <4>2 DEF Finds, j
        <4>4. j.pc \in {"seal", "open"} /\ blob'[j.file].there => NoOlder(blob'[j.file].bytes, j.etag)
          BY <1>2, <1>4, <2>9, <4>1, <4>2 DEF Finds, j
        <4>5. j.pc = "rename" => sidecar'[j.file] \in {NoVersion, j.etag}
          BY <1>1, <4>1 DEF Finds, j
        <4> QED
          BY <4>1, <4>3, <4>4, <4>5 DEF Finds, j
      <3> QED
        BY <3>1, <3>2
    <2>13. \A g \in Files : Claims(g)'
      BY <1>1, <1>2, <1>4, <2>9 DEF CInv, Claims, Finds
    <2>14. UNCHANGED row
      BY <1>1
    <2> QED
      BY <2>4, <2>6, <2>8, <2>11, <2>12, <2>13, <2>14, Moves
  <1> QED
    BY <1>5, <1>6

LEMMA EvictsBlobKeeps == ASSUME CInv, NEW w \in Threads, NEW g \in Files, EvictsBlob(w, g) PROVE CInv'
  <1> DEFINE i == work[w]
             x == NoFile
             k == [i EXCEPT !.pc = "doomed", !.going = g]
             t == Told(i.op, i.file, i.etag, "doomed", i.off, i.win, i.bytes, i.doomed, i.lock, i.guard, i.at, g)
  <1>1. i.pc = "doom" /\ UNCHANGED <<row, server, sidecar, part, windows, requests>>
        /\ blob' = [blob EXCEPT ![g] = x] /\ Moved(work, "blob", "nowhere", g) = work
    BY NobodyElseHasIt DEF EvictsBlob, At, facts, memory
  <1>2. Only(w, t)
    <2>1. work' = [work EXCEPT ![w] = k]
      BY <1>1 DEF EvictsBlob
    <2>2. i = Told(i.op, i.file, i.etag, i.pc, i.off, i.win, i.bytes, i.doomed, i.lock, i.guard, i.at, i.going)
      BY IsTold
    <2>3. k = t
      <3> HIDE DEF i
      <3> SUFFICES ASSUME NEW y, y = k PROVE y = t
        OBVIOUS
      <3> QED
        BY <2>2 DEF Told
    <2> HIDE DEF k
    <2> QED
      BY <2>1, <2>3, Changed
  <1>3. Placed(i) /\ Carries(i) /\ Abreast(i) /\ Collected(i.win) /\ i.bytes \in Seq(Versions)
    BY Holds DEF CInv, Sound
  <1>4. Job(t)
    <2>1. i.at = Handle(i.op, "doomed")
      BY <1>1 DEF Handle, CInv, Sound, Job, Staging
    <2> QED
      BY <1>3, <2>1, Retold
  <1>5. t.op = i.op /\ t.file = i.file /\ t.etag = i.etag /\ t.pc = "doomed" /\ t.win = i.win /\ t.bytes = i.bytes
    <2> HIDE DEF i
    <2> QED
      BY DEF Told
  <1> HIDE DEF t
  <1>6. Placed(t) /\ Carries(t) /\ Abreast(t) /\ ~Staging(t)
    BY <1>1, <1>3, <1>5 DEF Placed, Carries, Abreast, Staging
  <1>7. x \in [there : BOOLEAN, bytes : Seq(Versions)] /\ ~x.there
    BY FileIs
  <1> HIDE DEF x
  <1>8. /\ blob' \in [Files -> [there : BOOLEAN, bytes : Seq(Versions)]] /\ ~blob'[g].there
        /\ \A f \in Files \ {g} : blob'[f] = blob[f]
    BY <1>1, <1>7, BlobsStand
  <1>9. Typed' /\ Asked' /\ \A f \in Files : Claims(f)'
    BY <1>1, <1>2, <1>8, Others DEF CInv, Typed, Asked, Claims
  <1>10. ASSUME NEW v \in Threads PROVE Finds(work[v])'
    <2>1. CASE v = w
      <3>1. work'[v] = t
        BY <1>2, <2>1, Others
      <3> QED
        BY <1>5, <3>1 DEF Finds
    <2>2. CASE v # w
      <3>1. work'[v] = work[v] /\ Finds(work[v])
        BY <1>2, <2>2, Others
      <3>2. work[v].pc \in {"seal", "open"} => work[v].file \in Files
        BY DEF CInv, Sound, Abreast
      <3>3. work[v].pc \in {"seal", "open"} => ~blob'[work[v].file].there \/ blob'[work[v].file] = blob[work[v].file]
        BY <1>8, <3>2
      <3>4. UNCHANGED <<part, sidecar>>
        BY <1>1
      <3> QED
        BY <3>1, <3>3, <3>4 DEF Finds
    <2> QED
      BY <2>1, <2>2
  <1>11. UNCHANGED row
    BY <1>1
  <1> QED
    BY <1>2, <1>4, <1>6, <1>9, <1>10, <1>11, Moves

LEMMA EvictsSidecarKeeps == ASSUME CInv, NEW w \in Threads, EvictsSidecar(w) PROVE CInv'
  <1> DEFINE i == work[w]
             g == i.going
             left == i.doomed \ {g}
             pc == IF left = {} THEN "done" ELSE "doom"
             k == [i EXCEPT !.doomed = left, !.going = NoOne, !.pc = pc]
             t == Told(i.op, i.file, i.etag, pc, i.off, i.win, i.bytes, left, i.lock, i.guard, i.at, NoOne)
  <1>1. i.pc = "doomed" /\ UNCHANGED <<row, server, blob, part, windows, requests>>
        /\ sidecar' = [sidecar EXCEPT ![g] = NoVersion]
    BY DEF EvictsSidecar, At, facts, memory
  <1>2. Only(w, t)
    <2>1. work' = [work EXCEPT ![w] = k]
      BY DEF EvictsSidecar
    <2>2. i = Told(i.op, i.file, i.etag, i.pc, i.off, i.win, i.bytes, i.doomed, i.lock, i.guard, i.at, i.going)
      BY IsTold
    <2>3. k = t
      <3> HIDE DEF i, left, pc
      <3> SUFFICES ASSUME NEW y, y = k PROVE y = t
        OBVIOUS
      <3> QED
        BY <2>2 DEF Told
    <2> HIDE DEF k
    <2> QED
      BY <2>1, <2>3, Changed
  <1>3. Placed(i) /\ Carries(i) /\ Abreast(i) /\ Collected(i.win) /\ i.bytes \in Seq(Versions)
    BY Holds DEF CInv, Sound
  <1>4. pc \in {"done", "doom"}
    OBVIOUS
  <1> HIDE DEF left, pc
  <1>5. Job(t)
    <2>1. i.at = Handle(i.op, pc)
      BY <1>1, <1>4 DEF Handle, CInv, Sound, Job, Staging
    <2> QED
      BY <1>3, <2>1, Retold
  <1>6. t.op = i.op /\ t.file = i.file /\ t.etag = i.etag /\ t.pc = pc /\ t.win = i.win /\ t.bytes = i.bytes
    <2> HIDE DEF i
    <2> QED
      BY DEF Told
  <1> HIDE DEF t
  <1>7. Placed(t) /\ Carries(t) /\ Abreast(t) /\ ~Staging(t)
    BY <1>1, <1>3, <1>4, <1>6 DEF Placed, Carries, Abreast, Staging
  <1>8. sidecar' \in [Files -> Versions \cup {NoVersion}] /\ \A f \in Files : sidecar'[f] \in {sidecar[f], NoVersion}
    BY <1>1 DEF CInv, Typed
  <1>9. Typed' /\ Asked' /\ \A f \in Files : Claims(f)'
    BY <1>1, <1>2, <1>8, Others DEF CInv, Typed, Asked, Claims
  <1>10. ASSUME NEW v \in Threads PROVE Finds(work[v])'
    <2>1. CASE v = w
      <3>1. work'[v] = t
        BY <1>2, <2>1, Others
      <3> QED
        BY <1>4, <1>6, <3>1 DEF Finds
    <2>2. CASE v # w
      <3>1. work'[v] = work[v] /\ Finds(work[v])
        BY <1>2, <2>2, Others
      <3>2. work[v].pc = "rename" => work[v].file \in Files
        BY DEF CInv, Sound, Abreast
      <3>3. work[v].pc = "rename" => sidecar'[work[v].file] \in {sidecar[work[v].file], NoVersion}
        BY <1>8, <3>2
      <3>4. UNCHANGED <<part, blob>>
        BY <1>1
      <3> QED
        BY <3>1, <3>3, <3>4 DEF Finds
    <2> QED
      BY <2>1, <2>2
  <1>11. UNCHANGED row
    BY <1>1
  <1> QED
    BY <1>2, <1>5, <1>7, <1>9, <1>10, <1>11, Moves

-----------------------------------------------------------------------------
(* The whole.                                                               *)

LEMMA CInvHoldsFirst == Init => CInv
  <1> SUFFICES ASSUME Init PROVE CInv
    OBVIOUS
  <1>1. NoFile \in [there : BOOLEAN, bytes : Seq(Versions)] /\ ~NoFile.there
    BY FileIs
  <1>2. 1 \in Versions
    <2>1. Len(Length) \in Nat \ {0} /\ Versions = 1..Len(Length)
      BY ContentAssumption, LenProperties, EmptySeq DEF Versions
    <2> QED
      BY <2>1
  <1>3. row \in [Files -> Versions] /\ server \in [Files -> Versions] /\ \A f \in Files : row[f] <= server[f]
    BY <1>2, VersionsAre DEF Init
  <1>4. blob = [f \in Files |-> NoFile] /\ part = [f \in Files |-> NoFile] /\ windows = [f \in Files |-> NoWindow]
        /\ sidecar = [f \in Files |-> NoVersion] /\ requests = <<>> /\ work = [w \in Threads |-> Idle]
    BY DEF Init
  <1>5. Typed
    <2>1. requests \in Seq([file : Files, etag : Versions])
      BY <1>4, EmptySeq
    <2>2. \A f \in Files : Collected(windows[f])
      BY <1>4, NoWindowIsCollected
    <2> QED
      BY <1>1, <1>3, <1>4, <2>1, <2>2 DEF Typed
  <1>6. Asked /\ \A f \in Files : Claims(f)
    BY <1>1, <1>4, EmptySeq DEF Asked, Claims
  <1>7. \A w \in Threads : Sound(work[w]) /\ ~Staging(work[w])
    BY <1>4, IdleIsSound
  <1> QED
    BY <1>5, <1>6, <1>7 DEF CInv, Apart

LEMMA StepsKeep == ASSUME CInv, Orderly, NEW w \in Threads, Steps(w) PROVE CInv'
  BY LooksKeeps, TakesWindowKeeps, FetchesKeeps, TakesLockKeeps, EntersKeeps, MarksKeeps, OpensKeeps, UnlocksKeeps,
     CollectsKeeps, FillsDirectlyKeeps, StagesKeeps, StreamsKeeps, StreamFailsKeeps, BaresKeeps, RenamesKeeps,
     SealsKeeps, PicksDoomedKeeps, EvictsBlobKeeps, EvictsSidecarKeeps, EndsKeeps DEF Steps

LEMMA NextKeeps == CInv /\ Orderly /\ [Next]_vars => CInv'
  <1> SUFFICES ASSUME CInv, Orderly, [Next]_vars PROVE CInv'
    OBVIOUS
  <1>1. ASSUME NEW w \in Threads, Steps(w) PROVE CInv'
    BY <1>1, StepsKeep
  <1>2. ASSUME NEW w \in Workers, NEW f \in Files, Begins(w, f) PROVE CInv'
    BY <1>2, BeginsKeeps, StartsStoreKeeps DEF Begins
  <1>3. CASE Hydrates
    BY <1>3, HydratesKeeps
  <1>4. CASE Crash
    BY <1>4, CrashKeeps
  <1>5. CASE \/ \E f \in Files : Unpins(f) \/ ForeignPut(f)
             \/ \E w \in Workers \cup {NoOne}, f \in Files : Walk(w, f)
             \/ ServerGoes \/ ServerComes
    BY <1>5, WorldKeeps
  <1>6. CASE UNCHANGED vars
    <2>1. UNCHANGED <<work, blob, sidecar, part, row, server, windows, requests>>
      BY <1>6 DEF vars, facts, disk, memory
    <2>2. Typed' /\ Asked'
      BY <2>1 DEF CInv, Typed, Asked
    <2> QED
      BY <2>1, <2>2, Stays
  <1>7. \/ \E w \in Threads : Steps(w)
        \/ \E w \in Workers, f \in Files : Begins(w, f)
        \/ Hydrates \/ Crash
        \/ \E f \in Files : Unpins(f) \/ ForeignPut(f)
        \/ \E w \in Workers \cup {NoOne}, f \in Files : Walk(w, f)
        \/ ServerGoes \/ ServerComes
        \/ UNCHANGED vars
    BY DEF Next, Acts
  <1> QED
    BY <1>1, <1>2, <1>3, <1>4, <1>5, <1>6, <1>7

\* A copy that claims a version is that version or a newer one, whole, for any number of files, threads,
\* versions and operations -- when no publisher works on a version its row has left and no two stage one
\* file. (content.rs cached_is_fresh, publish_blob.)
THEOREM CopiesAreWhatTheyClaim == ASSUME Orderly PROVE Spec => []FreshIsTrue
  <1>1. CInv => FreshIsTrue
    BY DEF CInv, Claims, FreshIsTrue
  <1>2. CInv /\ [Next]_vars => CInv'
    BY NextKeeps
  <1> QED
    BY CInvHoldsFirst, <1>1, <1>2, PTL DEF Spec

\* What an editor is handed is no older than the version its upload will be compared with, under the same
\* premise. (content.rs stream_to.)
THEOREM EditorsAreNotMisled == ASSUME Orderly PROVE Spec => []FillsAreNoOlder
  <1>1. CInv => FillsAreNoOlder
    BY DEF CInv, Sound, Carries, FillsAreNoOlder, At
  <1>2. CInv /\ [Next]_vars => CInv'
    BY NextKeeps
  <1> QED
    BY CInvHoldsFirst, <1>1, <1>2, PTL DEF Spec

-----------------------------------------------------------------------------
(* What is kept on purpose. Of a set X of files that no eviction overtakes   *)
(* while they are being pinned: whatever is on an eviction's list is neither *)
(* marked nor being marked.                                                  *)

Shape(j) == j = Told(j.op, j.file, j.etag, j.pc, j.off, j.win, j.bytes, j.doomed, j.lock, j.guard, j.at, j.going)
FileShape(x) == x = [there |-> x.there, bytes |-> x.bytes]

OnDisk ==
    /\ blob = [f \in Files |-> blob[f]] /\ part = [f \in Files |-> part[f]]
    /\ \A f \in Files : FileShape(blob[f]) /\ FileShape(part[f])
    /\ marker \in [Files -> BOOLEAN]

Formed(j) == Shape(j) /\ Placed(j) /\ (j.pc = "mark" => j.op \in Keeping)

\* Who keeps a file finds it there once it is published.
Keeps(X, j) ==
    j.op \in Keeping =>
        j.file \in Files /\ (j.pc \in {"seal", "mark"} /\ j.file \in X => blob[j.file].there)

\* What is about to go is neither kept nor being kept.
Unkept(f) == ~marker[f] /\ \A v \in Threads : work[v].op \in Keeping => work[v].file # f
Doomed(X, j) == j.doomed \subseteq Files /\ \A f \in j.doomed \cap X : Unkept(f)

KInv(X) ==
    /\ OnDisk /\ work = [w \in Threads |-> work[w]]
    /\ \A w \in Threads : Formed(work[w]) /\ Keeps(X, work[w]) /\ Doomed(X, work[w])
    /\ \A f \in X : marker[f] => blob[f].there

\* One thread moves; nothing that is kept goes, nothing is marked.
LEMMA KMoves ==
    ASSUME NEW X \in SUBSET Files, KInv(X), NEW w \in Threads, NEW j, work' = [v \in Threads |-> work'[v]], work'[w] = j, Formed(j),
           \A v \in Threads \ {w} : Formed(work'[v]) /\ work'[v].op = work[v].op /\ work'[v].pc = work[v].pc
                                    /\ work'[v].file = work[v].file /\ work'[v].doomed = work[v].doomed,
           OnDisk', \A f \in X : blob[f].there => blob'[f].there \/ Unkept(f), \A f \in Files : marker'[f] => marker[f],
           j.op \in Keeping => work[w].op \in Keeping /\ j.file = work[w].file,
           j.op \in Keeping /\ j.pc \in {"seal", "mark"} /\ j.file \in X => blob'[j.file].there,
           j.doomed \subseteq work[w].doomed
    PROVE  KInv(X)'
  <1>1. ASSUME NEW v \in Threads PROVE Keeps(X, work[v])'
    <2>1. CASE v = w
      BY <2>1 DEF KInv, Keeps
    <2>2. CASE v # w
      BY <2>2 DEF KInv, Keeps, Unkept
    <2> QED
      BY <2>1, <2>2
  <1>2. \A v \in Threads : work'[v].op \in Keeping => work[v].op \in Keeping /\ work'[v].file = work[v].file
    OBVIOUS
  <1>3. \A v \in Threads : work'[v].doomed \subseteq work[v].doomed
    OBVIOUS
  <1>4. ASSUME NEW v \in Threads PROVE Doomed(X, work[v])'
    <2>1. Doomed(X, work[v])
      BY DEF KInv
    <2> QED
      BY <1>2, <1>3, <2>1 DEF Doomed, Unkept
  <1>5. \A v \in Threads : Formed(work[v])'
    BY DEF Formed, Shape, Placed
  <1>6. \A f \in X : marker'[f] => blob'[f].there
    BY DEF KInv, Unkept
  <1> QED
    BY <1>1, <1>4, <1>5, <1>6 DEF KInv

LEMMA KTurns ==
    ASSUME NEW X \in SUBSET Files, KInv(X), NEW w \in Threads, NEW j, Only(w, j), Formed(j), UNCHANGED <<blob, part, marker>>,
           j.op \in Keeping => work[w].op \in Keeping /\ j.file = work[w].file,
           j.op \in Keeping /\ j.pc \in {"seal", "mark"} /\ j.file \in X => blob[j.file].there,
           j.doomed \subseteq work[w].doomed
    PROVE  KInv(X)'
  <1>1. work' = [v \in Threads |-> work'[v]] /\ work'[w] = j /\ \A v \in Threads \ {w} : work'[v] = work[v]
    BY DEF Only
  <1>2. \A v \in Threads : Formed(work[v])
    BY DEF KInv
  <1>3. OnDisk'
    BY DEF KInv, OnDisk, FileShape
  <1> QED
    BY <1>1, <1>2, <1>3, KMoves

LEMMA KIdle == Formed(Idle) /\ Idle.op \notin Keeping /\ Idle.doomed = {} /\ Idle.pc = "idle"
  <1> DEFINE x == Idle
  <1>1. Shape(x)
    BY DEF Idle, Told, Shape
  <1>2. x.op = "none" /\ x.pc = "idle" /\ x.doomed = {}
    BY DEF Idle
  <1> HIDE DEF x
  <1>3. Placed(x) /\ Formed(x) /\ x.op \notin Keeping
    BY <1>1, <1>2 DEF Placed, Formed, Keeping
  <1> QED
    BY <1>2, <1>3 DEF x

LEMMA KFinishes ==
    ASSUME NEW X \in SUBSET Files, KInv(X), NEW w \in Threads, Finishes(w), UNCHANGED <<blob, part, marker>> PROVE KInv(X)'
  <1>1. Only(w, Idle)
    BY DEF Finishes, Only, KInv
  <1> QED
    BY <1>1, KIdle, KTurns

\* What is seen of a thread's record.
LEMMA ToldIs ==
    ASSUME NEW op, NEW file, NEW etag, NEW pc, NEW off, NEW win, NEW bytes, NEW doomed, NEW lock, NEW guard, NEW at,
           NEW going, NEW x, x = Told(op, file, etag, pc, off, win, bytes, doomed, lock, guard, at, going)
    PROVE  Shape(x) /\ x.op = op /\ x.file = file /\ x.pc = pc /\ x.doomed = doomed
  BY DEF Shape, Told

LEMMA KTold ==
    ASSUME NEW X \in SUBSET Files, KInv(X), NEW w \in Threads,
           NEW op, NEW file, NEW etag, NEW pc, NEW off, NEW win, NEW bytes, NEW doomed, NEW lock, NEW guard, NEW at,
           NEW going, Only(w, Told(op, file, etag, pc, off, win, bytes, doomed, lock, guard, at, going)),
           pc \in {"look", "local", "window", "fetch"} => op = "read",
           pc \in {"lock", "wait"} => op \in Fetching,
           pc \in {"open", "direct"} => op \in {"fill", "refill"},
           pc \in {"stage", "stream"} => op \in Through \cup {"hydrate"},
           pc \in {"bare", "rename"} => op \in Through \cup {"hydrate", "read"},
           pc = "mark" => op \in Keeping, UNCHANGED <<blob, part, marker>>,
           op \in Keeping => work[w].op \in Keeping /\ file = work[w].file,
           op \in Keeping /\ pc \in {"seal", "mark"} /\ file \in X => blob[file].there,
           doomed \subseteq work[w].doomed
    PROVE  KInv(X)'
  <1> DEFINE j == Told(op, file, etag, pc, off, win, bytes, doomed, lock, guard, at, going)
  <1>1. Shape(j) /\ j.op = op /\ j.file = file /\ j.pc = pc /\ j.doomed = doomed
    BY ToldIs
  <1>2. Only(w, j)
    OBVIOUS
  <1> HIDE DEF j
  <1>3. Formed(j)
    BY <1>1 DEF Formed, Placed
  <1> QED
    BY <1>1, <1>2, <1>3, KTurns

LEMMA KChanged ==
    ASSUME NEW X \in SUBSET Files, KInv(X), NEW w \in Threads, NEW j, work' = [work EXCEPT ![w] = j] PROVE Only(w, j)
  BY DEF Only, KInv

LEMMA KIsTold ==
    ASSUME NEW X \in SUBSET Files, KInv(X), NEW w \in Threads
    PROVE  LET i == work[w] IN
           /\ i = Told(i.op, i.file, i.etag, i.pc, i.off, i.win, i.bytes, i.doomed, i.lock, i.guard, i.at, i.going)
           /\ Placed(i) /\ (i.pc = "mark" => i.op \in Keeping)
           /\ i.op \in Keeping => i.file \in Files
           /\ i.op \in Keeping /\ i.pc \in {"seal", "mark"} /\ i.file \in X => blob[i.file].there
  BY DEF KInv, Formed, Shape, Keeps

LEMMA KGoes ==
    ASSUME NEW X \in SUBSET Files, KInv(X), NEW w \in Threads, NEW p, Goes(w, p), UNCHANGED <<blob, part, marker>>,
           p \in {"look", "local", "window", "fetch"} => work[w].op = "read",
           p \in {"lock", "wait"} => work[w].op \in Fetching,
           p \in {"open", "direct"} => work[w].op \in {"fill", "refill"},
           p \in {"stage", "stream"} => work[w].op \in Through \cup {"hydrate"},
           p \in {"bare", "rename"} => work[w].op \in Through \cup {"hydrate", "read"},
           p = "mark" => work[w].op \in Keeping,
           work[w].op \in Keeping /\ p \in {"seal", "mark"} /\ work[w].file \in X => blob[work[w].file].there
    PROVE  KInv(X)'
  <1> DEFINE i == work[w]
             k == [i EXCEPT !.pc = p]
             t == Told(i.op, i.file, i.etag, p, i.off, i.win, i.bytes, i.doomed, i.lock, i.guard, i.at, i.going)
  <1>1. Only(w, t)
    <2>1. work' = [work EXCEPT ![w] = k]
      BY DEF Goes
    <2>2. i = Told(i.op, i.file, i.etag, i.pc, i.off, i.win, i.bytes, i.doomed, i.lock, i.guard, i.at, i.going)
      BY KIsTold
    <2>3. k = t
      <3> HIDE DEF i
      <3> SUFFICES ASSUME NEW x, x = k PROVE x = t
        OBVIOUS
      <3> QED
        BY <2>2 DEF Told
    <2> HIDE DEF k
    <2> QED
      BY <2>1, <2>3, KChanged
  <1> QED
    BY <1>1, KTold

LEMMA KTakesLock == ASSUME NEW X \in SUBSET Files, KInv(X), NEW w \in Threads, TakesLock(w) PROVE KInv(X)'
  <1> DEFINE i == work[w]
             f == i.file
             lock == IF slot[f] = NoOne THEN w ELSE slot[f]
             k == [i EXCEPT !.pc = "wait", !.lock = lock]
             t == Told(i.op, i.file, i.etag, "wait", i.off, i.win, i.bytes, i.doomed, lock, i.guard, i.at, i.going)
  <1>1. Only(w, t)
    <2>1. work' = [work EXCEPT ![w] = k]
      BY DEF TakesLock
    <2>2. i = Told(i.op, i.file, i.etag, i.pc, i.off, i.win, i.bytes, i.doomed, i.lock, i.guard, i.at, i.going)
      BY KIsTold
    <2>3. k = t
      <3> HIDE DEF i, lock
      <3> SUFFICES ASSUME NEW x, x = k PROVE x = t
        OBVIOUS
      <3> QED
        BY <2>2 DEF Told
    <2> HIDE DEF k
    <2> QED
      BY <2>1, <2>3, KChanged
  <1>2. i.pc = "lock" /\ UNCHANGED <<blob, part, marker>> /\ Placed(i)
    BY KIsTold DEF TakesLock, At, facts, disk, memory
  <1>3. i.op \in Fetching
    BY <1>2 DEF Placed
  <1> HIDE DEF lock
  <1> QED
    BY <1>1, <1>2, <1>3, KTold

LEMMA KEnters == ASSUME NEW X \in SUBSET Files, KInv(X), NEW w \in Threads, Enters(w) PROVE KInv(X)'
  <1> DEFINE i == work[w]
             f == i.file
             pc == IF Fresh(f, i.etag) THEN AfterFetch(i.op) ELSE "stage"
             yes == TRUE
             k == [i EXCEPT !.guard = yes, !.pc = pc]
             t == Told(i.op, i.file, i.etag, pc, i.off, i.win, i.bytes, i.doomed, i.lock, yes, i.at, i.going)
  <1>1. Only(w, t)
    <2>1. work' = [work EXCEPT ![w] = k]
      BY DEF Enters
    <2>2. i = Told(i.op, i.file, i.etag, i.pc, i.off, i.win, i.bytes, i.doomed, i.lock, i.guard, i.at, i.going)
      BY KIsTold
    <2>3. k = t
      <3> HIDE DEF i, pc, yes
      <3> SUFFICES ASSUME NEW x, x = k PROVE x = t
        OBVIOUS
      <3> QED
        BY <2>2 DEF Told
    <2> HIDE DEF k
    <2> QED
      BY <2>1, <2>3, KChanged
  <1>2. i.pc = "wait" /\ UNCHANGED <<blob, part, marker>> /\ Placed(i)
    BY KIsTold DEF Enters, At, facts, disk, memory
  <1>3. i.op \in Fetching
    BY <1>2 DEF Placed
  <1>4. /\ pc \in {"stage", "mark", "open"}
        /\ pc = "mark" => i.op \in Keeping /\ blob[i.file].there
        /\ pc = "open" => i.op \in {"fill", "refill"}
    BY <1>3 DEF AfterFetch, Fresh, Keeping, Fetching
  <1>5. i.op \in Through
    BY <1>3 DEF Through
  <1> HIDE DEF pc, yes
  <1> QED
    BY <1>1, <1>2, <1>3, <1>4, <1>5, KTold

LEMMA KOpens == ASSUME NEW X \in SUBSET Files, KInv(X), NEW w \in Threads, Opens(w) PROVE KInv(X)'
  <1> DEFINE i == work[w]
             b == blob[i.file]
             bytes == IF b.there THEN b.bytes ELSE <<>>
             k == [i EXCEPT !.pc = "unlock", !.bytes = bytes]
             t == Told(i.op, i.file, i.etag, "unlock", i.off, i.win, bytes, i.doomed, i.lock, i.guard, i.at, i.going)
  <1>1. Only(w, t)
    <2>1. work' = [work EXCEPT ![w] = k]
      BY DEF Opens
    <2>2. i = Told(i.op, i.file, i.etag, i.pc, i.off, i.win, i.bytes, i.doomed, i.lock, i.guard, i.at, i.going)
      BY KIsTold
    <2>3. k = t
      <3> HIDE DEF i, bytes
      <3> SUFFICES ASSUME NEW x, x = k PROVE x = t
        OBVIOUS
      <3> QED
        BY <2>2 DEF Told
    <2> HIDE DEF k
    <2> QED
      BY <2>1, <2>3, KChanged
  <1>2. i.pc = "open" /\ UNCHANGED <<blob, part, marker>> /\ Placed(i)
    BY KIsTold DEF Opens, At, facts, disk, memory
  <1> HIDE DEF bytes
  <1> QED
    BY <1>1, <1>2, KTold

LEMMA KUnlocks == ASSUME NEW X \in SUBSET Files, KInv(X), NEW w \in Threads, Unlocks(w) PROVE KInv(X)'
  <1> DEFINE i == work[w]
             no == FALSE
             k == [i EXCEPT !.pc = "collect", !.guard = no, !.lock = NoOne]
             t == Told(i.op, i.file, i.etag, "collect", i.off, i.win, i.bytes, i.doomed, NoOne, no, i.at, i.going)
  <1>1. Only(w, t)
    <2>1. work' = [work EXCEPT ![w] = k]
      BY DEF Unlocks
    <2>2. i = Told(i.op, i.file, i.etag, i.pc, i.off, i.win, i.bytes, i.doomed, i.lock, i.guard, i.at, i.going)
      BY KIsTold
    <2>3. k = t
      <3> HIDE DEF i, no
      <3> SUFFICES ASSUME NEW x, x = k PROVE x = t
        OBVIOUS
      <3> QED
        BY <2>2 DEF Told
    <2> HIDE DEF k
    <2> QED
      BY <2>1, <2>3, KChanged
  <1>2. i.pc = "unlock" /\ UNCHANGED <<blob, part, marker>> /\ Placed(i)
    BY KIsTold DEF Unlocks, At, facts, disk, memory
  <1> HIDE DEF no
  <1> QED
    BY <1>1, <1>2, KTold

LEMMA KTakesWindow == ASSUME NEW X \in SUBSET Files, KInv(X), NEW w \in Threads, TakesWindow(w) PROVE KInv(X)'
  <1> DEFINE i == work[w]
             prior == windows[i.file]
             win == IF Continues(prior, w) THEN prior ELSE Window(i.etag, i.off, FreeName)
             k == [i EXCEPT !.pc = "fetch", !.win = win]
             t == Told(i.op, i.file, i.etag, "fetch", i.off, win, i.bytes, i.doomed, i.lock, i.guard, i.at, i.going)
  <1>1. Only(w, t)
    <2>1. work' = [work EXCEPT ![w] = k]
      BY DEF TakesWindow
    <2>2. i = Told(i.op, i.file, i.etag, i.pc, i.off, i.win, i.bytes, i.doomed, i.lock, i.guard, i.at, i.going)
      BY KIsTold
    <2>3. k = t
      <3> HIDE DEF i, win
      <3> SUFFICES ASSUME NEW x, x = k PROVE x = t
        OBVIOUS
      <3> QED
        BY <2>2 DEF Told
    <2> HIDE DEF k
    <2> QED
      BY <2>1, <2>3, KChanged
  <1>2. i.pc = "window" /\ UNCHANGED <<blob, part, marker>> /\ Placed(i)
    BY KIsTold DEF TakesWindow, At, facts, disk, memory
  <1>3. i.op = "read"
    BY <1>2 DEF Placed
  <1> HIDE DEF win
  <1> QED
    BY <1>1, <1>2, <1>3, KTold

LEMMA KEvictsSidecar == ASSUME NEW X \in SUBSET Files, KInv(X), NEW w \in Threads, EvictsSidecar(w) PROVE KInv(X)'
  <1> DEFINE i == work[w]
             left == i.doomed \ {i.going}
             pc == IF left = {} THEN "done" ELSE "doom"
             k == [i EXCEPT !.doomed = left, !.going = NoOne, !.pc = pc]
             t == Told(i.op, i.file, i.etag, pc, i.off, i.win, i.bytes, left, i.lock, i.guard, i.at, NoOne)
  <1>1. Only(w, t)
    <2>1. work' = [work EXCEPT ![w] = k]
      BY DEF EvictsSidecar
    <2>2. i = Told(i.op, i.file, i.etag, i.pc, i.off, i.win, i.bytes, i.doomed, i.lock, i.guard, i.at, i.going)
      BY KIsTold
    <2>3. k = t
      <3> HIDE DEF i, left, pc
      <3> SUFFICES ASSUME NEW x, x = k PROVE x = t
        OBVIOUS
      <3> QED
        BY <2>2 DEF Told
    <2> HIDE DEF k
    <2> QED
      BY <2>1, <2>3, KChanged
  <1>2. i.pc = "doomed" /\ UNCHANGED <<blob, part, marker>> /\ Placed(i)
    BY KIsTold DEF EvictsSidecar, At, facts, disk, memory
  <1>3. pc \in {"done", "doom"} /\ left \subseteq i.doomed
    OBVIOUS
  <1> HIDE DEF left, pc
  <1> QED
    BY <1>1, <1>2, <1>3, KTold

LEMMA KLooks ==
    ASSUME NEW X \in SUBSET Files, KInv(X), NEW w \in Threads, Looks(w) \/ ReadsBlob(w) \/ ServesOutdated(w) \/ HandsOver(w) \/ Collects(w) \/ FetchFails(w)
    PROVE  KInv(X)'
  <1>1. UNCHANGED <<blob, part, marker>>
    BY DEF Looks, ReadsBlob, ServesOutdated, HandsOver, Collects, FetchFails, facts, disk, memory
  <1>2. \/ Finishes(w) \/ Goes(w, "evict")
        \/ (Goes(w, "local") \/ Goes(w, "window")) /\ work[w].pc \in {"look", "local"}
    BY DEF Looks, ReadsBlob, ServesOutdated, HandsOver, Collects, FetchFails, At
  <1>3. work[w].pc \in {"look", "local"} => work[w].op = "read"
    BY KIsTold DEF Placed
  <1> QED
    BY <1>1, <1>2, <1>3, KGoes, KFinishes

LEMMA KBares == ASSUME NEW X \in SUBSET Files, KInv(X), NEW w \in Threads, Bares(w) \/ Seals(w) PROVE KInv(X)'
  <1>1. UNCHANGED <<blob, part, marker>>
    BY DEF Bares, Seals, facts, disk, memory
  <1>2. CASE Bares(w)
    <2>1. Goes(w, "rename") /\ work[w].pc = "bare"
      BY <1>2 DEF Bares, At
    <2>2. work[w].op \in Through \cup {"hydrate", "read"}
      BY <2>1, KIsTold DEF Placed
    <2> QED
      BY <1>1, <2>1, <2>2, KGoes
  <1>3. CASE Seals(w)
    <2> DEFINE p == AfterSeal(work[w].op)
    <2>1. Goes(w, p) /\ work[w].pc = "seal"
      BY <1>3 DEF Seals, At
    <2>2. /\ p \in {"mark", "open", "evict"}
          /\ p = "mark" => work[w].op \in Keeping
          /\ p = "open" => work[w].op \in {"fill", "refill"}
      BY DEF AfterSeal, AfterFetch
    <2>3. work[w].op \in Keeping /\ work[w].file \in X => blob[work[w].file].there
      BY <2>1, KIsTold
    <2> HIDE DEF p
    <2> QED
      BY <1>1, <2>1, <2>2, <2>3, KGoes
  <1> QED
    BY <1>2, <1>3

LEMMA KFetches == ASSUME NEW X \in SUBSET Files, KInv(X), NEW w \in Threads, Fetches(w) PROVE KInv(X)'
  <1> DEFINE i == work[w]
             win == Advanced(w)
             k == [i EXCEPT !.pc = "bare", !.win = win]
             t == Told(i.op, i.file, i.etag, "bare", i.off, win, i.bytes, i.doomed, i.lock, i.guard, i.at, i.going)
  <1>1. i.pc = "fetch" /\ UNCHANGED <<blob, part, marker>> /\ i.op = "read"
    BY KIsTold DEF Fetches, At, Placed
  <1>2. CASE Finishes(w)
    BY <1>1, <1>2, KFinishes
  <1>3. CASE work' = [work EXCEPT ![w].pc = "bare", ![w].win = win]
    <2>1. Only(w, t)
      <3>1. work' = [work EXCEPT ![w] = k]
        BY <1>3
      <3>2. i = Told(i.op, i.file, i.etag, i.pc, i.off, i.win, i.bytes, i.doomed, i.lock, i.guard, i.at, i.going)
        BY KIsTold
      <3>3. k = t
        <4> HIDE DEF i, win
        <4> SUFFICES ASSUME NEW x, x = k PROVE x = t
          OBVIOUS
        <4> QED
          BY <3>2 DEF Told
      <3> HIDE DEF k
      <3> QED
        BY <3>1, <3>3, KChanged
    <2> HIDE DEF win
    <2> QED
      BY <1>1, <2>1, KTold
  <1> QED
    BY <1>2, <1>3 DEF Fetches

LEMMA KFillsDirectly == ASSUME NEW X \in SUBSET Files, KInv(X), NEW w \in Threads, FillsDirectly(w) PROVE KInv(X)'
  <1> DEFINE i == work[w]
             pc == IF i.op = "refill" THEN "stage" ELSE "filled"
             op == IF i.op = "refill" THEN "store" ELSE i.op
             bytes == Bytes(server[i.file])
             k == [i EXCEPT !.pc = pc, !.op = op, !.bytes = bytes]
             t == Told(op, i.file, i.etag, pc, i.off, i.win, bytes, i.doomed, i.lock, i.guard, i.at, i.going)
  <1>1. i.pc = "direct" /\ UNCHANGED <<blob, part, marker>> /\ i.op \in {"fill", "refill"}
    BY KIsTold DEF FillsDirectly, At, Placed, facts, disk, memory
  <1>2. CASE ~Arrives(w)
    BY <1>1, <1>2, KFinishes DEF FillsDirectly
  <1>3. CASE Arrives(w)
    <2>1. Only(w, t)
      <3>1. work' = [work EXCEPT ![w] = k]
        BY <1>3 DEF FillsDirectly
      <3>2. i = Told(i.op, i.file, i.etag, i.pc, i.off, i.win, i.bytes, i.doomed, i.lock, i.guard, i.at, i.going)
        BY KIsTold
      <3>3. k = t
        <4> HIDE DEF i, pc, op, bytes
        <4> SUFFICES ASSUME NEW x, x = k PROVE x = t
          OBVIOUS
        <4> QED
          BY <3>2 DEF Told
      <3> HIDE DEF k
      <3> QED
        BY <3>1, <3>3, KChanged
    <2>2. (pc = "stage" /\ op = "store") \/ (pc = "filled" /\ op = "fill")
      BY <1>1
    <2>3. op \notin Keeping /\ (pc = "stage" => op \in Through)
      BY <2>2 DEF Keeping, Through
    <2> HIDE DEF op, pc, bytes
    <2> QED
      BY <1>1, <2>1, <2>2, <2>3, KTold
  <1> QED
    BY <1>2, <1>3

LEMMA KEnds == ASSUME NEW X \in SUBSET Files, KInv(X), NEW w \in Threads, Ends(w) PROVE KInv(X)'
  <1> DEFINE i == work[w]
             k == [i EXCEPT !.op = "store", !.pc = "stage"]
             t == Told("store", i.file, i.etag, "stage", i.off, i.win, i.bytes, i.doomed, i.lock, i.guard, i.at, i.going)
  <1>1. UNCHANGED <<blob, part, marker>>
    BY DEF Ends, facts, disk, memory
  <1>2. CASE Finishes(w)
    BY <1>1, <1>2, KFinishes
  <1>3. CASE Goes(w, "filled")
    BY <1>1, <1>3, KGoes
  <1>4. CASE work' = [work EXCEPT ![w].op = "store", ![w].pc = "stage"]
    <2>1. Only(w, t)
      <3>1. work' = [work EXCEPT ![w] = k]
        BY <1>4
      <3>2. i = Told(i.op, i.file, i.etag, i.pc, i.off, i.win, i.bytes, i.doomed, i.lock, i.guard, i.at, i.going)
        BY KIsTold
      <3>3. k = t
        <4> HIDE DEF i
        <4> SUFFICES ASSUME NEW x, x = k PROVE x = t
          OBVIOUS
        <4> QED
          BY <3>2 DEF Told
      <3> HIDE DEF k
      <3> QED
        BY <3>1, <3>3, KChanged
    <2>2. "store" \notin Keeping /\ "store" \in Through
      BY DEF Keeping, Through
    <2> QED
      BY <1>1, <2>1, <2>2, KTold
  <1> QED
    BY <1>2, <1>3, <1>4 DEF Ends

\* A thread's handle is called something else.
Adrift(i, at) ==
    Told(i.op, i.file, i.etag, i.pc, i.off, i.win, i.bytes, i.doomed, i.lock, i.guard, at, i.going)
Drift(m) == m = [v \in Threads |-> m[v]] /\ \A v \in Threads : \E at : m[v] = Adrift(work[v], at)

LEMMA AdriftIs ==
    ASSUME NEW i, NEW at
    PROVE  LET x == Adrift(i, at) IN
           /\ x.op = i.op /\ x.file = i.file /\ x.etag = i.etag /\ x.pc = i.pc /\ x.off = i.off /\ x.win = i.win
           /\ x.bytes = i.bytes /\ x.doomed = i.doomed /\ x.lock = i.lock /\ x.guard = i.guard /\ x.going = i.going
           /\ Shape(x) /\ (Placed(i) => Placed(x)) /\ (Formed(i) => Formed(x))
           /\ \A b : [x EXCEPT !.at = b] = Adrift(i, b)
  <1> DEFINE x == Adrift(i, at)
  <1>1. /\ x.op = i.op /\ x.file = i.file /\ x.etag = i.etag /\ x.pc = i.pc /\ x.off = i.off /\ x.win = i.win
        /\ x.bytes = i.bytes /\ x.doomed = i.doomed /\ x.lock = i.lock /\ x.guard = i.guard /\ x.going = i.going
    BY DEF Adrift, Told
  <1>2. Shape(x)
    BY DEF Shape, Adrift, Told
  <1>3. \A b : [x EXCEPT !.at = b] = Adrift(i, b)
    BY DEF Adrift, Told
  <1> HIDE DEF x
  <1>4. Placed(i) => Placed(x)
    BY <1>1 DEF Placed
  <1>5. Formed(i) => Formed(x)
    BY <1>1, <1>2, <1>4 DEF Formed
  <1> QED
    BY <1>1, <1>2, <1>3, <1>4, <1>5 DEF x

LEMMA NobodyDrifts == ASSUME NEW X \in SUBSET Files, KInv(X) PROVE Drift(work)
  <1>1. ASSUME NEW v \in Threads PROVE work[v] = Adrift(work[v], work[v].at)
    BY KIsTold DEF Adrift
  <1> QED
    BY <1>1 DEF Drift, KInv

LEMMA DriftsOn ==
    ASSUME NEW m, Drift(m), NEW to, NEW n, n = [v \in Threads |-> n[v]],
           \A v \in Threads : n[v] = m[v] \/ n[v] = [m[v] EXCEPT !.at = to]
    PROVE  Drift(n)
  <1>1. ASSUME NEW v \in Threads PROVE \E at : n[v] = Adrift(work[v], at)
    <2>1. PICK at : m[v] = Adrift(work[v], at)
      BY DEF Drift
    <2>2. n[v] = m[v] \/ n[v] = Adrift(work[v], to)
      BY <2>1, AdriftIs
    <2> QED
      BY <2>1, <2>2
  <1> QED
    BY <1>1 DEF Drift

\* One thread turns while others' handles drift.
LEMMA KDrifts ==
    ASSUME NEW X \in SUBSET Files, KInv(X), NEW w \in Threads, NEW m, Drift(m), NEW j, work' = [m EXCEPT ![w] = j], Formed(j), j.op = work[w].op,
           j.file = work[w].file, j.doomed \subseteq work[w].doomed, OnDisk', UNCHANGED marker,
           \A f \in X : blob[f].there => blob'[f].there \/ Unkept(f),
           j.op \in Keeping /\ j.pc \in {"seal", "mark"} /\ j.file \in X => blob'[j.file].there
    PROVE  KInv(X)'
  <1>1. work' = [v \in Threads |-> work'[v]] /\ work'[w] = j
    BY DEF Drift
  <1>2. ASSUME NEW v \in Threads \ {w}
        PROVE  Formed(work'[v]) /\ work'[v].op = work[v].op /\ work'[v].pc = work[v].pc
               /\ work'[v].file = work[v].file /\ work'[v].doomed = work[v].doomed
    <2>1. PICK at : m[v] = Adrift(work[v], at)
      BY DEF Drift
    <2>2. work'[v] = m[v]
      BY DEF Drift
    <2>3. Formed(work[v])
      BY DEF KInv
    <2> DEFINE x == Adrift(work[v], at)
    <2>4. /\ Formed(x) /\ x.op = work[v].op /\ x.pc = work[v].pc /\ x.file = work[v].file
          /\ x.doomed = work[v].doomed
      BY <2>3, AdriftIs
    <2> HIDE DEF x
    <2>5. work'[v] = x
      BY <2>1, <2>2 DEF x
    <2> QED
      BY <2>4, <2>5
  <1> QED
    BY <1>1, <1>2, KMoves

LEMMA DiskStands ==
    ASSUME NEW X \in SUBSET Files, KInv(X), NEW f, NEW x, NEW y, f \in Files => FileShape(x) /\ FileShape(y), UNCHANGED marker,
           UNCHANGED part \/ part' = [part EXCEPT ![f] = x], UNCHANGED blob \/ blob' = [blob EXCEPT ![f] = y]
    PROVE  OnDisk'
  BY DEF KInv, OnDisk, FileShape

LEMMA FilesAre == FileShape(NoFile) /\ NoFile.there = FALSE /\ \A b : FileShape(File(b)) /\ File(b).there = TRUE
  BY DEF FileShape, NoFile, File

LEMMA KStages == ASSUME NEW X \in SUBSET Files, KInv(X), NEW w \in Threads, Stages(w) PROVE KInv(X)'
  <1> DEFINE i == work[w]
             f == i.file
             k == [i EXCEPT !.pc = "stream", !.at = "part"]
             t == Told(i.op, i.file, i.etag, "stream", i.off, i.win, i.bytes, i.doomed, i.lock, i.guard, "part", i.going)
             x == File(<<>>)
  <1>1. i.pc = "stage" /\ UNCHANGED <<blob, marker>> /\ i.op \in Through \cup {"hydrate"}
    BY KIsTold DEF Stages, At, Placed
  <1>2. CASE Goes(w, "stream") /\ UNCHANGED part
    BY <1>1, <1>2, KGoes
  <1>3. CASE Puts(f, x) /\ work' = [work EXCEPT ![w].pc = "stream", ![w].at = "part"]
    <2>1. work' = [work EXCEPT ![w] = t]
      <3>1. work' = [work EXCEPT ![w] = k]
        BY <1>3
      <3>2. i = Told(i.op, i.file, i.etag, i.pc, i.off, i.win, i.bytes, i.doomed, i.lock, i.guard, i.at, i.going)
        BY KIsTold
      <3>3. k = t
        <4> HIDE DEF i
        <4> SUFFICES ASSUME NEW y, y = k PROVE y = t
          OBVIOUS
        <4> QED
          BY <3>2 DEF Told
      <3> HIDE DEF k
      <3> QED
        BY <3>1, <3>3
    <2>2. Shape(t) /\ t.op = i.op /\ t.file = i.file /\ t.pc = "stream" /\ t.doomed = i.doomed
      BY ToldIs
    <2> HIDE DEF t
    <2>3. Formed(t)
      BY <1>1, <2>2 DEF Formed, Placed
    <2>4. FileShape(x)
      BY FilesAre
    <2> HIDE DEF x
    <2>5. OnDisk'
      BY <1>1, <1>3, <2>4, DiskStands DEF Puts
    <2>6. UNCHANGED blob
      BY <1>1
    <2> QED
      BY <1>1, <2>1, <2>2, <2>3, <2>5, <2>6, NobodyDrifts, KDrifts
  <1> QED
    BY <1>2, <1>3 DEF Stages, Puts

LEMMA KStreams == ASSUME NEW X \in SUBSET Files, KInv(X), NEW w \in Threads, Streams(w) PROVE KInv(X)'
  <1> DEFINE i == work[w]
             f == i.file
             in == Incoming(w)
             bytes == IF UsesPart(w) THEN <<>> ELSE in
             x == [part[f] EXCEPT !.bytes = in]
             y == [blob[f] EXCEPT !.bytes = in]
             k == [i EXCEPT !.pc = "bare", !.bytes = bytes]
             t == Told(i.op, i.file, i.etag, "bare", i.off, i.win, bytes, i.doomed, i.lock, i.guard, i.at, i.going)
  <1>1. /\ i.pc = "stream" /\ UNCHANGED marker
        /\ UNCHANGED part \/ part' = [part EXCEPT ![f] = x]
        /\ UNCHANGED blob \/ blob' = [blob EXCEPT ![f] = y]
        /\ work' = [work EXCEPT ![w] = k]
    BY DEF Streams, At
  <1>2. i.op \in Through \cup {"hydrate"}
    BY <1>1, KIsTold DEF Placed
  <1>3. f \in Files => FileShape(x) /\ FileShape(y) /\ y.there = blob[f].there
    <2> HIDE DEF in
    <2>1. f \in Files => FileShape(part[f]) /\ FileShape(blob[f])
      BY DEF KInv, OnDisk
    <2> QED
      BY <2>1 DEF FileShape
  <1> HIDE DEF x, y
  <1>4. OnDisk'
    BY <1>1, <1>3, DiskStands
  <1>5. \A g \in Files : blob[g].there => blob'[g].there
    BY <1>1, <1>3 DEF KInv, OnDisk
  <1>6. k = t
    <2>1. i = Told(i.op, i.file, i.etag, i.pc, i.off, i.win, i.bytes, i.doomed, i.lock, i.guard, i.at, i.going)
      BY KIsTold
    <2> HIDE DEF i, bytes
    <2> SUFFICES ASSUME NEW z, z = k PROVE z = t
      OBVIOUS
    <2> QED
      BY <2>1 DEF Told
  <1> HIDE DEF k, bytes
  <1>7. Shape(t) /\ t.op = i.op /\ t.file = i.file /\ t.pc = "bare" /\ t.doomed = i.doomed
    BY ToldIs
  <1> HIDE DEF t
  <1>8. Formed(t)
    BY <1>2, <1>7 DEF Formed, Placed
  <1>9. work' = [work EXCEPT ![w] = t]
    BY <1>1, <1>6
  <1>10. UNCHANGED marker
    BY <1>1
  <1> QED
    BY <1>4, <1>5, <1>7, <1>8, <1>9, <1>10, NobodyDrifts, KDrifts

LEMMA MovedDrifts ==
    ASSUME NEW X \in SUBSET Files, KInv(X), NEW from, NEW to, NEW f PROVE Drift(Moved(work, from, to, f))
  <1> DEFINE n == Moved(work, from, to, f)
  <1>1. n = [v \in Threads |-> n[v]]
    BY DEF Moved
  <1>2. \A v \in Threads : n[v] = work[v] \/ n[v] = [work[v] EXCEPT !.at = to]
    BY DEF Moved
  <1> HIDE DEF n
  <1>3. Drift(n)
    BY <1>1, <1>2, NobodyDrifts, DriftsOn
  <1> QED
    BY <1>3 DEF n

LEMMA KGivesUp ==
    ASSUME NEW X \in SUBSET Files, KInv(X), NEW w \in Threads, NEW m, Drift(m), work' = [m EXCEPT ![w].pc = GivesUp(w), ![w].at = "nowhere"],
           UNCHANGED <<blob, marker>>, NEW f, UNCHANGED part \/ part' = [part EXCEPT ![f] = NoFile]
    PROVE  KInv(X)'
  <1> DEFINE i == work[w]
             h == m[w]
             pc == GivesUp(w)
             k == [h EXCEPT !.pc = pc, !.at = "nowhere"]
             t == Told(i.op, i.file, i.etag, pc, i.off, i.win, i.bytes, i.doomed, i.lock, i.guard, "nowhere", i.going)
  <1>1. k = t
    <2>1. PICK at : h = Adrift(i, at)
      BY DEF Drift
    <2> HIDE DEF i, h, pc
    <2> SUFFICES ASSUME NEW x, x = k PROVE x = t
      OBVIOUS
    <2> QED
      BY <2>1 DEF Adrift, Told
  <1>2. work' = [m EXCEPT ![w] = k]
    OBVIOUS
  <1>3. pc \in {"unlock", "failed"}
    BY DEF GivesUp
  <1> HIDE DEF k, pc
  <1>4. Shape(t) /\ t.op = i.op /\ t.file = i.file /\ t.pc = pc /\ t.doomed = i.doomed
    BY ToldIs
  <1> HIDE DEF t
  <1>5. Formed(t)
    BY <1>3, <1>4 DEF Formed, Placed
  <1>6. OnDisk'
    BY FilesAre, DiskStands
  <1>7. work' = [m EXCEPT ![w] = t]
    BY <1>1, <1>2
  <1> QED
    BY <1>3, <1>4, <1>5, <1>6, <1>7, KDrifts

LEMMA KStreamFails == ASSUME NEW X \in SUBSET Files, KInv(X), NEW w \in Threads, StreamFails(w) PROVE KInv(X)'
  <1> DEFINE f == work[w].file
             m == IF UsesPart(w) THEN Moved(work, "part", "nowhere", f) ELSE work
  <1>1. Drift(m)
    BY NobodyDrifts, MovedDrifts
  <1>2. /\ work' = [m EXCEPT ![w].pc = GivesUp(w), ![w].at = "nowhere"] /\ UNCHANGED <<blob, marker>>
        /\ UNCHANGED part \/ part' = [part EXCEPT ![f] = NoFile]
    BY DEF StreamFails
  <1> HIDE DEF m
  <1> QED
    BY <1>1, <1>2, KGivesUp

LEMMA KRenames == ASSUME NEW X \in SUBSET Files, KInv(X), NEW w \in Threads, Renames(w) PROVE KInv(X)'
  <1> DEFINE i == work[w]
             f == i.file
             src == Source(w)
             freed == Moved(work, "blob", "nowhere", f)
             m == IF UsesPart(w)
                  THEN [v \in Threads |-> IF v \in Busy(f) /\ work[v].at = "part"
                                          THEN [freed[v] EXCEPT !.at = "blob"] ELSE freed[v]]
                  ELSE freed
  <1>1. /\ i.pc = "rename" /\ UNCHANGED marker
        /\ UNCHANGED part \/ part' = [part EXCEPT ![f] = NoFile]
        /\ src.there => /\ blob' = [blob EXCEPT ![f] = src]
                        /\ work' = [m EXCEPT ![w].pc = "seal", ![w].at = "nowhere", ![w].win = NoWindow,
                                             ![w].bytes = <<>>]
        /\ ~src.there => UNCHANGED blob /\ work' = [work EXCEPT ![w].pc = GivesUp(w), ![w].at = "nowhere"]
    BY DEF Renames, At
  <1>2. i.op \in Through \cup {"hydrate", "read"}
    BY <1>1, KIsTold DEF Placed
  <1>3. f \in Files => FileShape(src)
    <2>1. f \in Files => FileShape(part[f])
      BY DEF KInv, OnDisk
    <2>2. CASE UsesPart(w)
      <3>1. i.op # "read" /\ i.op # "hydrate"
        BY <2>2 DEF UsesPart, Keeping
      <3>2. src = part[f]
        BY <2>2, <3>1 DEF Source
      <3> QED
        BY <2>1, <3>2
    <2>3. CASE ~UsesPart(w)
      <3>1. i.op = "hydrate" \/ i.op = "read"
        BY <1>2, <2>3 DEF UsesPart, Through, Fetching, Keeping
      <3>2. i.op = "read" => src = File(i.win.spill.bytes)
        BY <2>3 DEF Source
      <3>3. i.op = "hydrate" => src = File(i.bytes)
        BY <2>3 DEF Source
      <3> HIDE DEF src
      <3> QED
        BY <3>1, <3>2, <3>3, FilesAre
    <2> QED
      BY <2>2, <2>3
  <1>4. Drift(freed) /\ freed = [v \in Threads |-> freed[v]]
    <2>1. Drift(freed)
      BY MovedDrifts
    <2> HIDE DEF freed
    <2> QED
      BY <2>1 DEF Drift
  <1>5. Drift(m)
    <2> HIDE DEF freed
    <2>1. m = [v \in Threads |-> m[v]] /\ \A v \in Threads : m[v] = freed[v] \/ m[v] = [freed[v] EXCEPT !.at = "blob"]
      BY <1>4
    <2> HIDE DEF m
    <2> QED
      BY <1>4, <2>1, DriftsOn
  <1> HIDE DEF src, freed, m
  <1>6. CASE ~src.there
    <2>1. /\ work' = [work EXCEPT ![w].pc = GivesUp(w), ![w].at = "nowhere"] /\ UNCHANGED <<blob, marker>>
          /\ UNCHANGED part \/ part' = [part EXCEPT ![f] = NoFile]
      BY <1>1, <1>6
    <2> QED
      BY <2>1, NobodyDrifts, KGivesUp
  <1>7. CASE src.there
    <2> DEFINE none == <<>>
               h == m[w]
               k == [h EXCEPT !.pc = "seal", !.at = "nowhere", !.win = NoWindow, !.bytes = none]
               t == Told(i.op, i.file, i.etag, "seal", i.off, NoWindow, none, i.doomed, i.lock, i.guard, "nowhere", i.going)
    <2>1. work' = [m EXCEPT ![w] = k]
      BY <1>1, <1>7
    <2>2. k = t
      <3>1. PICK at : h = Adrift(i, at)
        BY <1>5 DEF Drift
      <3> HIDE DEF i, h, none
      <3> SUFFICES ASSUME NEW x, x = k PROVE x = t
        OBVIOUS
      <3> QED
        BY <3>1 DEF Adrift, Told
    <2> HIDE DEF k, none
    <2>3. Shape(t) /\ t.op = i.op /\ t.file = i.file /\ t.pc = "seal" /\ t.doomed = i.doomed
      BY ToldIs
    <2> HIDE DEF t
    <2>4. Formed(t)
      BY <2>3 DEF Formed, Placed
    <2>5. work' = [m EXCEPT ![w] = t]
      BY <2>1, <2>2
    <2>6. blob' = [blob EXCEPT ![f] = src]
      BY <1>1, <1>7
    <2>7. OnDisk'
      BY <1>1, <1>3, <2>6, FilesAre, DiskStands
    <2>8. \A g \in Files : blob[g].there => blob'[g].there
      BY <1>7, <2>6 DEF KInv, OnDisk
    <2>9. t.op \in Keeping => blob'[t.file].there
      <3>1. i.op \in Keeping => f \in Files
        BY KIsTold
      <3> QED
        BY <1>7, <2>3, <2>6, <3>1 DEF KInv, OnDisk
    <2>10. UNCHANGED marker
      BY <1>1
    <2> QED
      BY <1>5, <2>3, <2>4, <2>5, <2>7, <2>8, <2>9, <2>10, KDrifts
  <1> QED
    BY <1>6, <1>7

\* What an eviction takes is kept by nobody.
LEMMA KEvictsBlob == ASSUME NEW X \in SUBSET Files, KInv(X), NEW w \in Threads, NEW f \in Files, EvictsBlob(w, f) PROVE KInv(X)'
  <1> DEFINE i == work[w]
             m == Moved(work, "blob", "nowhere", f)
             h == m[w]
             k == [h EXCEPT !.pc = "doomed", !.going = f]
  <1>1. /\ f \in i.doomed /\ UNCHANGED <<marker, part>> /\ blob' = [blob EXCEPT ![f] = NoFile]
        /\ work' = [m EXCEPT ![w] = k]
    BY DEF EvictsBlob
  <1>2. Drift(m)
    BY MovedDrifts
  <1>3. PICK at : h = Adrift(i, at)
    BY <1>2 DEF Drift
  <1> DEFINE t == Told(i.op, i.file, i.etag, "doomed", i.off, i.win, i.bytes, i.doomed, i.lock, i.guard, at, f)
  <1>4. k = t
    <2> HIDE DEF i, h
    <2> SUFFICES ASSUME NEW x, x = k PROVE x = t
      OBVIOUS
    <2> QED
      BY <1>3 DEF Adrift, Told
  <1> HIDE DEF k, m
  <1>5. Shape(t) /\ t.op = i.op /\ t.file = i.file /\ t.pc = "doomed" /\ t.doomed = i.doomed
    BY ToldIs
  <1> HIDE DEF t
  <1>6. Formed(t)
    BY <1>5 DEF Formed, Placed
  <1>7. work' = [m EXCEPT ![w] = t]
    BY <1>1, <1>4
  <1>8. OnDisk'
    BY <1>1, FilesAre, DiskStands
  <1>9. f \in X => Unkept(f)
    BY <1>1 DEF KInv, Doomed
  <1>10. \A g \in X : blob[g].there => blob'[g].there \/ Unkept(g)
    BY <1>1, <1>9 DEF KInv, OnDisk
  <1>11. UNCHANGED marker
    BY <1>1
  <1> QED
    BY <1>2, <1>5, <1>6, <1>7, <1>8, <1>10, <1>11, KDrifts

\* The marker comes last: the file is there, and nothing dooms what is being kept.
LEMMA KMarks == ASSUME NEW X \in SUBSET Files, KInv(X), NEW w \in Threads, Marks(w) PROVE KInv(X)'
  <1> DEFINE i == work[w]
             k == [i EXCEPT !.pc = "unlock"]
             t == Told(i.op, i.file, i.etag, "unlock", i.off, i.win, i.bytes, i.doomed, i.lock, i.guard, i.at, i.going)
  <1>1. /\ i.pc = "mark" /\ UNCHANGED <<blob, part>> /\ marker' = [marker EXCEPT ![i.file] = TRUE]
        /\ work' = [work EXCEPT ![w] = k]
    BY DEF Marks, At, Goes
  <1>2. i.op \in Keeping /\ i.file \in Files /\ (i.file \in X => blob[i.file].there)
    BY <1>1, KIsTold
  <1>3. k = t
    <2>1. i = Told(i.op, i.file, i.etag, i.pc, i.off, i.win, i.bytes, i.doomed, i.lock, i.guard, i.at, i.going)
      BY KIsTold
    <2> HIDE DEF i
    <2> SUFFICES ASSUME NEW x, x = k PROVE x = t
      OBVIOUS
    <2> QED
      BY <2>1 DEF Told
  <1> HIDE DEF k
  <1>4. Shape(t) /\ t.op = i.op /\ t.file = i.file /\ t.pc = "unlock" /\ t.doomed = i.doomed
    BY ToldIs
  <1> HIDE DEF t
  <1>5. Formed(t)
    BY <1>4 DEF Formed, Placed
  <1>6. Only(w, t)
    BY <1>1, <1>3, KChanged
  <1>7. \A v \in Threads : work'[v].op = work[v].op /\ work'[v].file = work[v].file /\ work'[v].doomed = work[v].doomed
    BY <1>4, <1>6 DEF Only
  <1>8. OnDisk' /\ work' = [v \in Threads |-> work'[v]]
    BY <1>1, <1>6 DEF KInv, OnDisk, FileShape, Only
  <1>9. \A v \in Threads : Formed(work'[v])
    BY <1>5, <1>6 DEF Only, KInv
  <1>10. ASSUME NEW v \in Threads PROVE Keeps(X, work[v])'
    BY <1>1, <1>4, <1>6 DEF Only, KInv, Keeps
  <1>11. ASSUME NEW v \in Threads PROVE Doomed(X, work[v])'
    <2>1. Doomed(X, work[v])
      BY DEF KInv
    <2>2. i.file \notin work[v].doomed \cap X
      BY <1>2, <2>1 DEF Doomed, Unkept
    <2>3. ASSUME NEW f \in work[v].doomed \cap X PROVE Unkept(f)'
      <3>1. f \in Files /\ Unkept(f) /\ f # i.file
        BY <2>1, <2>2 DEF Doomed
      <3>2. ~marker'[f]
        BY <1>1, <3>1 DEF Unkept, KInv, OnDisk
      <3> QED
        BY <1>7, <3>1, <3>2 DEF Unkept
    <2> QED
      BY <1>7, <2>1, <2>3 DEF Doomed
  <1>12. \A f \in X : marker'[f] => blob'[f].there
    BY <1>1, <1>2 DEF KInv, OnDisk
  <1>13. \A v \in Threads : Formed(work[v])'
    BY <1>9 DEF Formed, Shape, Placed
  <1> QED
    BY <1>8, <1>10, <1>11, <1>12, <1>13 DEF KInv

\* What is picked carries no marker and is being pinned by nobody.
LEMMA KPicksDoomed == ASSUME NEW X \in SUBSET Files, KInv(X), X \cap Overtaken' = {}, NEW w \in Threads, PicksDoomed(w) PROVE KInv(X)'
  <1> DEFINE i == work[w]
  <1>1. i.pc = "evict" /\ UNCHANGED <<blob, part, marker>>
    BY DEF PicksDoomed, At, facts, disk, memory
  <1>2. PICK D \in SUBSET Evictable :
          work' = [work EXCEPT ![w].doomed = D, ![w].pc = IF D = {} THEN "done" ELSE "doom"]
    BY DEF PicksDoomed
  <1>3. \A f \in D : f \in Files /\ ~marker[f]
    BY <1>2 DEF Evictable
  <1> DEFINE pc == IF D = {} THEN "done" ELSE "doom"
             k == [i EXCEPT !.doomed = D, !.pc = pc]
             t == Told(i.op, i.file, i.etag, pc, i.off, i.win, i.bytes, D, i.lock, i.guard, i.at, i.going)
  <1>4. k = t
    <2>1. i = Told(i.op, i.file, i.etag, i.pc, i.off, i.win, i.bytes, i.doomed, i.lock, i.guard, i.at, i.going)
      BY KIsTold
    <2> HIDE DEF i, pc
    <2> SUFFICES ASSUME NEW x, x = k PROVE x = t
      OBVIOUS
    <2> QED
      BY <2>1 DEF Told
  <1>5. work' = [work EXCEPT ![w] = k]
    BY <1>2
  <1>6. pc \in {"done", "doom"}
    OBVIOUS
  <1> HIDE DEF k, pc
  <1>7. Shape(t) /\ t.op = i.op /\ t.file = i.file /\ t.pc = pc /\ t.doomed = D
    BY ToldIs
  <1> HIDE DEF t
  <1>8. Formed(t)
    BY <1>6, <1>7 DEF Formed, Placed
  <1>9. Only(w, t)
    BY <1>4, <1>5, KChanged
  <1>10. \A v \in Threads : work'[v].op = work[v].op /\ work'[v].file = work[v].file
    BY <1>7, <1>9 DEF Only
  <1>11. OnDisk' /\ work' = [v \in Threads |-> work'[v]]
    BY <1>1, <1>9 DEF KInv, OnDisk, FileShape, Only
  <1>12. \A v \in Threads : Formed(work[v])'
    <2>1. \A v \in Threads : Formed(work'[v])
      BY <1>8, <1>9 DEF Only, KInv
    <2> QED
      BY <2>1 DEF Formed, Shape, Placed
  <1>13. ASSUME NEW v \in Threads PROVE Keeps(X, work[v])'
    BY <1>1, <1>6, <1>7, <1>9 DEF Only, KInv, Keeps
  <1>14. \A f : Unkept(f) => Unkept(f)'
    BY <1>1, <1>10 DEF Unkept
  <1>15. ASSUME NEW v \in Threads PROVE Doomed(X, work[v])'
    <2>1. work'[v].doomed = IF v = w THEN D ELSE work[v].doomed
      BY <1>7, <1>9 DEF Only
    <2>2. Doomed(X, work[v])
      BY DEF KInv
    <2>3. ASSUME NEW f \in D \cap X, v = w PROVE Unkept(f)'
      <3>1. ~BeingPinned(f)'
        BY <1>3, <2>1, <2>3 DEF Overtaken
      <3> QED
        BY <1>1, <1>3, <3>1 DEF Unkept, BeingPinned, Busy
    <2> QED
      BY <1>3, <1>14, <2>1, <2>2, <2>3 DEF Doomed
  <1>16. \A f \in X : marker'[f] => blob'[f].there
    BY <1>1 DEF KInv
  <1> QED
    BY <1>11, <1>12, <1>13, <1>15, <1>16 DEF KInv

\* Nobody begins to keep what is about to go.
LEMMA KStarts ==
    ASSUME NEW X \in SUBSET Files, KInv(X), NEW w \in Threads, NEW op, NEW f, NEW v, NEW pc, NEW off, NEW bytes,
           work' = [work EXCEPT ![w] = Begun(op, f, v, pc, off, bytes)], UNCHANGED <<blob, part, marker>>,
           Opening(op, pc) \/ (op = "store" /\ pc = "stage"),
           op \in Keeping => f \in Files /\ X \cap Overtaken' = {}
    PROVE  KInv(X)'
  <1> DEFINE t == Begun(op, f, v, pc, off, bytes)
             no == FALSE
  <1>1. Shape(t) /\ t.op = op /\ t.file = f /\ t.pc = pc /\ t.doomed = {}
    <2>1. t = Told(op, f, v, pc, off, NoWindow, bytes, {}, NoOne, no, "nowhere", NoOne)
      BY DEF Begun
    <2> HIDE DEF t, no
    <2> QED
      BY <2>1, ToldIs
  <1> HIDE DEF t
  <1>2. Formed(t) /\ pc \notin {"seal", "mark"}
    BY <1>1 DEF Formed, Placed, Opening, Through, Fetching
  <1>3. Only(w, t)
    BY KChanged DEF t
  <1>4. OnDisk' /\ work' = [u \in Threads |-> work'[u]]
    BY <1>3 DEF KInv, OnDisk, FileShape, Only
  <1>5. \A u \in Threads : Formed(work[u])'
    <2>1. \A u \in Threads : Formed(work'[u])
      BY <1>2, <1>3 DEF Only, KInv
    <2> QED
      BY <2>1 DEF Formed, Shape, Placed
  <1>6. ASSUME NEW u \in Threads PROVE Keeps(X, work[u])'
    BY <1>1, <1>2, <1>3 DEF Only, KInv, Keeps
  <1>7. ASSUME NEW u \in Threads PROVE Doomed(X, work[u])'
    <2>1. work'[u].doomed \subseteq work[u].doomed
      BY <1>1, <1>3 DEF Only
    <2>2. Doomed(X, work[u])
      BY DEF KInv
    <2>3. ASSUME NEW g \in work'[u].doomed \cap X PROVE Unkept(g)'
      <3>1. Unkept(g) /\ g \in Files
        BY <2>1, <2>2 DEF Doomed
      <3>2. \A x \in Threads : work'[x].op \in Keeping => work'[x].file # g
        <4>1. CASE op \in Keeping
          BY <3>1, <4>1 DEF Overtaken, BeingPinned, Busy
        <4>2. CASE op \notin Keeping
          BY <1>1, <1>3, <3>1, <4>2 DEF Only, Unkept
        <4> QED
          BY <4>1, <4>2
      <3> QED
        BY <3>1, <3>2 DEF Unkept
    <2> QED
      BY <2>1, <2>2, <2>3 DEF Doomed
  <1>8. \A g \in X : marker'[g] => blob'[g].there
    BY DEF KInv
  <1> QED
    BY <1>4, <1>5, <1>6, <1>7, <1>8 DEF KInv

LEMMA KBegins == ASSUME NEW X \in SUBSET Files, KInv(X), X \cap Overtaken' = {}, NEW w \in Workers, NEW f \in Files, Begins(w, f) PROVE KInv(X)'
  <1>0. w \in Threads
    BY DEF Threads
  <1>1. ASSUME NEW off, StartsRead(w, f, off) PROVE KInv(X)'
    <2>1. work' = [work EXCEPT ![w] = Begun("read", f, row[f], "look", off, <<>>)]
      <3> DEFINE x == [Doing("read", f, row[f], "look") EXCEPT !.off = off]
      <3>1. work' = [work EXCEPT ![w] = x]
        BY <1>1 DEF StartsRead, Starts
      <3>2. x = Begun("read", f, row[f], "look", off, <<>>)
        BY DoingIsBegun
      <3> HIDE DEF x
      <3> QED
        BY <3>1, <3>2
    <2>2. UNCHANGED <<blob, part, marker>> /\ Opening("read", "look") /\ "read" \notin Keeping
      BY <1>1 DEF StartsRead, disk, Opening, Keeping
    <2> QED
      BY <1>0, <2>1, <2>2, KStarts
  <1>2. ASSUME Pins(w, f) \/ Refreshes(w, f) PROVE KInv(X)'
    <2>1. work' = [work EXCEPT ![w] = Begun("pin", f, row[f], "lock", 0, <<>>)]
      <3> DEFINE x == Doing("pin", f, row[f], "lock")
      <3>1. work' = [work EXCEPT ![w] = x]
        BY <1>2 DEF Pins, Refreshes, Starts
      <3>2. x = Begun("pin", f, row[f], "lock", 0, <<>>)
        BY DoingIsBegun
      <3> HIDE DEF x
      <3> QED
        BY <3>1, <3>2
    <2>2. UNCHANGED <<blob, part, marker>> /\ Opening("pin", "lock")
      BY <1>2 DEF Pins, Refreshes, disk, Opening, Fetching
    <2> QED
      BY <1>0, <2>1, <2>2, KStarts
  <1>3. ASSUME NEW op \in {"fill", "refill"}, StartsFill(w, f, op) PROVE KInv(X)'
    <2> DEFINE pc == IF Length[row[f]] > Budget THEN "direct" ELSE "lock"
    <2>1. work' = [work EXCEPT ![w] = Begun(op, f, row[f], pc, 0, <<>>)]
      <3> DEFINE x == Doing(op, f, row[f], pc)
      <3>1. work' = [work EXCEPT ![w] = x]
        BY <1>3 DEF StartsFill, Starts
      <3>2. x = Begun(op, f, row[f], pc, 0, <<>>)
        BY DoingIsBegun
      <3> HIDE DEF x
      <3> QED
        BY <3>1, <3>2
    <2>2. UNCHANGED <<blob, part, marker>> /\ Opening(op, pc) /\ op \notin Keeping
      BY <1>3 DEF StartsFill, disk, Opening, Fetching, Keeping
    <2> HIDE DEF pc
    <2> QED
      BY <1>0, <2>1, <2>2, KStarts
  <1>4. CASE StartsStore(w, f)
    <2> DEFINE v == server[f] + 1
               bytes == Bytes(v)
    <2>1. work' = [work EXCEPT ![w] = Begun("store", f, v, "stage", 0, bytes)]
      <3> DEFINE x == [Doing("store", f, v, "stage") EXCEPT !.bytes = bytes]
      <3>1. work' = [work EXCEPT ![w] = x]
        BY <1>4 DEF StartsStore, Starts
      <3> HIDE DEF v, bytes
      <3>2. x = Begun("store", f, v, "stage", 0, bytes)
        BY DoingIsBegun
      <3> HIDE DEF x
      <3> QED
        BY <3>1, <3>2
    <2>2. UNCHANGED <<blob, part, marker>> /\ "store" \notin Keeping
      BY <1>4 DEF StartsStore, disk, Keeping
    <2> HIDE DEF v, bytes
    <2> QED
      BY <1>0, <2>1, <2>2, KStarts
  <1> QED
    BY <1>1, <1>2, <1>3, <1>4 DEF Begins

LEMMA KStands == ASSUME NEW X \in SUBSET Files, KInv(X), UNCHANGED <<work, blob, part, marker>> PROVE KInv(X)'
  <1>1. OnDisk'
    BY DEF KInv, OnDisk, FileShape
  <1>2. ASSUME NEW u \in Threads PROVE Formed(work[u])' /\ Keeps(X, work[u])' /\ Doomed(X, work[u])'
    BY DEF KInv, Formed, Shape, Placed, Keeps, Doomed, Unkept
  <1> QED
    BY <1>1, <1>2 DEF KInv

LEMMA KUnpins == ASSUME NEW X \in SUBSET Files, KInv(X), NEW f \in Files, Unpins(f) PROVE KInv(X)'
  <1>1. UNCHANGED <<work, blob, part>> /\ marker' = [marker EXCEPT ![f] = FALSE]
    BY DEF Unpins
  <1>2. OnDisk'
    BY <1>1 DEF KInv, OnDisk, FileShape
  <1>3. \A g \in Files : marker'[g] => marker[g]
    BY <1>1 DEF KInv, OnDisk
  <1>4. ASSUME NEW u \in Threads PROVE Formed(work[u])' /\ Keeps(X, work[u])'
    BY <1>1 DEF KInv, Formed, Shape, Placed, Keeps
  <1>5. ASSUME NEW u \in Threads PROVE Doomed(X, work[u])'
    BY <1>1, <1>3 DEF KInv, Doomed, Unkept
  <1> QED
    BY <1>1, <1>2, <1>3, <1>4, <1>5 DEF KInv

LEMMA KWalk == ASSUME NEW X \in SUBSET Files, KInv(X), X \cap Overtaken' = {}, NEW w \in Workers \cup {NoOne}, NEW f \in Files, Walk(w, f) PROVE KInv(X)'
  <1>1. UNCHANGED <<blob, part, marker>>
    BY DEF Walk, disk
  <1>2. CASE UNCHANGED work
    BY <1>1, <1>2, KStands
  <1>3. ASSUME Starts(w, Doing("auto", f, RowBefore(f), "lock")) PROVE KInv(X)'
    <2>1. work' = [work EXCEPT ![w] = Begun("auto", f, RowBefore(f), "lock", 0, <<>>)]
      <3> DEFINE x == Doing("auto", f, RowBefore(f), "lock")
      <3>1. work' = [work EXCEPT ![w] = x]
        BY <1>3 DEF Starts
      <3>2. x = Begun("auto", f, RowBefore(f), "lock", 0, <<>>)
        BY DoingIsBegun
      <3> HIDE DEF x
      <3> QED
        BY <3>1, <3>2
    <2>2. w \in Threads /\ Opening("auto", "lock")
      BY <1>3 DEF Starts, Threads, Opening, Fetching
    <2> QED
      BY <1>1, <1>3, <2>1, <2>2, KStarts
  <1> QED
    BY <1>2, <1>3 DEF Walk, Settles

LEMMA KHydrates == ASSUME NEW X \in SUBSET Files, KInv(X), Hydrates PROVE KInv(X)'
  <1> DEFINE r == Head(requests)
             x == Doing("hydrate", r.file, r.etag, "stage")
  <1>1. UNCHANGED <<blob, part, marker>>
    BY DEF Hydrates, disk
  <1>2. CASE UNCHANGED work
    BY <1>1, <1>2, KStands
  <1>3. CASE work' = [work EXCEPT ![hydrator] = x]
    <2>1. x = Begun("hydrate", r.file, r.etag, "stage", 0, <<>>)
      BY DoingIsBegun
    <2> HIDE DEF x
    <2>2. work' = [work EXCEPT ![hydrator] = Begun("hydrate", r.file, r.etag, "stage", 0, <<>>)]
      BY <1>3, <2>1
    <2>3. hydrator \in Threads /\ Opening("hydrate", "stage") /\ "hydrate" \notin Keeping
      BY DEF Threads, Opening, Keeping
    <2> HIDE DEF r
    <2> QED
      BY <1>1, <2>2, <2>3, KStarts
  <1> QED
    BY <1>2, <1>3 DEF Hydrates

LEMMA KCrash == ASSUME NEW X \in SUBSET Files, KInv(X), Crash PROVE KInv(X)'
  <1>1. /\ UNCHANGED <<blob, marker>> /\ part' = [f \in Files |-> NoFile] /\ work' = [w \in Threads |-> Idle]
    BY DEF Crash
  <1>2. OnDisk'
    BY <1>1, FilesAre DEF KInv, OnDisk, FileShape
  <1>3. \A w \in Threads : work'[w] = Idle
    BY <1>1
  <1>4. ASSUME NEW w \in Threads PROVE Formed(work[w])' /\ Keeps(X, work[w])' /\ Doomed(X, work[w])'
    <2>1. work'[w] = Idle
      BY <1>3
    <2>2. Formed(work'[w])
      BY <2>1, KIdle
    <2> QED
      BY <2>1, <2>2, KIdle DEF Formed, Shape, Placed, Keeps, Doomed
  <1> QED
    BY <1>1, <1>2, <1>4 DEF KInv

LEMMA KStepsKeep ==
    ASSUME NEW X \in SUBSET Files, KInv(X), X \cap Overtaken' = {}, NEW w \in Threads, Steps(w)
    PROVE  KInv(X)'
  BY KLooks, KTakesWindow, KFetches, KTakesLock, KEnters, KMarks, KOpens, KUnlocks, KFillsDirectly, KStages,
     KStreams, KStreamFails, KBares, KRenames, KPicksDoomed, KEvictsBlob, KEvictsSidecar, KEnds DEF Steps

LEMMA KActsKeep ==
    ASSUME NEW X \in SUBSET Files, KInv(X), X \cap Overtaken' = {}, Acts
    PROVE  KInv(X)'
  <1>1. ASSUME NEW w \in Threads, Steps(w) PROVE KInv(X)'
    BY <1>1, KStepsKeep
  <1>2. ASSUME NEW w \in Workers, NEW f \in Files, Begins(w, f) PROVE KInv(X)'
    BY <1>2, KBegins
  <1>3. ASSUME NEW f \in Files, Unpins(f) PROVE KInv(X)'
    BY <1>3, KUnpins
  <1>4. ASSUME NEW w \in Workers \cup {NoOne}, NEW f \in Files, Walk(w, f) PROVE KInv(X)'
    BY <1>4, KWalk
  <1>5. CASE (\E f \in Files : ForeignPut(f)) \/ ServerGoes \/ ServerComes
    <2>1. UNCHANGED <<work, blob, part, marker>>
      BY <1>5 DEF ForeignPut, ServerGoes, ServerComes, disk
    <2> QED
      BY <2>1, KStands
  <1>6. CASE Hydrates
    BY <1>6, KHydrates
  <1>7. CASE Crash
    BY <1>7, KCrash
  <1> QED
    BY <1>1, <1>2, <1>3, <1>4, <1>5, <1>6, <1>7 DEF Acts

\* The files in good standing: those that were, and those that are here again
\* with nobody at them.
Standing == Files \ overtaken
SInv     == KInv(Standing)

LEMMA SInvHoldsFirst == Init => SInv
  <1> SUFFICES ASSUME Init PROVE SInv
    OBVIOUS
  <1>1. /\ blob = [f \in Files |-> NoFile] /\ part = [f \in Files |-> NoFile] /\ work = [w \in Threads |-> Idle]
        /\ marker = [f \in Files |-> FALSE]
    BY DEF Init
  <1>2. OnDisk
    BY <1>1, FilesAre DEF OnDisk
  <1>3. \A w \in Threads : work[w] = Idle
    BY <1>1
  <1>4. \A w \in Threads : Formed(work[w]) /\ Keeps(Standing, work[w]) /\ Doomed(Standing, work[w])
    BY <1>3, KIdle DEF Keeps, Doomed
  <1>5. \A f \in Standing : ~marker[f]
    BY <1>1 DEF Standing
  <1> QED
    BY <1>1, <1>2, <1>4, <1>5 DEF SInv, KInv

LEMMA SInvStays == SInv /\ [Next]_vars => SInv'
  <1> SUFFICES ASSUME SInv, [Next]_vars PROVE SInv'
    OBVIOUS
  <1>1. CASE UNCHANGED vars
    <2>1. PICK X \in SUBSET Files : X = Standing
      BY DEF Standing
    <2>2. KInv(X) /\ UNCHANGED <<work, blob, part, marker>> /\ Standing' = X
      BY <1>1, <2>1 DEF SInv, vars, disk, Standing
    <2>3. KInv(X)'
      BY <2>2, KStands
    <2> QED
      BY <2>2, <2>3 DEF SInv, KInv, Keeps, Doomed
  <1>2. CASE Next
    <2>1. Acts /\ overtaken' = {f \in overtaken : ~Lies(f)'} \cup Overtaken'
      BY <1>2 DEF Next
    <2>2. PICK X \in SUBSET Files : X = Standing \ Overtaken'
      BY DEF Standing
    <2>3. KInv(X)
      BY <2>2 DEF SInv, KInv, Keeps, Doomed
    <2>4. KInv(X)'
      BY <2>1, <2>2, <2>3, KActsKeep
    <2>5. \A f \in Standing' : f \in Files /\ (f \in X \/ Lies(f)')
      BY <2>1, <2>2 DEF Standing
    <2>6. ASSUME NEW w \in Threads PROVE Formed(work[w])' /\ Keeps(Standing, work[w])' /\ Doomed(Standing, work[w])'
      <3>1. Formed(work[w])' /\ Keeps(X, work[w])' /\ Doomed(X, work[w])'
        BY <2>4 DEF KInv
      <3>2. \A f \in Standing' \ X : work'[w].file # f /\ f \notin work'[w].doomed
        BY <2>5 DEF Lies, Settled, Busy
      <3> QED
        BY <3>1, <3>2 DEF Keeps, Doomed
    <2>7. \A f \in Standing' : marker'[f] => blob'[f].there
      BY <2>4, <2>5 DEF KInv, Lies
    <2>8. OnDisk' /\ work' = [w \in Threads |-> work'[w]]
      BY <2>4 DEF KInv
    <2> QED
      BY <2>6, <2>7, <2>8 DEF SInv, KInv
  <1> QED
    BY <1>1, <1>2

\* What carries a pin marker is on disk, for any number of files, threads and evictions that run beside
\* pins, failures and restarts included -- unless an eviction had it on its list while it was being
\* pinned; and once it is here again, and left alone, it stays. (content.rs evict, evict_blob;
\* provider.rs pin.)
THEOREM WhatIsPinnedStays == Spec => []PinnedIsHere
  <1>1. SInv => PinnedIsHere
    BY DEF SInv, KInv, Standing, PinnedIsHere
  <1> QED
    BY SInvHoldsFirst, SInvStays, <1>1, PTL DEF Spec
=============================================================================
