--------------------------- MODULE TransferProofs ---------------------------
(***************************************************************************)
(* Two components, which know nothing of each other: their constants and   *)
(* variables are disjoint, so what is assumed of one says nothing of the   *)
(* other.                                                                  *)
(*                                                                         *)
(* Transfer: that the document is always one upload, whole; that an upload *)
(* reported after a clean answer has been the document; and that a         *)
(* conflict is another's doing -- for any clients, sizes, chunks, uploads  *)
(* and faults. Each rests on the one before: the types, then what the      *)
(* collections of chunks hold, then what a client may conclude from an     *)
(* answer.                                                                 *)
(*                                                                         *)
(* Tree: that what is owed has its row and its buffer, whatever happens to *)
(* the tree. And that every row has its place: it is reached from the      *)
(* root, and its path is the one that its parents spell -- as long as      *)
(* listings are applied, and objects moved, to where the directory still   *)
(* is, which is the premise.                                               *)
(***************************************************************************)
EXTENDS Transfer, Tree, FiniteSetTheorems, WellFoundedInduction, TLAPS

Numbers  == 1..Begun
Bases    == {None, Unknown} \cup Numbers
Working  == {"put", "check", "collection", "chunk", "assemble", "probe", "etag", "sweep"}
Call     == [at : Working, id : Numbers, size : Sizes, chunked : BOOLEAN,
             pre : {ForUpload(b) : b \in Bases}, part : Nat, tries : Nat]
Verdict  == [is : {"uploaded", "conflict", "failed"}, id : Numbers, met : {None} \cup Numbers,
             guessed : BOOLEAN]

Typed ==
    /\ Begun \in Nat /\ owner \in [Numbers -> Clients]
    /\ file = Absent \/ (file.ver \in Numbers /\ file.size \in Sizes)
    /\ DOMAIN staged = 1..Uploads /\ Begun <= Uploads
    /\ call \in [Clients -> {NoCall} \cup Call]
    /\ \A c \in Clients : Busy(c) => owner[call[c].id] = c
    /\ base \in [Clients -> Bases]
    /\ verdict \in [Clients -> {NoVerdict} \cup Verdict]

\* What a request of c comes to: the document is replaced, the collection is
\* changed, or nothing happens.
Comes(c, at) ==
    \/ UNCHANGED <<server, landed>>
    \/ at = "put" /\ PreconditionOk(call[c].pre) /\ Replaced(c, Whole(call[c].id)) /\ UNCHANGED staged
    \/ at = "collection" /\ Stage(c, Collected(c))
    \/ at = "chunk" /\ Stage(c, Collected(c) \cup {<<call[c].part, call[c].id>>})
    \/ /\ at = "assemble" /\ CanAssemble(c) /\ Replaced(c, Collected(c))
       /\ staged' = [staged EXCEPT ![CollectionOf(c)] = NoCollection]
    \/ at = "sweep" /\ Stage(c, NoCollection)

LEMMA RequestComes == \A c, at, fate : Request(c, at, fate) =>
    /\ Comes(c, at) /\ call[c].at = at /\ UNCHANGED owner /\ hurt \subseteq hurt'
    /\ hurt' \subseteq hurt \cup {c}
    /\ fate \in {"served", "bare", "refused", "garbled"}
  BY DEF Request, Effect, Comes, NoChange, Costs, Stage, Fates

LEMMA BegunGrows == ASSUME Typed, NEW c, NEW size, NEW chunked, Begins(c, size, chunked)
                    PROVE  Begun' = Begun + 1
  <1>1. DOMAIN owner' = 1..(Begun + 1)
    BY DEF Begins
  <1>2. Cardinality(1..(Begun + 1)) = Begun + 1
    <2>1. ASSUME NEW n \in Nat PROVE Cardinality(1..(n + 1)) = n + 1
      BY FS_Interval
    <2> QED
      BY <2>1 DEF Typed
  <1> QED
    BY <1>1, <1>2 DEF Begun

LEMMA InitTyped == Init => Typed
  <1> SUFFICES ASSUME Init PROVE Typed
    OBVIOUS
  <1>1. DOMAIN owner = 1..0 /\ Begun = 0
    BY FS_Interval, FS_EmptySet DEF Init, Begun
  <1> QED
    BY <1>1, TransferAssumption DEF Init, Typed, Numbers, Bases, Busy, NoCall

-----------------------------------------------------------------------------
(* Collections hold chunks of their own upload, all those that were sent;  *)
(* what a client was told is so; and it builds on what it wrote last.      *)

Own == \A u \in 1..Uploads : staged[u] = NoCollection \/ staged[u] \subseteq Whole(u)

Gathered(c) ==
    /\ call[c].at \in {"put", "check", "collection"} => call[c].part = 1
    /\ call[c].at = "chunk" =>
          /\ call[c].part \in 1..Parts /\ CanAssemble(c)
          /\ \A i \in 1..(call[c].part - 1) : <<i, call[c].id>> \in staged[CollectionOf(c)]
    /\ call[c].at = "assemble" /\ CanAssemble(c) => staged[CollectionOf(c)] = Whole(call[c].id)

UpToDate(c) ==
    /\ Busy(c) => call[c].pre = ForUpload(base[c])
    /\ There /\ owner[file.ver] = c /\ c \notin hurt
          => base[c] \in {file.ver, Unknown} \/ call[c].at = "etag"

Told(c) ==
    /\ call[c].at = "etag" => call[c].id \in landed
    /\ verdict[c].is = "uploaded" /\ ~verdict[c].guessed => verdict[c].id \in landed
    /\ verdict[c].is = "conflict" /\ c \notin hurt
          => verdict[c].met = None \/ owner[verdict[c].met] # c

Fine(c) == Gathered(c) /\ UpToDate(c) /\ Told(c)
IInv == Typed /\ Own /\ FilesAreWhole /\ \A c \in Clients : Fine(c)

LEMMA InitIInv == Init => IInv
  BY InitTyped DEF Init, IInv, Own, FilesAreWhole, Fine, Gathered, Told, UpToDate,
     NoCall, NoVerdict, Busy, There, Absent

LEMMA BeginsKeeps == ASSUME IInv, NEW c \in Clients, NEW size \in Sizes, NEW chunked \in BOOLEAN,
                            Begins(c, size, chunked)
                     PROVE  IInv'
  <1>1. Begun' = Begun + 1 /\ Begun \in Nat
    BY BegunGrows DEF IInv, Typed
  <1>2. Typed'
    BY <1>1, TransferAssumption
       DEF IInv, Typed, Begins, Numbers, Bases, Call, Verdict, Busy, NoCall, server, Working, NoVerdict, Begun
  <1>3. \A u \in Numbers : owner'[u] = owner[u]
    BY <1>1 DEF IInv, Typed, Begins, Numbers
  <1>4. Own' /\ FilesAreWhole'
    BY DEF IInv, Begins, Own, FilesAreWhole, There, server, Whole
  <1>5. ASSUME NEW d \in Clients PROVE Fine(d)'
    <2>1. Gathered(d)'
      BY DEF IInv, Typed, Begins, Fine, Gathered, CanAssemble, CollectionOf, server
    <2>2. Told(d)'
      <3>1. verdict[d].is = "conflict" => verdict[d].met \in {None} \cup Numbers
        BY DEF IInv, Typed, Verdict, NoVerdict
      <3>2. call'[d].at = "etag" => call'[d] = call[d]
        BY DEF IInv, Typed, Begins
      <3> QED
        BY <1>3, <3>1, <3>2 DEF IInv, Begins, Fine, Told
    <2>3. UpToDate(d)'
      BY <1>3 DEF IInv, Typed, Begins, Fine, UpToDate, Busy, There, server, Numbers, NoCall, Absent
    <2> QED
      BY <2>1, <2>2, <2>3 DEF Fine
  <1> QED
    BY <1>2, <1>4, <1>5 DEF IInv

LEMMA ReadsKeeps == ASSUME IInv, NEW c \in Clients, Reads(c) PROVE IInv'
  <1>1. Begun' = Begun
    BY DEF Reads, Begun
  <1>2. Typed'
    BY <1>1 DEF IInv, Typed, Reads, Numbers, Bases, Busy, server, Fetched, Absent, Call, Verdict
  <1>3. Own' /\ FilesAreWhole'
    BY DEF IInv, Reads, Own, FilesAreWhole, There, server, Whole
  <1>4. ASSUME NEW d \in Clients PROVE Fine(d)'
    BY DEF IInv, Typed, Reads, Fine, Gathered, Told, UpToDate, Busy, There, server, Fetched, NoVerdict,
           CanAssemble, CollectionOf, Whole
  <1> QED
    BY <1>2, <1>3, <1>4 DEF IInv

LEMMA DeletesKeeps == ASSUME IInv, NEW c \in Clients, Deletes(c) PROVE IInv'
  <1>1. Begun' = Begun
    BY DEF Deletes, Begun, history
  <1>2. Typed'
    BY <1>1 DEF IInv, Typed, Deletes, Removed, history, Numbers, Bases, Busy, Call, Verdict
  <1>3. Own' /\ FilesAreWhole'
    BY DEF IInv, Deletes, Removed, history, Own, FilesAreWhole, There, Whole, Absent
  <1>4. ASSUME NEW d \in Clients PROVE Fine(d)'
    BY DEF IInv, Typed, Deletes, Removed, history, Fine, Gathered, Told, UpToDate, Busy, There, Absent,
           CanAssemble, CollectionOf, Whole
  <1> QED
    BY <1>2, <1>3, <1>4 DEF IInv

-----------------------------------------------------------------------------
(* Whatever a request is for, and whether it is answered, it leaves whole  *)
(* what was whole, and others to what they had.                            *)

LEMMA RequestKeeps ==
  ASSUME IInv, NEW c \in Clients, NEW at, NEW fate, Request(c, at, fate), Busy(c)
  PROVE  /\ Own' /\ FilesAreWhole' /\ DOMAIN staged' = 1..Uploads /\ Begun' = Begun
         /\ file' = Absent \/ (file'.ver \in Numbers /\ file'.size \in Sizes)
         /\ file' = file \/ (file'.ver = call[c].id /\ at \in {"put", "assemble"})
         /\ landed \subseteq landed'
         /\ \A u \in 1..Uploads : u # call[c].id => staged'[u] = staged[u]
  <1>0. call[c].at = at /\ Begun' = Begun
    BY RequestComes DEF Begun
  <1>1. call[c] \in Call /\ call[c].at = at /\ call[c].id \in 1..Uploads /\ Begun' = Begun
    BY <1>0, TransferAssumption DEF IInv, Typed, Busy, Call, Numbers, NoCall
  <1>2. CASE UNCHANGED <<server, landed>>
    BY <1>1, <1>2 DEF IInv, Typed, Own, FilesAreWhole, There, server, Whole
  <1>3. CASE at = "put" /\ Replaced(c, Whole(call[c].id)) /\ UNCHANGED staged
    BY <1>1, <1>3 DEF IInv, Typed, Own, FilesAreWhole, There, Whole, Replaced, Call
  <1>4. CASE at = "collection" /\ Stage(c, Collected(c))
    BY <1>1, <1>4 DEF IInv, Typed, Own, FilesAreWhole, There, Whole, Stage, Collected, CollectionOf
  <1>5. CASE at = "chunk" /\ Stage(c, Collected(c) \cup {<<call[c].part, call[c].id>>})
    <2>1. call[c].part \in 1..Parts
      BY <1>1, <1>5 DEF IInv, Fine, Gathered
    <2>2. Collected(c) \cup {<<call[c].part, call[c].id>>} \subseteq Whole(call[c].id)
      BY <1>1, <2>1 DEF IInv, Own, Whole, Collected, CollectionOf
    <2> QED
      BY <1>1, <1>5, <2>2 DEF IInv, Typed, Own, FilesAreWhole, There, Whole, Stage, CollectionOf
  <1>6. CASE /\ at = "assemble" /\ CanAssemble(c) /\ Replaced(c, Collected(c))
             /\ staged' = [staged EXCEPT ![CollectionOf(c)] = NoCollection]
    BY <1>1, <1>6 DEF IInv, Typed, Own, FilesAreWhole, There, Whole, Replaced, Call, Collected, CollectionOf,
       CanAssemble, Fine, Gathered
  <1>7. CASE at = "sweep" /\ Stage(c, NoCollection)
    BY <1>1, <1>7 DEF IInv, Typed, Own, FilesAreWhole, There, Whole, Stage, CollectionOf
  <1>8. Comes(c, at)
    BY RequestComes
  <1> QED
    BY <1>2, <1>3, <1>4, <1>5, <1>6, <1>7, <1>8 DEF Comes

LEMMA OthersKeep ==
  ASSUME IInv, NEW c \in Clients, NEW at, NEW fate, Request(c, at, fate), Busy(c),
         NEW d \in Clients, d # c,
         call'[d] = call[d], base'[d] = base[d], verdict'[d] = verdict[d]
  PROVE  Fine(d)'
  <1>1. /\ landed \subseteq landed' /\ owner' = owner
        /\ file' = file \/ file'.ver = call[c].id
        /\ \A u \in 1..Uploads : u # call[c].id => staged'[u] = staged[u]
        /\ d \in hurt <=> d \in hurt'
    BY RequestKeeps, RequestComes
  <1>2. owner[call[c].id] = c
    BY DEF IInv, Typed
  <1>3. Told(d)'
    BY <1>1 DEF IInv, Fine, Told
  <1>4. UpToDate(d)'
    BY <1>1, <1>2 DEF IInv, Fine, UpToDate, Busy, There
  <1>5. Gathered(d)'
    <2>1. call[d].at \in {"chunk", "assemble"} => call[d].id \in 1..Uploads /\ call[d].id # call[c].id
      BY <1>2, TransferAssumption DEF IInv, Typed, Busy, Call, Numbers, NoCall
    <2> QED
      BY <1>1, <2>1 DEF IInv, Fine, Gathered, CanAssemble, CollectionOf, Whole
  <1> QED
    BY <1>3, <1>4, <1>5 DEF Fine

\* A request of c keeps the invariant if it leaves c itself with a call and a
\* verdict that are fine.
LEMMA StepKeeps ==
  ASSUME IInv, NEW c \in Clients, NEW at, NEW fate, Request(c, at, fate), Busy(c),
         NEW x \in {NoCall} \cup Call, x.at # "idle" => x.id = call[c].id,
         call' = [call EXCEPT ![c] = x],
         base' \in [Clients -> Bases], \A d \in Clients : d # c => base'[d] = base[d],
         verdict' \in [Clients -> {NoVerdict} \cup Verdict],
         \A d \in Clients : d # c => verdict'[d] = verdict[d],
         Fine(c)'
  PROVE  IInv'
  <1>1. Begun' = Begun /\ owner' = owner
    BY RequestComes, RequestKeeps
  <1>2. Numbers' = Numbers /\ Bases' = Bases
    BY <1>1 DEF Numbers, Bases
  <1>3. Call' = Call /\ Verdict' = Verdict
    BY <1>2 DEF Call, Verdict
  <1>4. Typed'
    BY <1>1, <1>2, <1>3, RequestKeeps DEF IInv, Typed, Busy
  <1>5. ASSUME NEW d \in Clients, d # c PROVE Fine(d)'
    BY <1>5, OthersKeep DEF IInv, Typed
  <1> QED
    BY <1>4, <1>5, RequestKeeps DEF IInv

LEMMA BusyIsTyped ==
  ASSUME IInv, NEW c \in Clients, Busy(c)
  PROVE  /\ call[c] \in Call /\ call[c].id \in Numbers /\ call[c].id \in 1..Uploads /\ call[c].part \in Nat
         /\ owner[call[c].id] = c /\ file.ver \in {None} \cup Numbers /\ base[c] \in Bases
  BY TransferAssumption DEF IInv, Typed, Busy, Call, Numbers, NoCall, Absent

\* What it means for the call of c to go on.
LEMMA GoesIs ==
  ASSUME IInv, NEW c \in Clients, Busy(c), NEW to, Goes(c, to)
  PROVE  /\ call' = [call EXCEPT ![c] = [call[c] EXCEPT !.at = to, !.part = call[c].part, !.tries = 1]]
         /\ call'[c].at = to /\ call'[c].part = call[c].part /\ call'[c].id = call[c].id
         /\ UNCHANGED <<base, verdict>> /\ call[c].part \in Nat
  <1> DEFINE x == [call[c] EXCEPT !.at = to, !.part = call[c].part, !.tries = 1]
  <1>1. call[c] \in Call /\ call[c].part \in Nat
    BY BusyIsTyped
  <1>2. [[call[c] EXCEPT !.at = to] EXCEPT !.tries = 1] = x
    BY <1>1 DEF Call
  <1>3. x.at = to /\ x.part = call[c].part /\ x.id = call[c].id
    BY <1>1 DEF Call
  <1> HIDE DEF x
  <1>4. call' = [call EXCEPT ![c] = x]
    BY <1>1, <1>2 DEF Goes
  <1>5. call'[c] = x
    BY <1>4 DEF IInv, Typed
  <1> QED
    BY <1>1, <1>3, <1>4, <1>5 DEF Goes, x

LEMMA EndsKeeps ==
  ASSUME IInv, NEW c \in Clients, NEW at, NEW fate, Request(c, at, fate), Busy(c),
         NEW is \in {"uploaded", "conflict", "failed"}, NEW etag \in Bases, NEW guessed \in BOOLEAN,
         Ends(c, is, etag, guessed),
         There' /\ owner[file'.ver] = c /\ c \notin hurt' => base'[c] \in {file'.ver, Unknown},
         is = "uploaded" /\ ~guessed => call[c].id \in landed',
         is = "conflict" /\ c \notin hurt' => file.ver = None \/ owner[file.ver] # c
  PROVE  IInv'
  <1>1. call' = [call EXCEPT ![c] = NoCall] /\ call'[c] = NoCall
    BY DEF Ends, IInv, Typed
  <1>2. base' \in [Clients -> Bases] /\ \A d \in Clients : d # c => base'[d] = base[d]
    BY DEF Ends, IInv, Typed
  <1>3. [is |-> is, id |-> call[c].id, met |-> file.ver, guessed |-> guessed] \in Verdict
    BY BusyIsTyped DEF Verdict
  <1>4. /\ verdict' \in [Clients -> {NoVerdict} \cup Verdict]
        /\ \A d \in Clients : d # c => verdict'[d] = verdict[d]
        /\ verdict'[c] = [is |-> is, id |-> call[c].id, met |-> file.ver, guessed |-> guessed]
    BY <1>3 DEF Ends, IInv, Typed
  <1>5. owner' = owner
    BY RequestComes
  <1>6. Fine(c)'
    BY <1>1, <1>4, <1>5 DEF Fine, Gathered, UpToDate, Told, NoCall, Busy
  <1> QED
    BY <1>1, <1>2, <1>4, <1>6, StepKeeps DEF NoCall

\* The request of an upload that goes on: c moves to another step, or to
\* another try or part of the same.
LEMMA GoesOnKeeps ==
  ASSUME IInv, NEW c \in Clients, NEW at, NEW fate, Request(c, at, fate), Busy(c),
         NEW to \in Working, NEW part \in Nat, NEW tries \in Nat,
         call' = [call EXCEPT ![c] = [call[c] EXCEPT !.at = to, !.part = part, !.tries = tries]],
         UNCHANGED <<base, verdict>>,
         Gathered(c)',
         file' # file /\ c \notin hurt' => to = "etag",
         to = "etag" => call[c].id \in landed', at = "etag" => to = "etag"
  PROVE  IInv'
  <1> DEFINE x == [call[c] EXCEPT !.at = to, !.part = part, !.tries = tries]
  <1>1. /\ x \in Call /\ x.id = call[c].id /\ x.at = to /\ x.pre = call[c].pre
        /\ call' = [call EXCEPT ![c] = x] /\ call'[c] = x
    <2>1. x \in Call /\ x.id = call[c].id /\ x.at = to /\ x.pre = call[c].pre
      BY BusyIsTyped DEF Call
    <2>2. call' = [call EXCEPT ![c] = x] /\ c \in DOMAIN call
      BY DEF IInv, Typed
    <2> HIDE DEF x
    <2> QED
      BY <2>1, <2>2
  <1>2. /\ owner' = owner /\ landed \subseteq landed' /\ hurt \subseteq hurt' /\ call[c].at = at
        /\ base' = base /\ verdict' = verdict
    BY RequestComes, RequestKeeps
  <1> HIDE DEF x
  <1>3. UpToDate(c)'
    BY <1>1, <1>2 DEF IInv, Fine, UpToDate, Busy, There, Working
  <1>4. Told(c)'
    BY <1>1, <1>2 DEF IInv, Fine, Told
  <1>5. Fine(c)'
    BY <1>3, <1>4 DEF Fine
  <1>6. base' \in [Clients -> Bases] /\ verdict' \in [Clients -> {NoVerdict} \cup Verdict]
    BY <1>2 DEF IInv, Typed
  <1> QED
    BY <1>1, <1>2, <1>5, <1>6, StepKeeps

LEMMA CollectionKeeps ==
  ASSUME IInv, NEW c \in Clients, NEW at, NEW fate, Request(c, at, fate), Busy(c)
  PROVE  /\ at = "chunk" => /\ staged'[call[c].id] # NoCollection
                            /\ staged[call[c].id] \subseteq staged'[call[c].id]
         /\ at = "assemble" => staged'[call[c].id] \in {staged[call[c].id], NoCollection}
  <1>1. call[c].at = at /\ Comes(c, at)
    BY RequestComes
  <1>2. call[c].id \in DOMAIN staged
    BY BusyIsTyped DEF IInv, Typed
  <1>3. CASE at = "chunk"
    <2>1. call[c].part \in 1..Parts /\ staged[call[c].id] # NoCollection
      BY <1>1, <1>3 DEF IInv, Fine, Gathered, CanAssemble, CollectionOf
    <2>2. staged[call[c].id] \cup {<<call[c].part, call[c].id>>} # NoCollection
      BY <2>1, TransferAssumption DEF NoCollection
    <2> QED
      BY <1>1, <1>2, <1>3, <2>1, <2>2 DEF Comes, Stage, Collected, CollectionOf, server
  <1>4. CASE at = "assemble"
    BY <1>1, <1>2, <1>4 DEF Comes, Stage, CollectionOf, server
  <1> QED
    BY <1>3, <1>4

LEMMA ResendsKeeps == ASSUME IInv, NEW c \in Clients, Resends(c) PROVE IInv'
  <1>1. PICK fate \in {"refused", "garbled"} : Request(c, call[c].at, fate)
    BY DEF Resends
  <1>2. /\ Busy(c) /\ call[c] \in Call /\ call[c].at \in Working /\ call[c].part \in Nat
        /\ call[c].tries + 1 \in Nat /\ call[c].id \in 1..Uploads
    BY BusyIsTyped DEF Resends, Call
  <1>3. call' = [call EXCEPT ![c] =
                   [call[c] EXCEPT !.at = call[c].at, !.part = call[c].part, !.tries = call[c].tries + 1]]
    BY <1>2 DEF Resends, Call
  <1>4. file' = file \/ c \in hurt'
    BY <1>1 DEF Request, Costs, NoChange, server
  <1>5. landed \subseteq landed' /\ (call[c].at = "etag" => call[c].id \in landed)
    BY <1>1, <1>2, RequestKeeps DEF IInv, Fine, Told
  <1>6. Gathered(c)'
    <2>1. call'[c].at = call[c].at /\ call'[c].part = call[c].part /\ call'[c].id = call[c].id
      BY <1>2, <1>3 DEF IInv, Typed, Call
    <2>2. Gathered(c)
      BY DEF IInv, Fine
    <2> QED
      BY <1>1, <1>2, <2>1, <2>2, CollectionKeeps DEF Gathered, CanAssemble, CollectionOf, Whole
  <1>7. UNCHANGED <<base, verdict>>
    BY DEF Resends
  <1> QED
    BY <1>1, <1>2, <1>3, <1>4, <1>5, <1>6, <1>7, GoesOnKeeps

\* What c wrote last is what its next upload asks for.
LEMMA OwnIsFine ==
  ASSUME IInv, NEW c \in Clients, Busy(c), call[c].at # "etag", c \notin hurt,
         There, owner[file.ver] = c
  PROVE  PreconditionOk(call[c].pre) /\ \A fate : CheckOk(call[c].pre, EtagOf(fate))
  <1>1. call[c].pre = ForUpload(base[c]) /\ base[c] \in {file.ver, Unknown} /\ base[c] # None
    BY BusyIsTyped DEF IInv, Fine, UpToDate, There, None, Unknown
  <1>2. CASE base[c] = Unknown
    <2>1. call[c].pre.asks = "nothing"
      BY <1>1, <1>2 DEF ForUpload, Unconditional, None, Unknown
    <2> QED
      BY <2>1 DEF PreconditionOk, CheckOk, EtagOf, Listed
  <1>3. CASE base[c] # Unknown
    <2>1. call[c].pre.asks = "version" /\ call[c].pre.ver = file.ver
      BY <1>1, <1>3 DEF ForUpload, Match
    <2> QED
      BY <2>1 DEF PreconditionOk, CheckOk, EtagOf, Listed
  <1> QED
    BY <1>2, <1>3

LEMMA PutsKeeps == ASSUME IInv, NEW c \in Clients, Puts(c) PROVE IInv'
  <1>1. PICK fate \in Fates :
          /\ Request(c, "put", fate)
          /\ IF fate \notin Good THEN Ends(c, "failed", None, FALSE)
             ELSE IF ~PreconditionOk(call[c].pre) THEN Ends(c, "conflict", None, FALSE)
             ELSE Ends(c, "uploaded", IF fate = "bare" THEN Unknown ELSE call[c].id, FALSE)
    BY DEF Puts
  <1>2. Busy(c) /\ call[c].at = "put" /\ None \in Bases /\ Unknown \in Bases
    BY <1>1 DEF Request, Busy, Bases
  <1>3. call[c].id \in Bases /\ owner[call[c].id] = c /\ owner' = owner
    BY <1>1, <1>2, BusyIsTyped, RequestComes DEF Bases
  <1>4. UpToDate(c)
    BY DEF IInv, Fine
  <1>5. CASE fate \notin Good
    <2>1. c \in hurt' \/ file' = file
      BY <1>1, <1>5 DEF Request, Costs, NoChange, server, Fates, Good
    <2>2. base' = base /\ hurt \subseteq hurt'
      BY <1>1, <1>5, RequestComes DEF Ends
    <2> QED
      BY <1>1, <1>2, <1>3, <1>4, <1>5, <2>1, <2>2, EndsKeeps DEF UpToDate, There
  <1>6. CASE fate \in Good /\ ~PreconditionOk(call[c].pre)
    <2>1. file' = file /\ hurt' = hurt /\ base' = base
      BY <1>1, <1>2, <1>6 DEF Request, Costs, Effect, NoChange, server, Good, Ends
    <2>2. c \notin hurt => file.ver = None \/ owner[file.ver] # c
      BY <1>2, <1>6, OwnIsFine DEF There
    <2> QED
      BY <1>1, <1>2, <1>4, <1>6, <2>1, <2>2, EndsKeeps DEF UpToDate, There
  <1>7. CASE fate \in Good /\ PreconditionOk(call[c].pre)
    <2>1. file'.ver = call[c].id /\ call[c].id \in landed'
      BY <1>1, <1>2, <1>7 DEF Request, Effect, Replaced, Good
    <2>2. base'[c] = IF fate = "bare" THEN Unknown ELSE call[c].id
      BY <1>1, <1>7 DEF Ends, IInv, Typed
    <2> QED
      BY <1>1, <1>2, <1>3, <1>7, <2>1, <2>2, EndsKeeps
  <1> QED
    BY <1>5, <1>6, <1>7

LEMMA ChecksKeeps == ASSUME IInv, NEW c \in Clients, Checks(c) PROVE IInv'
  <1>1. PICK fate \in Fates :
          /\ Request(c, "check", fate)
          /\ IF fate \notin Good THEN Ends(c, "failed", None, FALSE)
             ELSE IF ~CheckOk(call[c].pre, EtagOf(fate)) THEN Ends(c, "conflict", None, FALSE)
             ELSE Goes(c, "collection")
    BY DEF Checks
  <1>2. Busy(c) /\ call[c].at = "check" /\ None \in Bases
    BY <1>1 DEF Request, Busy, Bases
  <1>3. file' = file /\ hurt \subseteq hurt'
    BY <1>1, <1>2, RequestComes DEF Comes, server
  <1>4. UpToDate(c) /\ Gathered(c)
    BY DEF IInv, Fine
  <1>5. CASE fate \notin Good
    <2>1. base' = base
      BY <1>1, <1>5 DEF Ends
    <2> QED
      BY <1>1, <1>2, <1>3, <1>4, <1>5, <2>1, EndsKeeps DEF UpToDate, There
  <1>6. CASE fate \in Good /\ ~CheckOk(call[c].pre, EtagOf(fate))
    <2>1. base' = base /\ hurt' = hurt
      BY <1>1, <1>6 DEF Ends, Request, Costs, Good
    <2>2. c \notin hurt => file.ver = None \/ owner[file.ver] # c
      BY <1>2, <1>6, OwnIsFine DEF There
    <2> QED
      BY <1>1, <1>2, <1>3, <1>4, <1>6, <2>1, <2>2, EndsKeeps DEF UpToDate, There
  <1>7. CASE fate \in Good /\ CheckOk(call[c].pre, EtagOf(fate))
    <2>1. /\ call' = [call EXCEPT ![c] = [call[c] EXCEPT !.at = "collection", !.part = call[c].part, !.tries = 1]]
          /\ UNCHANGED <<base, verdict>>
      BY <1>1, <1>2, <1>7, GoesIs
    <2>2. call'[c].at = "collection" /\ call'[c].part = call[c].part
      BY <1>1, <1>2, <1>7, GoesIs
    <2>3. Gathered(c)'
      BY <1>2, <1>4, <2>2 DEF Gathered
    <2> QED
      <3>1. call[c].part \in Nat /\ 1 \in Nat /\ "collection" \in Working
        BY <1>2, BusyIsTyped DEF Working
      <3> QED
        BY <1>1, <1>2, <1>3, <2>1, <2>3, <3>1, GoesOnKeeps
  <1> QED
    BY <1>5, <1>6, <1>7

LEMMA MakesCollectionKeeps == ASSUME IInv, NEW c \in Clients, MakesCollection(c) PROVE IInv'
  <1>1. PICK fate \in Fates :
          /\ Request(c, "collection", fate)
          /\ IF fate \in Good THEN Goes(c, "chunk") ELSE Ends(c, "failed", None, FALSE)
    BY DEF MakesCollection
  <1>2. Busy(c) /\ call[c].at = "collection" /\ None \in Bases
    BY <1>1 DEF Request, Busy, Bases
  <1>3. file' = file /\ hurt \subseteq hurt'
    BY <1>1, <1>2, RequestComes DEF Comes, Stage, server
  <1>4. UpToDate(c) /\ Gathered(c)
    BY DEF IInv, Fine
  <1>5. CASE fate \notin Good
    <2>1. base' = base
      BY <1>1, <1>5 DEF Ends
    <2> QED
      BY <1>1, <1>2, <1>3, <1>4, <1>5, <2>1, EndsKeeps DEF UpToDate, There
  <1>6. CASE fate \in Good
    <2>1. /\ call' = [call EXCEPT ![c] = [call[c] EXCEPT !.at = "chunk", !.part = call[c].part, !.tries = 1]]
          /\ UNCHANGED <<base, verdict>>
      BY <1>1, <1>2, <1>6, GoesIs
    <2>2. call'[c].at = "chunk" /\ call'[c].part = 1 /\ call'[c].id = call[c].id
      BY <1>1, <1>2, <1>4, <1>6, GoesIs DEF Gathered
    <2>3. staged'[call[c].id] # NoCollection
      <3>1. Effect(c)
        BY <1>1, <1>6 DEF Request, Good
      <3>2. Stage(c, Collected(c))
        BY <1>2, <3>1 DEF Effect
      <3>3. staged' = [staged EXCEPT ![call[c].id] = Collected(c)] /\ Collected(c) # NoCollection
        <4>1. Collected(c) # NoCollection
          BY DEF Collected, NoCollection
        <4> QED
          BY <3>2, <4>1 DEF Stage, CollectionOf
      <3>4. call[c].id \in DOMAIN staged
        BY <1>2, BusyIsTyped DEF IInv, Typed
      <3> QED
        BY <3>3, <3>4
    <2>4. Gathered(c)'
      BY <2>2, <2>3, TransferAssumption DEF Gathered, CanAssemble, CollectionOf
    <2> QED
      <3>1. call[c].part \in Nat /\ 1 \in Nat /\ "chunk" \in Working
        BY <1>2, BusyIsTyped DEF Working
      <3> QED
        BY <1>1, <1>2, <1>3, <2>1, <2>4, <3>1, GoesOnKeeps
  <1> QED
    BY <1>5, <1>6

LEMMA SendsChunkKeeps == ASSUME IInv, NEW c \in Clients, SendsChunk(c) PROVE IInv'
  <1>1. PICK fate \in Fates :
          /\ Request(c, "chunk", fate) /\ UNCHANGED <<base, verdict>>
          /\ call' = [call EXCEPT ![c].at = IF fate \notin Good THEN "sweep"
                                      ELSE IF call[c].part < Parts THEN "chunk" ELSE "assemble",
                            ![c].part = @ + 1, ![c].tries = 1]
    BY DEF SendsChunk
  <1> DEFINE to == IF fate \notin Good THEN "sweep"
                   ELSE IF call[c].part < Parts THEN "chunk" ELSE "assemble"
  <1>2. Busy(c) /\ call[c].at = "chunk" /\ to \in Working /\ to # "etag"
    BY <1>1 DEF Request, Busy, Working
  <1>3. file' = file
    BY <1>1, <1>2, RequestComes DEF Comes, Stage, server
  <1>4. call' = [call EXCEPT ![c] = [call[c] EXCEPT !.at = to, !.part = call[c].part + 1, !.tries = 1]]
    <2>1. call[c] \in Call /\ c \in DOMAIN call
      BY <1>2, BusyIsTyped DEF IInv, Typed
    <2>2. call' = [call EXCEPT ![c].at = to, ![c].part = @ + 1, ![c].tries = 1]
      BY <1>1
    <2> HIDE DEF to
    <2>3. [[[call[c] EXCEPT !.at = to] EXCEPT !.part = @ + 1] EXCEPT !.tries = 1]
            = [call[c] EXCEPT !.at = to, !.part = call[c].part + 1, !.tries = 1]
      BY <2>1 DEF Call
    <2> QED
      BY <2>1, <2>2, <2>3
  <1>5. call'[c].at = to /\ call'[c].part = call[c].part + 1 /\ call'[c].id = call[c].id
    <2> HIDE DEF to
    <2>1. call[c] \in Call /\ c \in DOMAIN call
      BY <1>2, BusyIsTyped DEF IInv, Typed
    <2>2. call'[c] = [call[c] EXCEPT !.at = to, !.part = call[c].part + 1, !.tries = 1]
      BY <1>4, <2>1
    <2> QED
      BY <2>1, <2>2 DEF Call
  <1>6. /\ call[c].part \in 1..Parts
        /\ \A i \in 1..(call[c].part - 1) : <<i, call[c].id>> \in staged[call[c].id]
        /\ staged'[call[c].id] # NoCollection /\ staged[call[c].id] \subseteq staged'[call[c].id]
    BY <1>1, <1>2, CollectionKeeps DEF IInv, Fine, Gathered, CollectionOf
  <1>7. ASSUME fate \in Good PROVE \A i \in 1..call[c].part : <<i, call[c].id>> \in staged'[call[c].id]
    <2>1. <<call[c].part, call[c].id>> \in staged'[call[c].id]
      <3>1. Effect(c)
        BY <1>1, <1>7 DEF Request, Good
      <3>2. Stage(c, Collected(c) \cup {<<call[c].part, call[c].id>>})
        BY <1>2, <3>1 DEF Effect
      <3>3. staged' = [staged EXCEPT ![call[c].id] = Collected(c) \cup {<<call[c].part, call[c].id>>}]
        BY <3>2 DEF Stage, CollectionOf
      <3>4. call[c].id \in DOMAIN staged
        BY <1>2, BusyIsTyped DEF IInv, Typed
      <3> QED
        BY <3>3, <3>4
    <2>2. ASSUME NEW i \in 1..call[c].part, i # call[c].part
          PROVE  <<i, call[c].id>> \in staged'[call[c].id]
      <3>1. i \in 1..(call[c].part - 1)
        BY <1>6, <2>2
      <3> QED
        BY <1>6, <3>1
    <2> QED
      BY <2>1, <2>2
  <1>8. staged'[call[c].id] \subseteq Whole(call[c].id)
    BY <1>1, <1>2, <1>6, BusyIsTyped, RequestKeeps DEF Own, Whole
  <1>9. Gathered(c)'
    <2>1. CASE to = "chunk"
      BY <1>5, <1>6, <1>7, <2>1, TransferAssumption DEF Gathered, CanAssemble, CollectionOf
    <2>2. CASE to = "assemble"
      <3>1. staged'[call[c].id] = Whole(call[c].id)
        BY <1>6, <1>7, <1>8, <2>2, TransferAssumption DEF Whole
      <3> QED
        BY <1>5, <2>2, <3>1 DEF Gathered, CollectionOf, Whole
    <2> QED
      BY <1>5, <2>1, <2>2 DEF Gathered
  <1> HIDE DEF to
  <1>10. call[c].part + 1 \in Nat /\ 1 \in Nat /\ Request(c, "chunk", fate) /\ UNCHANGED <<base, verdict>>
    BY <1>1, <1>6
  <1> QED
    BY <1>2, <1>3, <1>4, <1>9, <1>10, GoesOnKeeps

LEMMA AssemblesKeeps == ASSUME IInv, NEW c \in Clients, Assembles(c) PROVE IInv'
  <1>1. PICK fate \in Fates :
          /\ Request(c, "assemble", fate)
          /\ Goes(c, IF fate \in Good /\ CanAssemble(c) THEN "etag" ELSE "probe")
    BY DEF Assembles
  <1> DEFINE to == IF fate \in Good /\ CanAssemble(c) THEN "etag" ELSE "probe"
  <1>2. /\ Busy(c) /\ call[c].at = "assemble" /\ to \in {"etag", "probe"} /\ to \in Working
        /\ 1 \in Nat /\ Request(c, "assemble", fate)
    BY <1>1 DEF Request, Busy, Working
  <1>3. /\ call' = [call EXCEPT ![c] = [call[c] EXCEPT !.at = to, !.part = call[c].part, !.tries = 1]]
        /\ UNCHANGED <<base, verdict>> /\ call[c].part \in Nat
    <2>1. call[c] \in Call /\ call[c].part \in Nat
      BY <1>2, BusyIsTyped
    <2>2. Goes(c, to)
      BY <1>1
    <2> HIDE DEF to
    <2>3. [[call[c] EXCEPT !.at = to] EXCEPT !.tries = 1]
            = [call[c] EXCEPT !.at = to, !.part = call[c].part, !.tries = 1]
      BY <2>1 DEF Call
    <2> QED
      BY <2>1, <2>2, <2>3 DEF Goes
  <1>4. call'[c].at = to
    BY <1>2, <1>3, BusyIsTyped DEF Call, IInv, Typed
  <1>5. to = "etag" => call[c].id \in landed'
    BY <1>1, <1>2 DEF Request, Effect, Good, Replaced
  <1>6. to = "etag" \/ file' = file \/ c \in hurt'
    BY <1>1, <1>2 DEF Request, Effect, Good, NoChange, Costs, server, Fates
  <1>7. Gathered(c)'
    BY <1>2, <1>4 DEF Gathered
  <1> HIDE DEF to
  <1> QED
    BY <1>2, <1>3, <1>5, <1>6, <1>7, GoesOnKeeps

LEMMA ProbesKeeps == ASSUME IInv, NEW c \in Clients, Probes(c) PROVE IInv'
  <1>1. PICK fate \in Fates :
          /\ Request(c, "probe", fate)
          /\ IF fate \in Good /\ There /\ file.size = call[c].size
             THEN Ends(c, "uploaded", IF fate = "bare" THEN Unknown ELSE Listed, TRUE)
             ELSE Goes(c, "sweep")
    BY DEF Probes
  <1>2. Busy(c) /\ call[c].at = "probe"
    BY <1>1 DEF Request, Busy
  <1>3. file' = file /\ hurt \subseteq hurt'
    BY <1>1, <1>2, RequestComes DEF Comes, server
  <1>4. CASE fate \in Good /\ There /\ file.size = call[c].size
    <2> DEFINE etag == IF fate = "bare" THEN Unknown ELSE Listed
    <2>1. etag \in Bases /\ TRUE \in BOOLEAN
      BY <1>2, BusyIsTyped DEF Bases, Listed
    <2>2. base'[c] \in {file'.ver, Unknown}
      BY <1>1, <1>3, <1>4 DEF Ends, IInv, Typed, Listed
    <2>3. Ends(c, "uploaded", etag, TRUE) /\ Request(c, "probe", fate)
      BY <1>1, <1>4
    <2> HIDE DEF etag
    <2> QED
      BY <1>2, <2>1, <2>2, <2>3, EndsKeeps
  <1>5. CASE ~(fate \in Good /\ There /\ file.size = call[c].size)
    <2>1. /\ call' = [call EXCEPT ![c] = [call[c] EXCEPT !.at = "sweep", !.part = call[c].part, !.tries = 1]]
          /\ UNCHANGED <<base, verdict>> /\ call[c].part \in Nat
      BY <1>1, <1>2, <1>5, GoesIs
    <2>2. call'[c].at = "sweep"
      BY <1>1, <1>2, <1>5, GoesIs
    <2>3. Gathered(c)' /\ 1 \in Nat /\ "sweep" \in Working /\ Request(c, "probe", fate)
      BY <1>1, <2>2 DEF Gathered, Working
    <2> QED
      BY <1>2, <1>3, <2>1, <2>3, GoesOnKeeps
  <1> QED
    BY <1>4, <1>5

LEMMA ReadsEtagKeeps == ASSUME IInv, NEW c \in Clients, ReadsEtag(c) PROVE IInv'
  <1>1. PICK fate \in Fates :
          /\ Request(c, "etag", fate)
          /\ Ends(c, "uploaded", IF fate = "served" /\ There THEN Listed ELSE Unknown, FALSE)
    BY DEF ReadsEtag
  <1> DEFINE etag == IF fate = "served" /\ There THEN Listed ELSE Unknown
  <1>2. Busy(c) /\ call[c].at = "etag"
    BY <1>1 DEF Request, Busy
  <1>3. file' = file /\ landed' = landed
    BY <1>1, <1>2, RequestComes DEF Comes, server
  <1>4. etag \in Bases /\ call[c].id \in landed'
    BY <1>2, <1>3, BusyIsTyped DEF Bases, Listed, IInv, Fine, Told
  <1>5. base'[c] \in {file'.ver, Unknown}
    BY <1>1, <1>3 DEF Ends, IInv, Typed, Listed
  <1>6. Ends(c, "uploaded", etag, FALSE) /\ Request(c, "etag", fate)
    BY <1>1
  <1> HIDE DEF etag
  <1> QED
    BY <1>2, <1>4, <1>5, <1>6, EndsKeeps

LEMMA SweepsKeeps == ASSUME IInv, NEW c \in Clients, Sweeps(c) PROVE IInv'
  <1>1. PICK fate \in Fates : Request(c, "sweep", fate) /\ Ends(c, "failed", None, FALSE)
    BY DEF Sweeps
  <1>2. Busy(c) /\ call[c].at = "sweep" /\ None \in Bases
    BY <1>1 DEF Request, Busy, Bases
  <1>3. file' = file /\ hurt \subseteq hurt' /\ base' = base
    BY <1>1, <1>2, RequestComes DEF Comes, Stage, server, Ends
  <1>4. UpToDate(c)
    BY DEF IInv, Fine
  <1> QED
    BY <1>1, <1>2, <1>3, <1>4, EndsKeeps DEF UpToDate, There

-----------------------------------------------------------------------------
LEMMA NextKeeps == ASSUME IInv, [Next]_vars PROVE IInv'
  <1>1. CASE UNCHANGED vars
    <2>1. Begun' = Begun
      BY <1>1 DEF vars, history, Begun
    <2>2. Typed'
      BY <1>1, <2>1 DEF vars, server, history, IInv, Typed, Numbers, Bases, Call, Verdict, Busy
    <2>3. Own' /\ FilesAreWhole'
      BY <1>1 DEF vars, server, history, IInv, Own, FilesAreWhole, There, Whole
    <2>4. \A c \in Clients : Fine(c)'
      BY <1>1 DEF vars, server, history, IInv, Fine, Gathered, UpToDate, Told, Busy, There, CanAssemble,
         CollectionOf, Whole
    <2> QED
      BY <2>2, <2>3, <2>4 DEF IInv
  <1>2. CASE Next
    BY <1>2, BeginsKeeps, ReadsKeeps, DeletesKeeps, ResendsKeeps, PutsKeeps, ChecksKeeps, MakesCollectionKeeps,
       SendsChunkKeeps, AssemblesKeeps, ProbesKeeps, ReadsEtagKeeps, SweepsKeeps DEF Next
  <1> QED
    BY <1>1, <1>2

\* What a client and the server hold of an upload fits together in every
\* reachable state. (webdav.rs put_chunked.)
THEOREM Invariance == Spec => []IInv
  <1>1. IInv /\ [Next]_vars => IInv'
    BY NextKeeps
  <1> QED
    BY <1>1, InitIInv, PTL DEF Spec

\* Whatever is refused, repeated or lost: what is at the document's path is one
\* upload, with all its chunks and no other's. (webdav.rs put_chunked and the
\* collection named for each upload.)
THEOREM DocumentsAreWhole == Spec => []FilesAreWhole
  <1>1. IInv => FilesAreWhole
    BY DEF IInv
  <1> QED
    BY <1>1, Invariance, PTL

\* A clean answer is true: what is reported as uploaded has been the document.
\* (webdav.rs put_conditional, put_chunked; the guess by size is not covered.)
THEOREM CleanAnswersAreTrue == Spec => []AnswersAreTrue
  <1>1. IInv => AnswersAreTrue
    BY DEF IInv, Fine, Told, AnswersAreTrue
  <1> QED
    BY <1>1, Invariance, PTL

\* A client that was told of all its requests' effects never takes its own
\* version for somebody else's. (webdav.rs Precondition, put_chunked's check.)
THEOREM ConflictsAreAnothers == Spec => []ConflictsAreOthers
  <1>1. IInv => ConflictsAreOthers
    BY DEF IInv, Fine, Told, ConflictsAreOthers
  <1> QED
    BY <1>1, Invariance, PTL

-----------------------------------------------------------------------------
(* Tree.                                                                   *)

\* Every upload that is owed has its row and its buffer.
Anchored == pending \subseteq Ids \cap buffer

LEMMA BelowHasThem == \A S : S \cap Ids \subseteq Below(S)
  BY DEF Below

LEMMA OursStay ==
    ASSUME Anchored, UNCHANGED <<row, ours>>
    PROVE  Anchored'
  BY DEF Anchored, ours, Ids

LEMMA DropsKeepsAnchored ==
    ASSUME Anchored, NEW gone, Drops(gone), Ids \ gone \subseteq Ids'
    PROVE  Anchored'
  BY DEF Anchored, Drops

LEMMA FilesKeepAnchored ==
    ASSUME Anchored, NEW i \in 1..MaxId,
           \/ \E n \in Names : Creates(i, n)
           \/ Edits(i) \/ Saves(i) \/ UploadsFile(i) \/ Collides(i)
    PROVE  Anchored'
<1>1. ASSUME NEW n \in Names, Creates(i, n) PROVE Anchored'
  <2>1. DOMAIN row' = Ids \cup {NextId}
    BY <1>1 DEF Creates, With, Ids
  <2>2. buffer' = buffer \cup {NextId} /\ pending' = pending
    BY <1>1 DEF Creates
  <2> QED
    BY <2>1, <2>2 DEF Anchored, Ids
<1>2. CASE Edits(i)
  BY <1>2 DEF Edits, Anchored, Ids
<1>3. CASE Saves(i)
  BY <1>3 DEF Saves, Anchored, Ids
<1>4. CASE UploadsFile(i) \/ Collides(i)
  <2>1. DOMAIN row' = Ids /\ pending' = pending \ {i} /\ buffer' = buffer \ {i}
    BY <1>4 DEF UploadsFile, Collides, Ids
  <2> QED
    BY <2>1 DEF Anchored, Ids
<1> QED
  BY <1>1, <1>2, <1>3, <1>4

LEMMA CommitsMoveKeepsAnchored ==
    ASSUME Anchored, NEW f, CommitsMove(f)
    PROVE  Anchored'
<1>0. PICK path \in Respelled(f.id, Destination(f)) :
         LET old  == ChildNamed(f.to, f.name) \ {f.id}
             gone == Doomed(old)
             new  == Inherits(f, MovedRows(f, gone, path), old)
         IN  \/ UNCHANGED <<row, ours>>
             \/ row' = new /\ Drops(gone)
  BY DEF CommitsMove
<1> DEFINE old  == ChildNamed(f.to, f.name) \ {f.id}
           gone == Doomed(old)
           moved == MovedRows(f, gone, path)
           new  == Inherits(f, moved, old)
<1>1. DOMAIN new = Ids \ gone
  <2>1. DOMAIN moved = Ids \ gone
    BY DEF MovedRows
  <2> HIDE DEF moved
  <2>2. DOMAIN new = DOMAIN moved
    BY DEF Inherits
  <2> QED
    BY <2>1, <2>2
<1>2. UNCHANGED <<row, ours>> \/ (row' = new /\ Drops(gone))
  BY <1>0
<1> HIDE DEF new, gone
<1>3. CASE row' = new /\ Drops(gone)
  BY <1>1, <1>3, DropsKeepsAnchored DEF Ids
<1> QED
  BY <1>2, <1>3, OursStay

LEMMA CommitsRemoveKeepsAnchored ==
    ASSUME Anchored, NEW f, CommitsRemove(f)
    PROVE  Anchored'
<1> DEFINE gone == Doomed({f.id})
<1>1. pending' = pending \ gone /\ buffer' = buffer \ {f.id} /\ Ids' = Ids \ gone
  BY DEF CommitsRemove, Restricted, Ids
<1>2. f.id \in gone
  BY BelowHasThem DEF CommitsRemove, Gone, Doomed
<1> HIDE DEF gone
<1> QED
  BY <1>1, <1>2 DEF Anchored

LEMMA AppliesKeepsAnchored ==
    ASSUME Anchored, NEW s \in Slots, Applies(s)
    PROVE  Anchored'
<1> DEFINE l == lst[s]
           d == l.dir
           E == l.entries
           safe == l.touched
           flipped == Doomed(Flipped(d, E, safe))
           gone == Doomed(Vanished(d, E, safe))
           rows(number) == Reconciled(d, l.path, E, safe, number)
<1>1. \/ UNCHANGED <<row, ours>>
      \/ /\ Drops(gone \cup flipped)
         /\ \E number : row' = [k \in DOMAIN rows(number) \ gone |-> rows(number)[k]]
  BY DEF Applies
<1>2. \A number : Ids \ flipped \subseteq DOMAIN rows(number)
  BY DEF Reconciled
<1> HIDE DEF rows, gone, flipped
<1>3. CASE /\ Drops(gone \cup flipped)
           /\ \E number : row' = [k \in DOMAIN rows(number) \ gone |-> rows(number)[k]]
  <2>1. Ids \ (gone \cup flipped) \subseteq Ids'
    BY <1>2, <1>3 DEF Ids
  <2> QED
    BY <1>3, <2>1, DropsKeepsAnchored
<1> QED
  BY <1>1, <1>3, OursStay

\* What is owed outlasts the restart, with its row and its buffer.
LEMMA StartsAnchored ==
    ASSUME Anchored, NEW r, NEW owed \in SUBSET pending, owed \subseteq DOMAIN r, Starts(r, owed)
    PROVE  Anchored' /\ pending' = owed
<1> DEFINE dead == NeverUploaded(r, owed)
<1>1. /\ DOMAIN row' = DOMAIN r \ dead /\ pending' = owed \ dead /\ buffer' = buffer \cap pending'
  BY DEF Starts
<1>2. dead \cap owed = {}
  BY DEF NeverUploaded
<1> HIDE DEF dead
<1> QED
  BY <1>1, <1>2 DEF Anchored, Ids

LEMMA ClearsCacheKeepsAnchored ==
    ASSUME Anchored, NEW d, ClearsCache(d)
    PROVE  Anchored'
<1> DEFINE gone == Doomed(Kids(d))
           r == [Restricted(Ids \ gone) EXCEPT ![d].loaded = FALSE]
<1>1. Starts(r, pending \ gone)
  BY DEF ClearsCache
<1>2. DOMAIN r = Ids \ gone
  BY DEF Restricted
<1> HIDE DEF gone, r
<1>3. pending \ gone \in SUBSET pending /\ pending \ gone \subseteq DOMAIN r
  BY <1>2 DEF Anchored
<1> QED
  BY <1>1, <1>3, StartsAnchored

\* Everything else leaves rows and buffers alone.
Aside ==
    \/ \E p \in Paths : SomebodyDeletes(p) \/ \E dir \in BOOLEAN : SomebodyPuts(p, dir)
    \/ \E i \in 1..MaxId : \/ BeginsToRemove(i)
                          \/ \E n \in Names, to \in 1..MaxId : BeginsToMove(i, to, n)
                          \/ \E s \in Slots : Asks(s, i)
    \/ \E f \in flow : AsksTheServer(f) \/ NeedsNoServer(f) \/ IsGone(f)
    \/ \E s \in Slots : Answers(s)

LEMMA AsideIs ==
    ASSUME Aside
    PROVE  UNCHANGED <<row, ours>>
<1>1. CASE \E p \in Paths : SomebodyDeletes(p) \/ \E dir \in BOOLEAN : SomebodyPuts(p, dir)
  BY <1>1 DEF SomebodyDeletes, SomebodyPuts
<1>2. CASE \E i \in 1..MaxId :
               BeginsToRemove(i) \/ \E n \in Names, to \in 1..MaxId : BeginsToMove(i, to, n)
  BY <1>2 DEF BeginsToRemove, BeginsToMove, BeginsFlow
<1>3. CASE \E f \in flow : AsksTheServer(f) \/ NeedsNoServer(f) \/ IsGone(f)
  BY <1>3 DEF AsksTheServer, NeedsNoServer, IsGone
<1>4. CASE \E s \in Slots : Answers(s) \/ \E i \in 1..MaxId : Asks(s, i)
  BY <1>4 DEF Answers, Asks
<1> QED
  BY <1>1, <1>2, <1>3, <1>4 DEF Aside

LEMMA NextIs ==
    ASSUME TreeNext
    PROVE  \/ Aside \/ Restart
           \/ \E i \in 1..MaxId : \/ \E n \in Names : Creates(i, n)
                                 \/ Edits(i) \/ Saves(i) \/ UploadsFile(i) \/ Collides(i)
                                 \/ ClearsCache(i)
           \/ \E f \in flow : CommitsMove(f) \/ CommitsRemove(f)
           \/ \E s \in Slots : Applies(s)
  BY DEF TreeNext, Aside

LEMMA AnchoredIsInductive ==
    ASSUME Anchored, [TreeNext]_tvars
    PROVE  Anchored'
<1>1. CASE UNCHANGED tvars
  BY <1>1, OursStay DEF tvars
<1>2. CASE TreeNext
  <2>1. CASE Restart
    BY <2>1, StartsAnchored DEF Restart, Anchored, Ids
  <2>2. ASSUME NEW i \in 1..MaxId, ClearsCache(i) PROVE Anchored'
    BY <2>2, ClearsCacheKeepsAnchored
  <2>3. ASSUME NEW f \in flow, CommitsMove(f) \/ CommitsRemove(f) PROVE Anchored'
    BY <2>3, CommitsMoveKeepsAnchored, CommitsRemoveKeepsAnchored
  <2>4. CASE Aside
    BY <2>4, AsideIs, OursStay
  <2> QED
    BY <1>2, <2>1, <2>2, <2>3, <2>4, NextIs, AppliesKeepsAnchored, FilesKeepAnchored
<1> QED
  BY <1>1, <1>2

\* What is owed is never left without its row or its buffer (state.rs pending_uploads,
\* delete_subtree, remove_unmaterialized_files): whatever renames, removes, lists,
\* clears or restarts, the record goes with the row.
THEOREM WhatIsOwedCanBeUploaded == TreeSpec => []Anchored
<1>1. TreeInit => Anchored
  BY DEF TreeInit, Anchored
<1>2. Anchored /\ [TreeNext]_tvars => Anchored'
  BY AnchoredIsInductive
<1> QED
  BY <1>1, <1>2, PTL DEF TreeSpec

-----------------------------------------------------------------------------
(* Tree: every row has its place.                                          *)

\* Listings are applied, and objects moved, to where the directory still is: what
\* the peril "stale place" says.
AllInPlace == "stale place" \notin Perils

\* Only directories have been listed.
IsRow(r) == /\ r = [parent |-> r.parent, name |-> r.name, path |-> r.path, dir |-> r.dir,
                    fid |-> r.fid, etag |-> r.etag, loaded |-> r.loaded]
            /\ r.loaded => r.dir
IsFlow(f) == f = [op |-> f.op, id |-> f.id, from |-> f.from, to |-> f.to, name |-> f.name,
                  at |-> f.at]

\* The rows are rows, and the root is one.
Formed == /\ Ids \subseteq 1..MaxId /\ Top \in Ids /\ row[Top].dir
          /\ \A i \in Ids : IsRow(row[i])
\* Rows are below directories only, so the sweep of files takes nothing else.
Parents == \A i \in Ids \ {Top} : row[i].parent \in Ids /\ row[row[i].parent].dir
\* Nobody moves or removes the root.
Movable == \A f \in flow : f.id # Top /\ IsFlow(f)

Placed == Formed /\ Parents /\ EveryRowIsReached /\ PathsAreSpelled
TInv   == Placed /\ Movable

(* What is below.                                                          *)

LEMMA BelowIsClosed ==
    ASSUME NEW S
    PROVE  /\ Below(S) \subseteq Ids /\ S \cap Ids \subseteq Below(S)
           /\ WithItsKids(Below(S))
BY DEF Below, WithItsKids

LEMMA BelowIsLeast ==
    ASSUME NEW S, NEW C \in SUBSET Ids, S \cap Ids \subseteq C, WithItsKids(C)
    PROVE  Below(S) \subseteq C
BY DEF Below

\* What is below S is in it, or the child of what is.
LEMMA BelowHasAParent ==
    ASSUME NEW S, NEW j \in Below(S), j \notin S
    PROVE  j # Top /\ row[j].parent \in Below(S)
<1> SUFFICES ASSUME j = Top \/ row[j].parent \notin Below(S) PROVE FALSE
  OBVIOUS
<1> DEFINE C == Below(S) \ {j}
<1>1. C \in SUBSET Ids /\ S \cap Ids \subseteq C
  BY BelowIsClosed
<1>2. WithItsKids(C)
  <2> SUFFICES ASSUME NEW k \in Ids \ {Top}, row[k].parent \in C PROVE k \in C
    BY DEF WithItsKids
  <2>1. k \in Below(S)
    BY BelowIsClosed DEF WithItsKids
  <2> QED
    BY <2>1
<1> QED
  BY <1>1, <1>2, BelowIsLeast

LEMMA TopIsAbove ==
    ASSUME NEW S, Top \notin S
    PROVE  Top \notin Below(S)
BY BelowHasAParent

\* There is no circle: a directory is not below what is in it.
LEMMA NotBelowItsKids ==
    ASSUME EveryRowIsReached, Top \in Ids, NEW p, NEW S \in SUBSET Kids(p)
    PROVE  p \notin Below(S)
<1> SUFFICES ASSUME p \in Below(S) PROVE FALSE
  OBVIOUS
<1> DEFINE C == Ids \ Below(S)
<1>1. Top \in C
  BY TopIsAbove DEF Kids
<1>2. WithItsKids(C)
  <2> SUFFICES ASSUME NEW k \in Ids \ {Top}, row[k].parent \in C, k \in Below(S) PROVE FALSE
    BY DEF WithItsKids
  <2>1. CASE k \in S
    BY <2>1 DEF Kids
  <2>2. CASE k \notin S
    BY <2>2, BelowHasAParent
  <2> QED
    BY <2>1, <2>2
<1>3. Below({Top}) \subseteq C
  BY <1>1, <1>2, BelowIsLeast
<1> QED
  BY <1>3, BelowIsClosed DEF EveryRowIsReached

\* G goes, with all that is below it, and N comes.
Exchanged(G, N) ==
    /\ G \subseteq Ids /\ Top \notin G /\ WithItsKids(G)
    /\ N \subseteq 1..MaxId /\ N \cap (Ids \ G) = {} /\ Ids' = (Ids \ G) \cup N
\* Nothing but m moves, and m to where it is not below itself.
Reparented(G, N, m) ==
    /\ \A k \in Ids \ (G \cup {Top, m}) : row'[k].parent = row[k].parent
    /\ m \in Ids \ (G \cup {Top}) => row'[m].parent \in Ids \ (G \cup Below({m}))
    /\ \A k \in N : row'[k].parent \in Ids \ G

LEMMA StillReached ==
    ASSUME Formed, EveryRowIsReached, NEW G, NEW N, Exchanged(G, N), NEW m, Reparented(G, N, m)
    PROVE  EveryRowIsReached'
<1> USE DEF Exchanged, Reparented
<1>1. \A C \in SUBSET Ids' : Top \in C /\ WithItsKids(C)' => Ids' \subseteq C
  <2> SUFFICES ASSUME NEW C \in SUBSET Ids', Top \in C, WithItsKids(C)' PROVE Ids' \subseteq C
    OBVIOUS
  <2>1. \A k \in Ids' \ {Top} : row'[k].parent \in C => k \in C
    BY DEF WithItsKids, Ids
  \* As long as the moved row is not known to be reached, all that is below it is left out.
  <2>2. ASSUME m \in Ids \ (G \cup {Top}) PROVE m \in C
    <3> DEFINE D == (C \cap Ids) \cup G \cup Below({m})
    <3>1. D \in SUBSET Ids /\ {Top} \cap Ids \subseteq D
      BY BelowIsClosed DEF Formed
    <3>2. WithItsKids(D)
      <4> SUFFICES ASSUME NEW k \in Ids \ {Top}, row[k].parent \in D, k \notin D PROVE FALSE
        BY DEF WithItsKids
      <4>1. k # m
        BY <2>2, BelowIsClosed
      <4>2. row[k].parent \notin G /\ row[k].parent \notin Below({m})
        BY BelowIsClosed DEF WithItsKids
      <4>3. row'[k].parent = row[k].parent
        BY <4>1
      <4> QED
        BY <2>1, <4>2, <4>3
    <3>3. Ids \subseteq D
      BY <3>1, <3>2, BelowIsLeast DEF EveryRowIsReached
    <3>4. row'[m].parent \in C
      BY <2>2, <3>3
    <3> QED
      BY <2>1, <2>2, <3>4
  <2>3. Ids \ G \subseteq C
    <3> DEFINE D == (C \cap Ids) \cup G
    <3>1. D \in SUBSET Ids /\ {Top} \cap Ids \subseteq D
      OBVIOUS
    <3>2. WithItsKids(D)
      <4> SUFFICES ASSUME NEW k \in Ids \ {Top}, row[k].parent \in D, k \notin D PROVE FALSE
        BY DEF WithItsKids
      <4>1. k # m
        BY <2>2
      <4>2. row[k].parent \in C
        BY DEF WithItsKids
      <4>3. row'[k].parent = row[k].parent
        BY <4>1
      <4> QED
        BY <2>1, <4>2, <4>3
    <3>3. Ids \subseteq D
      BY <3>1, <3>2, BelowIsLeast DEF EveryRowIsReached
    <3> QED
      BY <3>3
  <2> QED
    BY <2>1, <2>3
<1>2. Below({Top})' = {k \in Ids' : \A C \in SUBSET Ids' :
                          {Top} \cap Ids' \subseteq C /\ WithItsKids(C)' => k \in C}
  BY DEF Below
<1>3. Top \in Ids'
  BY DEF Formed
<1> QED
  BY <1>1, <1>2, <1>3 DEF EveryRowIsReached

\* SQLite has a highest id to start from.
LEMMA HighestIs ==
    ASSUME NEW S \in SUBSET (1..MaxId), S # {}
    PROVE  \E i \in S : \A k \in S : k <= i
<1> DEFINE T == {MaxId - k : k \in S}
<1>1. MaxId \in Nat
  BY TreeAssumption
<1>2. T \subseteq Nat /\ T # {}
  <2>1. ASSUME NEW k \in S PROVE MaxId - k \in Nat
    <3>1. k \in 1..MaxId
      OBVIOUS
    <3> QED
      BY <1>1, <3>1
  <2> QED
    BY <2>1
<1> DEFINE R == OpToRel(<, Nat)
<1>6. IsWellFoundedOn(R, Nat)
  BY NatLessThanWellFounded
<1>7. \A y, x \in Nat : y < x => <<y, x>> \in R
  BY DEF OpToRel
<1> HIDE DEF R, T
<1>3. PICK x \in T : \A y \in T : ~(<<y, x>> \in R)
  BY <1>2, <1>6, WFMin
<1>4. PICK i \in S : x = MaxId - i
  BY <1>3 DEF T
<1>5. ASSUME NEW k \in S PROVE k <= i
  <2>1. MaxId - k \in T
    BY DEF T
  <2>2. ~(MaxId - k < MaxId - i)
    BY <1>2, <1>3, <1>4, <1>7, <2>1
  <2> QED
    BY <1>1, <2>2
<1> QED
  BY <1>5

(* Rows go, and rows come: all steps but a move.                           *)

\* r is a row in the place of the row k.
SamePlace(k, r) == /\ IsRow(r) /\ r.parent = row[k].parent /\ r.name = row[k].name
                   /\ r.path = row[k].path /\ r.dir = row[k].dir
\* r is a new row, in a directory that stays.
NewPlace(G, r) == /\ IsRow(r) /\ r.parent \in Ids \ G /\ row[r.parent].dir
                  /\ r.path = Append(row[r.parent].path, r.name)
PlacesKept(G, N) == /\ \A k \in Ids \ G : SamePlace(k, row'[k])
                    /\ \A k \in N : NewPlace(G, row'[k])

LEMMA RowsComeAndGo ==
    ASSUME Placed, NEW G, NEW N, Exchanged(G, N), PlacesKept(G, N)
    PROVE  Placed'
<1> USE DEF PlacesKept, SamePlace, NewPlace
<1>0. /\ G \subseteq Ids /\ Top \notin G /\ WithItsKids(G)
      /\ N \subseteq 1..MaxId /\ N \cap (Ids \ G) = {} /\ Ids' = (Ids \ G) \cup N
  BY DEF Exchanged
<1>1. Top \in Ids \ G /\ Top \notin N
  BY <1>0 DEF Placed, Formed
<1>2. Formed'
  BY <1>0, <1>1 DEF Placed, Formed, Ids
<1>3. \A k \in Ids \ (G \cup {Top}) : row[k].parent \in Ids \ G
  BY <1>0 DEF Placed, Parents, WithItsKids
<1>4. Parents'
  <2> SUFFICES ASSUME NEW k \in Ids', k # Top PROVE row'[k].parent \in Ids' /\ row'[row'[k].parent].dir
    BY DEF Parents, Ids
  <2>1. CASE k \in N
    BY <1>0, <2>1
  <2>2. CASE k \in Ids \ G
    BY <1>0, <2>2, <1>3 DEF Placed, Parents
  <2> QED
    BY <1>0, <2>1, <2>2
<1>5. EveryRowIsReached'
  <2>1. Formed /\ EveryRowIsReached
    BY DEF Placed
  <2>2. Reparented(G, N, Top)
    BY DEF Reparented
  <2> QED
    BY <2>1, <2>2, StillReached
<1>6. PathsAreSpelled'
  <2> SUFFICES ASSUME NEW k \in Ids', k # Top
               PROVE  row'[k].path = Append(row'[row'[k].parent].path, row'[k].name)
    BY DEF PathsAreSpelled, Ids
  <2>1. CASE k \in N
    BY <1>0, <2>1
  <2>2. CASE k \in Ids \ G
    <3>1. row[k].path = Append(row[row[k].parent].path, row[k].name)
      BY <2>2, <1>3 DEF Placed, PathsAreSpelled
    <3> QED
      BY <2>2, <3>1, <1>3
  <2> QED
    BY <1>0, <2>1, <2>2
<1> QED
  BY <1>2, <1>4, <1>5, <1>6 DEF Placed

\* What is in a row besides its place may change.
LEMMA PlacesStay ==
    ASSUME Placed, Ids' = Ids, \A k \in Ids : SamePlace(k, row'[k])
    PROVE  Placed'
<1>1. Exchanged({}, {}) /\ PlacesKept({}, {})
  BY DEF Exchanged, PlacesKept, WithItsKids
<1> QED
  BY <1>1, RowsComeAndGo

LEMMA PlacesStayPut ==
    ASSUME Placed, UNCHANGED row
    PROVE  Placed'
BY PlacesStay DEF Placed, Formed, Ids, SamePlace

(* The steps.                                                              *)

LEMMA CreatesKeepsPlaces ==
    ASSUME Placed, NEW i, NEW n \in Names, Creates(i, n)
    PROVE  Placed'
<1> DEFINE new == NewRow(i, n, Append(row[i].path, n), FALSE, NoId)
<1>1. PICK h \in Ids : \A k \in Ids : k <= h
  BY HighestIs DEF Placed, Formed
<1>2. NextId \notin Ids /\ NextId \in 1..MaxId
  <2>1. h \in 1..MaxId /\ \A k \in Ids : k \in 1..MaxId
    BY DEF Placed, Formed
  <2>2. \A k \in Ids : (\A j \in Ids : j <= k) => k = h
    BY <1>1, <2>1
  <2>3. NextId = 1 + h
    BY <1>1, <2>2 DEF NextId
  <2>4. NextId <= MaxId
    BY DEF Creates
  <2> QED
    BY <1>1, <2>1, <2>3, <2>4, TreeAssumption
<1>3. row' = With(row, NextId, new) /\ i \in Ids
  BY DEF Creates
<1> HIDE DEF new
<1>4. Ids' = Ids \cup {NextId} /\ row'[NextId] = new /\ \A k \in Ids : row'[k] = row[k]
  BY <1>2, <1>3 DEF With, Ids
<1>5. row[i].dir
  BY <1>3 DEF Creates, Placed, Formed, IsRow
<1>6. IsRow(new) /\ new.parent = i /\ new.path = Append(row[i].path, new.name)
  BY DEF new, NewRow, IsRow
<1>7. Exchanged({}, {NextId})
  BY <1>2, <1>4 DEF Exchanged, WithItsKids
<1>8. PlacesKept({}, {NextId})
  BY <1>3, <1>4, <1>5, <1>6 DEF PlacesKept, SamePlace, NewPlace, Placed, Formed
<1> QED
  BY <1>7, <1>8, RowsComeAndGo

LEMMA EtagKeepsPlaces ==
    ASSUME Placed, NEW i, UploadsFile(i) \/ Collides(i)
    PROVE  Placed'
<1>1. PICK v : row' = [row EXCEPT ![i].etag = v]
  BY DEF UploadsFile, Collides
<1>2. Ids' = Ids
  BY <1>1 DEF Ids
<1>3. ASSUME NEW k \in Ids PROVE SamePlace(k, row'[k])
  <2>1. row'[k] = IF k = i THEN [row[k] EXCEPT !.etag = v] ELSE row[k]
    BY <1>1 DEF Ids
  <2>2. IsRow(row[k])
    BY DEF Placed, Formed
  <2> QED
    BY <2>1, <2>2 DEF IsRow, SamePlace
<1> QED
  BY <1>2, <1>3, PlacesStay

\* Where G goes, and nothing else happens to a place.
LEMMA OthersStay ==
    ASSUME Placed, NEW G \in SUBSET Ids, Top \notin G, WithItsKids(G), NEW r,
           row' = [k \in Ids \ G |-> r[k]], \A k \in Ids \ G : SamePlace(k, r[k])
    PROVE  Placed'
<1>1. Ids' = Ids \ G /\ \A k \in Ids \ G : row'[k] = r[k]
  BY DEF Ids
<1>2. Exchanged(G, {}) /\ PlacesKept(G, {})
  BY <1>1 DEF Exchanged, PlacesKept
<1> QED
  BY <1>2, RowsComeAndGo

LEMMA CommitsRemoveKeepsPlaces ==
    ASSUME Placed, NEW f, f.id # Top, CommitsRemove(f)
    PROVE  Placed'
<1> DEFINE G == Below({f.id})
<1>1. row' = [k \in Ids \ G |-> row[k]]
  BY DEF CommitsRemove, Restricted, Doomed
<1>2. G \in SUBSET Ids /\ Top \notin G /\ WithItsKids(G)
  BY BelowIsClosed, TopIsAbove
<1> HIDE DEF G
<1> QED
  BY <1>1, <1>2, OthersStay DEF Placed, Formed, SamePlace

\* The sweep of files at the start, on rows of which G has gone.
LEMMA StartsKeepsPlaces ==
    ASSUME Placed, NEW G \in SUBSET Ids, Top \notin G, WithItsKids(G), NEW r, NEW owed,
           DOMAIN r = Ids \ G, Starts(r, owed), \A k \in Ids \ G : SamePlace(k, r[k])
    PROVE  Placed'
<1> DEFINE dead == NeverUploaded(r, owed)
<1>1. row' = [k \in (Ids \ G) \ dead |-> r[k]]
  BY DEF Starts
<1>2. dead \subseteq Ids \ (G \cup {Top}) /\ \A k \in dead : ~row[k].dir
  BY DEF NeverUploaded, NeverUploadedAtAll, SamePlace
<1> HIDE DEF dead
<1>3. G \cup dead \in SUBSET Ids /\ Top \notin G \cup dead
  BY <1>2
<1>4. WithItsKids(G \cup dead)
  BY <1>2 DEF WithItsKids, Placed, Parents
<1>5. (Ids \ G) \ dead = Ids \ (G \cup dead)
  OBVIOUS
<1> QED
  BY <1>1, <1>3, <1>4, <1>5, OthersStay

LEMMA RestartKeepsPlaces ==
    ASSUME Placed, Restart
    PROVE  Placed'
<1>1. {} \in SUBSET Ids /\ Top \notin {} /\ WithItsKids({}) /\ DOMAIN row = Ids \ {}
  BY DEF WithItsKids, Ids
<1>2. Starts(row, pending)
  BY DEF Restart
<1> QED
  BY <1>1, <1>2, StartsKeepsPlaces DEF Placed, Formed, SamePlace

LEMMA ClearsCacheKeepsPlaces ==
    ASSUME Placed, NEW d, ClearsCache(d)
    PROVE  Placed'
<1> DEFINE G == Below(Kids(d))
           r == [Restricted(Ids \ G) EXCEPT ![d].loaded = FALSE]
<1>1. PICK owed : Starts(r, owed)
  BY DEF ClearsCache, Doomed
<1>2. G \in SUBSET Ids /\ Top \notin G /\ WithItsKids(G)
  BY BelowIsClosed, TopIsAbove DEF Kids
<1>3. DOMAIN r = Ids \ G
  BY DEF Restricted
<1>4. \A k \in Ids \ G : r[k] = IF k = d THEN [row[k] EXCEPT !.loaded = FALSE] ELSE row[k]
  BY DEF Restricted
<1> HIDE DEF G, r
<1>5. ASSUME NEW k \in Ids \ G PROVE SamePlace(k, r[k])
  <2>1. IsRow(row[k])
    BY DEF Placed, Formed
  <2> QED
    BY <1>4, <2>1 DEF IsRow, SamePlace
<1> QED
  BY <1>1, <1>2, <1>3, <1>5, StartsKeepsPlaces

\* A directory that is moved into a directory takes along what is below it.
LEMMA CommitsMoveKeepsPlaces ==
    ASSUME AllInPlace, Placed, NEW f, f.id # Top, CommitsMove(f)
    PROVE  Placed'
<1>1. PICK path \in Respelled(f.id, Destination(f)) :
         LET old  == ChildNamed(f.to, f.name) \ {f.id}
             gone == Doomed(old)
             new  == Inherits(f, MovedRows(f, gone, path), old)
         IN  /\ f.id \notin gone /\ row[f.to].dir
             /\ \/ UNCHANGED row
                \/ ~Descends(f.to, f.id) /\ row' = new
  BY DEF CommitsMove, AllInPlace
<1> DEFINE old   == ChildNamed(f.to, f.name) \ {f.id}
           G     == Below(old)
           B     == Below({f.id})
           moved == MovedRows(f, G, path)
           new   == Inherits(f, moved, old)
<1>2. CASE UNCHANGED row
  BY <1>2, PlacesStayPut
<1>3. CASE ~UNCHANGED row
  <2>1. f.id \notin G /\ row[f.to].dir /\ f.to \notin B /\ row' = new
    BY <1>1, <1>3 DEF Doomed, Descends
  <2>2. f.id \in Ids \ {Top} /\ f.to \in Ids
    BY DEF CommitsMove, Gone
  <2>3. old \in SUBSET Kids(f.to)
    BY DEF ChildNamed
  <2>4. G \in SUBSET Ids /\ WithItsKids(G) /\ Top \notin G
    BY <2>3, BelowIsClosed, TopIsAbove DEF Kids
  <2>5. f.to \notin G
    BY <2>3, NotBelowItsKids DEF Placed, Formed
  <2>6. B \in SUBSET Ids /\ WithItsKids(B) /\ Top \notin B /\ f.id \in B
    BY <2>2, BelowIsClosed, TopIsAbove
  <2>7. /\ DOMAIN path = B /\ path[f.id] = Append(row[f.to].path, f.name)
        /\ \A k \in B \ {f.id} : path[k] = Append(path[row[k].parent], row[k].name)
    BY DEF Respelled, Destination
  <2>8. \A k \in B \ {f.id} : row[k].parent \in B
    BY BelowHasAParent
  <2>9. DOMAIN moved = Ids \ G
    BY DEF MovedRows
  <2>10. \A k \in Ids \ G : moved[k] =
            IF k = f.id THEN [row[k] EXCEPT !.parent = f.to, !.name = f.name, !.path = path[k]]
            ELSE IF k \in B THEN [row[k] EXCEPT !.path = path[k]] ELSE row[k]
    BY <2>7 DEF MovedRows
  <2> HIDE DEF moved, old, G, B
  <2>11. /\ Ids' = Ids \ G
         /\ \A k \in Ids \ G : \/ row'[k] = moved[k]
                               \/ \E v, w : row'[k] = [moved[k] EXCEPT !.fid = v, !.etag = w]
    <3>1. CASE new = moved
      BY <2>1, <2>9, <3>1 DEF Ids
    <3>2. CASE \E v, w : new = [moved EXCEPT ![f.id].fid = v, ![f.id].etag = w]
      <4>1. PICK v, w : new = [moved EXCEPT ![f.id].fid = v, ![f.id].etag = w]
        BY <3>2
      <4> HIDE DEF new
      <4>2. DOMAIN new = Ids \ G
        BY <2>9, <4>1
      <4>3. \A k \in Ids \ G : new[k] = IF k = f.id THEN [moved[k] EXCEPT !.fid = v, !.etag = w]
                                        ELSE moved[k]
        BY <2>9, <4>1
      <4> QED
        BY <2>1, <4>2, <4>3 DEF Ids
    <3>3. new = moved \/ \E v, w : new = [moved EXCEPT ![f.id].fid = v, ![f.id].etag = w]
      BY DEF Inherits
    <3> QED
      BY <3>1, <3>2, <3>3
  <2>12. ASSUME NEW k \in Ids \ G
         PROVE  /\ IsRow(row'[k]) /\ row'[k].dir = row[k].dir
                /\ row'[k].parent = IF k = f.id THEN f.to ELSE row[k].parent
                /\ row'[k].name = IF k = f.id THEN f.name ELSE row[k].name
                /\ row'[k].path = IF k \in B THEN path[k] ELSE row[k].path
    <3>1. IsRow(row[k])
      BY DEF Placed, Formed
    <3>2. /\ IsRow(moved[k]) /\ moved[k].dir = row[k].dir
          /\ moved[k].parent = IF k = f.id THEN f.to ELSE row[k].parent
          /\ moved[k].name = IF k = f.id THEN f.name ELSE row[k].name
          /\ moved[k].path = IF k \in B THEN path[k] ELSE row[k].path
      <4>1. CASE k = f.id
        <5>1. moved[k] = [row[k] EXCEPT !.parent = f.to, !.name = f.name, !.path = path[k]] /\ k \in B
          BY <2>6, <2>10, <4>1
        <5>2. /\ IsRow(moved[k]) /\ moved[k].dir = row[k].dir /\ moved[k].parent = f.to
              /\ moved[k].name = f.name /\ moved[k].path = path[k]
          BY <3>1, <5>1 DEF IsRow
        <5> QED
          BY <4>1, <5>1, <5>2
      <4>2. CASE k # f.id /\ k \in B
        <5>1. moved[k] = [row[k] EXCEPT !.path = path[k]]
          BY <2>10, <4>2
        <5> QED
          BY <3>1, <4>2, <5>1 DEF IsRow
      <4>3. CASE k # f.id /\ k \notin B
        BY <2>10, <3>1, <4>3 DEF IsRow
      <4> QED
        BY <2>6, <4>1, <4>2, <4>3
    <3>3. CASE row'[k] = moved[k]
      BY <3>2, <3>3
    <3>4. CASE \E v, w : row'[k] = [moved[k] EXCEPT !.fid = v, !.etag = w]
      BY <3>2, <3>4 DEF IsRow
    <3> QED
      BY <2>11, <3>3, <3>4
  <2> HIDE DEF new
  <2>13. \A k \in Ids \ (G \cup {Top}) : row[k].parent \in Ids \ G
    BY <2>4 DEF Placed, Parents, WithItsKids
  <2>14. Formed'
    <3>1. Top \in Ids' /\ Ids' \subseteq 1..MaxId
      BY <2>4, <2>11 DEF Placed, Formed
    <3> QED
      BY <2>4, <2>11, <2>12, <3>1 DEF Placed, Formed, Ids
  <2>15. Parents'
    <3> SUFFICES ASSUME NEW k \in Ids \ G, k # Top
                 PROVE  row'[k].parent \in Ids \ G /\ row'[row'[k].parent].dir
      BY <2>11 DEF Parents, Ids
    <3>1. CASE k = f.id
      BY <2>1, <2>2, <2>5, <2>12, <3>1
    <3>2. CASE k # f.id
      BY <2>12, <2>13, <3>2 DEF Placed, Parents
    <3> QED
      BY <3>1, <3>2
  <2>16. EveryRowIsReached'
    <3>1. Exchanged(G, {})
      BY <2>4, <2>11 DEF Exchanged
    <3>2. \A k \in Ids \ (G \cup {Top, f.id}) : row'[k].parent = row[k].parent
      BY <2>12
    <3>3. row'[f.id].parent \in Ids \ (G \cup Below({f.id}))
      BY <2>1, <2>2, <2>5, <2>12 DEF B
    <3>4. Reparented(G, {}, f.id)
      BY <3>2, <3>3 DEF Reparented
    <3> QED
      BY <3>1, <3>4, StillReached DEF Placed
  <2>17. PathsAreSpelled'
    <3> SUFFICES ASSUME NEW k \in Ids \ G, k # Top
                 PROVE  row'[k].path = Append(row'[row'[k].parent].path, row'[k].name)
      BY <2>11 DEF PathsAreSpelled, Ids
    <3>1. CASE k = f.id
      <4>1. row'[k].path = Append(row[f.to].path, f.name)
        BY <2>6, <2>7, <2>12, <3>1
      <4>2. row'[k].parent = f.to /\ row'[k].name = f.name
        BY <2>12, <3>1
      <4>3. row'[f.to].path = row[f.to].path
        BY <2>1, <2>2, <2>5, <2>12
      <4> QED
        BY <4>1, <4>2, <4>3
    <3>2. CASE k # f.id /\ k \in B
      <4> DEFINE p == row[k].parent
      <4>1. p \in B /\ p \in Ids \ G
        BY <2>8, <2>13, <3>2
      <4>2. row'[k].path = Append(path[p], row[k].name)
        BY <2>7, <2>12, <3>2
      <4>3. row'[k].parent = p /\ row'[k].name = row[k].name
        BY <2>12, <3>2
      <4>4. row'[p].path = path[p]
        BY <2>12, <4>1
      <4> QED
        BY <4>2, <4>3, <4>4
    <3>3. CASE k # f.id /\ k \notin B
      <4>1. row[k].parent \in Ids \ G /\ row[k].parent \notin B
        BY <2>6, <2>13, <3>3 DEF WithItsKids
      <4>2. row[k].path = Append(row[row[k].parent].path, row[k].name)
        BY <4>1 DEF Placed, PathsAreSpelled
      <4> QED
        BY <2>12, <3>3, <4>1, <4>2
    <3> QED
      BY <3>1, <3>2, <3>3
  <2> QED
    BY <2>14, <2>15, <2>16, <2>17 DEF Placed
<1> QED
  BY <1>2, <1>3

\* A listing, applied where its directory still is: the rows below what has changed
\* its kind or has vanished go, and new ones come, at ids no row that stays has.
LEMMA AppliesKeepsPlaces ==
    ASSUME AllInPlace, Placed, NEW s, Applies(s)
    PROVE  Placed'
<1> DEFINE d       == lst[s].dir
           E       == lst[s].entries
           safe    == lst[s].touched
           flips   == Flipped(d, E, safe)
           goes    == Vanished(d, E, safe)
           flipped == Below(flips)
           gone    == Below(goes)
           stay    == Ids \ flipped
           next    == 1 + CHOOSE i \in stay : \A k \in stay : k <= i
           new     == {e \in E : ChildNamed(d, e.name) \cap stay = {}}
           rows(number) == Reconciled(d, lst[s].path, E, safe, number)
<1>1. CASE UNCHANGED row
  BY <1>1, PlacesStayPut
<1>2. CASE ~UNCHANGED row
  <2>1. PICK number \in [new -> next..MaxId] :
           /\ d \in Ids /\ row[d].path = lst[s].path /\ row[d].dir
           /\ row' = [k \in DOMAIN rows(number) \ gone |-> rows(number)[k]]
    BY <1>2 DEF Applies, AllInPlace, Doomed
  <2> DEFINE rng == {number[e] : e \in DOMAIN number}
             R   == rows(number)
             G   == flipped \cup gone
             Met(k) == {e \in E : k \in ChildNamed(d, e.name) \ safe}
             Known(k) == IF Met(k) = {} THEN row[k]
                         ELSE LET e == CHOOSE e \in Met(k) : TRUE IN
                              [row[k] EXCEPT !.fid = e.fid, !.etag = e.fid]
             New(k) == LET e == CHOOSE e \in DOMAIN number : number[e] = k IN
                       NewRow(d, e.name, Append(lst[s].path, e.name), e.dir, e.fid)
             Found(k) == IF k \in stay THEN Known(k) ELSE New(k)
  <2>2. flips \in SUBSET Kids(d) /\ goes \in SUBSET Kids(d)
    BY DEF Flipped, Vanished, VanishedAll
  <2>3. R = [k \in stay \cup rng |->
                IF k = d THEN [Found(k) EXCEPT !.loaded = TRUE] ELSE Found(k)]
    BY DEF Reconciled, Doomed
  <2>4. /\ flipped \in SUBSET Ids /\ WithItsKids(flipped) /\ Top \notin flipped /\ d \notin flipped
        /\ gone \in SUBSET Ids /\ WithItsKids(gone) /\ Top \notin gone /\ d \notin gone
    BY <2>2, BelowIsClosed, TopIsAbove, NotBelowItsKids DEF Kids, Placed, Formed
  <2> HIDE DEF flips, goes, flipped, gone, rows, R, E, d, safe
  <2>5. G \in SUBSET Ids /\ WithItsKids(G) /\ Top \notin G /\ d \in Ids \ G
    BY <2>1, <2>4 DEF WithItsKids
  <2>6. rng \cap stay = {} /\ rng \subseteq 1..MaxId
    <3>1. stay \in SUBSET (1..MaxId) /\ stay # {}
      BY <2>1, <2>4 DEF Placed, Formed
    <3>2. PICK h \in stay : \A k \in stay : k <= h
      BY <3>1, HighestIs
    <3>3. \A k \in stay : (\A j \in stay : j <= k) => k = h
      BY <3>1, <3>2
    <3>4. next = 1 + h
      BY <3>2, <3>3
    <3>5. \A e \in DOMAIN number : number[e] \in next..MaxId
      OBVIOUS
    <3> HIDE DEF next, stay
    <3>6. \A k \in rng : k \in Int /\ 1 + h <= k /\ k <= MaxId
      BY <3>1, <3>2, <3>4, <3>5, TreeAssumption
    <3>7. h \in 1..MaxId
      BY <3>1, <3>2
    <3> QED
      BY <3>1, <3>2, <3>6, <3>7, TreeAssumption
  <2>7. /\ Ids' = (Ids \ G) \cup (rng \ gone)
        /\ \A k \in Ids' : row'[k] = IF k = d THEN [Found(k) EXCEPT !.loaded = TRUE] ELSE Found(k)
    <3> HIDE DEF Found, rng
    <3>1. row' = [k \in (stay \cup rng) \ gone |-> R[k]]
      BY <2>1, <2>3 DEF R
    <3>2. Ids' = (stay \cup rng) \ gone
      BY <3>1 DEF Ids
    <3>3. \A k \in Ids' : row'[k] = R[k]
      BY <3>1, <3>2
    <3> QED
      BY <2>3, <3>2, <3>3
  <2>8. (rng \ gone) \cap (Ids \ G) = {} /\ rng \ gone \in SUBSET (1..MaxId)
    BY <2>6
  <2>9. ASSUME NEW k \in Ids \ G PROVE SamePlace(k, row'[k])
    <3>1. row'[k] = IF k = d THEN [Known(k) EXCEPT !.loaded = TRUE] ELSE Known(k)
      BY <2>7
    <3>2. IsRow(row[k])
      BY DEF Placed, Formed
    <3>3. SamePlace(k, Known(k))
      <4>1. CASE Known(k) = row[k]
        BY <3>2, <4>1 DEF SamePlace
      <4>2. CASE \E v : Known(k) = [row[k] EXCEPT !.fid = v, !.etag = v]
        BY <3>2, <4>2 DEF IsRow, SamePlace
      <4> QED
        BY <4>1, <4>2
    <3> HIDE DEF Known
    <3>4. CASE k = d
      BY <2>1, <3>1, <3>3, <3>4 DEF IsRow, SamePlace
    <3>5. CASE k # d
      BY <3>1, <3>3, <3>5
    <3> QED
      BY <3>4, <3>5
  <2>10. ASSUME NEW k \in rng \ gone
         PROVE  NewPlace(G, row'[k])
    <3>1. k # d /\ k \notin stay
      BY <2>5, <2>6
    <3>2. row'[k] = New(k)
      BY <2>7, <3>1
    <3>3. \E n, b, x : New(k) = NewRow(d, n, Append(lst[s].path, n), b, x)
      OBVIOUS
    <3> HIDE DEF New
    <3>4. PICK n, b, x : row'[k] = NewRow(d, n, Append(lst[s].path, n), b, x)
      BY <3>2, <3>3
    <3>5. /\ IsRow(row'[k]) /\ row'[k].parent = d
          /\ row'[k].path = Append(lst[s].path, row'[k].name)
      BY <3>4 DEF NewRow, IsRow
    <3> QED
      BY <2>1, <2>5, <3>5 DEF NewPlace
  <2> HIDE DEF G, rng
  <2>11. Exchanged(G, rng \ gone) /\ PlacesKept(G, rng \ gone)
    BY <2>5, <2>7, <2>8, <2>9, <2>10 DEF Exchanged, PlacesKept
  <2> QED
    BY <2>11, RowsComeAndGo
<1> QED
  BY <1>1, <1>2

LEMMA AsideKeepsPlaces ==
    ASSUME Placed, Aside \/ \E i \in 1..MaxId : Edits(i) \/ Saves(i)
    PROVE  Placed'
<1>1. UNCHANGED row
  BY AsideIs DEF Edits, Saves
<1> QED
  BY <1>1, PlacesStayPut

LEMMA PlacedIsInductive ==
    ASSUME AllInPlace, TInv, TreeNext
    PROVE  Placed'
<1> Placed /\ Movable
  BY DEF TInv
<1>1. CASE Aside \/ \E i \in 1..MaxId : Edits(i) \/ Saves(i)
  BY <1>1, AsideKeepsPlaces
<1>2. ASSUME NEW i \in 1..MaxId, UploadsFile(i) \/ Collides(i) \/ \E n \in Names : Creates(i, n)
      PROVE  Placed'
  BY <1>2, EtagKeepsPlaces, CreatesKeepsPlaces
<1>3. ASSUME NEW f \in flow, CommitsMove(f) \/ CommitsRemove(f) PROVE Placed'
  BY <1>3, CommitsMoveKeepsPlaces, CommitsRemoveKeepsPlaces DEF Movable
<1>4. CASE Restart \/ \E d \in 1..MaxId : ClearsCache(d)
  BY <1>4, RestartKeepsPlaces, ClearsCacheKeepsPlaces
<1>5. CASE \E s \in Slots : Applies(s)
  BY <1>5, AppliesKeepsPlaces
<1> QED
  BY <1>1, <1>2, <1>3, <1>4, <1>5, NextIs

LEMMA MovableIsInductive ==
    ASSUME Movable, TreeNext
    PROVE  Movable'
<1> USE DEF Movable
<1>1. CASE flow' \subseteq flow
  BY <1>1
<1>2. ASSUME NEW i, BeginsToRemove(i) \/ \E n \in Names, to \in 1..MaxId : BeginsToMove(i, to, n)
      PROVE  Movable'
  <2>1. \E f : IsFlow(f) /\ f.id # Top /\ flow' = flow \cup {f}
    <3>1. CASE BeginsToRemove(i)
      BY <3>1 DEF BeginsToRemove, BeginsFlow, IsFlow
    <3>2. ASSUME NEW n \in Names, NEW to \in 1..MaxId, BeginsToMove(i, to, n)
          PROVE  \E f : IsFlow(f) /\ f.id # Top /\ flow' = flow \cup {f}
      BY <3>2 DEF BeginsToMove, BeginsFlow, IsFlow
    <3> QED
      BY <1>2, <3>1, <3>2
  <2> QED
    BY <2>1 DEF IsFlow
<1>3. ASSUME NEW f \in flow, Turns(f) PROVE Movable'
  <2>1. IsFlow([f EXCEPT !.at = "commit"]) /\ [f EXCEPT !.at = "commit"].id # Top
    BY DEF IsFlow
  <2> QED
    BY <1>3, <2>1 DEF Turns, IsFlow
<1>4. ASSUME NEW f \in flow,
             AsksTheServer(f) \/ NeedsNoServer(f) \/ IsGone(f) \/ CommitsMove(f) \/ CommitsRemove(f)
      PROVE  flow' \subseteq flow \/ Turns(f)
  BY <1>4 DEF AsksTheServer, NeedsNoServer, IsGone, CommitsMove, CommitsRemove, EndsFlow
<1>5. \/ flow' \subseteq flow
      \/ \E i \in 1..MaxId : BeginsToRemove(i) \/ \E n \in Names, to \in 1..MaxId : BeginsToMove(i, to, n)
      \/ \E f \in flow : \/ AsksTheServer(f) \/ NeedsNoServer(f) \/ IsGone(f)
                         \/ CommitsMove(f) \/ CommitsRemove(f)
  <2>1. ASSUME NEW i \in 1..MaxId,
               \/ Edits(i) \/ Saves(i) \/ UploadsFile(i) \/ Collides(i) \/ ClearsCache(i)
               \/ (\E n \in Names : Creates(i, n)) \/ \E s \in Slots : Asks(s, i)
        PROVE  flow' \subseteq flow
    BY <2>1 DEF Edits, Saves, UploadsFile, Collides, ClearsCache, Creates, Asks, Starts
  <2>2. ASSUME \/ \E p \in Paths : SomebodyDeletes(p) \/ \E dir \in BOOLEAN : SomebodyPuts(p, dir)
               \/ Restart \/ \E s \in Slots : Answers(s) \/ Applies(s)
        PROVE  flow' \subseteq flow
    BY <2>2 DEF SomebodyDeletes, SomebodyPuts, Restart, Starts, Answers, Applies
  <2> QED
    BY <2>1, <2>2 DEF TreeNext
<1> QED
  BY <1>1, <1>2, <1>3, <1>4, <1>5

\* Tuples of two and of three.
LEMMA TripleIs ==
    ASSUME NEW x, NEW y, NEW z
    PROVE  DOMAIN <<x, y, z>> = {1, 2, 3}
OBVIOUS

LEMMA PairIs ==
    ASSUME NEW S, NEW x \in S, NEW y \in S
    PROVE  Append(<<x>>, y) = <<x, y>>
<1> DEFINE A == Append(<<x>>, y)
<1>1. <<x>> \in Seq(S) /\ Len(<<x>>) = 1
  OBVIOUS
<1>2. A \in Seq(S) /\ Len(A) = 2 /\ A[1] = x /\ A[2] = y
  BY <1>1
<1>3. <<x, y>> \in Seq(S) /\ Len(<<x, y>>) = 2
  OBVIOUS
<1> HIDE DEF A
<1>4. A = <<x, y>>
  BY <1>2, <1>3
<1> QED
  BY <1>4 DEF A

LEMMA TInvAtFirst == TreeInit => TInv
<1> SUFFICES ASSUME TreeInit PROVE TInv
  OBVIOUS
<1>1. PICK n, m \in Names, dir \in BOOLEAN :
         row = <<Loaded(NewRow(Top, "", <<>>, TRUE, NoId)),
                 Loaded(NewRow(1, n, <<n>>, TRUE, 1)),
                 Loaded(NewRow(2, m, <<n, m>>, dir, 2))>>
  BY DEF TreeInit
<1>2. Ids = {1, 2, 3}
  BY <1>1, TripleIs, Zenon DEF Ids
<1>3. /\ row[1] = Loaded(NewRow(Top, "", <<>>, TRUE, NoId))
      /\ row[2] = Loaded(NewRow(1, n, <<n>>, TRUE, 1))
      /\ row[3] = Loaded(NewRow(2, m, <<n, m>>, dir, 2))
  BY <1>1
<1>4. /\ IsRow(row[1]) /\ row[1].dir /\ row[1].path = <<>>
      /\ IsRow(row[2]) /\ row[2].dir /\ row[2].parent = 1 /\ row[2].path = <<n>> /\ row[2].name = n
      /\ IsRow(row[3]) /\ row[3].parent = 2 /\ row[3].path = <<n, m>> /\ row[3].name = m
  BY <1>3 DEF Loaded, NewRow, IsRow
<1>5. Formed
  BY <1>2, <1>4, TreeAssumption DEF Formed, Top
<1>6. Parents
  BY <1>2, <1>4 DEF Parents, Top
<1>7. PathsAreSpelled
  <2>1. <<>> \in Seq(Names) /\ <<n>> \in Seq(Names)
    OBVIOUS
  <2>2. Append(<<>>, n) = <<n>>
    BY <2>1
  <2>3. Append(<<n>>, m) = <<n, m>>
    BY PairIs
  <2>4. ASSUME NEW i \in {2, 3} PROVE row[i].path = Append(row[row[i].parent].path, row[i].name)
    <3>1. CASE i = 2
      BY <1>4, <2>2, <3>1
    <3>2. CASE i = 3
      BY <1>4, <2>3, <3>2
    <3> QED
      BY <3>1, <3>2
  <2> QED
    BY <1>2, <2>4 DEF PathsAreSpelled, Top
<1>8. EveryRowIsReached
  <2>1. ASSUME NEW C \in SUBSET Ids, Top \in C, WithItsKids(C) PROVE Ids \subseteq C
    <3>1. 2 \in C
      BY <1>2, <1>4, <2>1 DEF WithItsKids, Top
    <3>2. 3 \in C
      BY <1>2, <1>4, <2>1, <3>1 DEF WithItsKids, Top
    <3> QED
      BY <1>2, <2>1, <3>1, <3>2 DEF Top
  <2>2. Top \in Ids
    BY <1>2 DEF Top
  <2> QED
    BY <2>1, <2>2 DEF EveryRowIsReached, Below
<1>9. Movable
  BY DEF TreeInit, Movable
<1> QED
  BY <1>5, <1>6, <1>7, <1>8, <1>9 DEF TInv, Placed

LEMMA TInvHolds ==
    ASSUME AllInPlace
    PROVE  TreeSpec => []TInv
<1>1. TInv /\ [TreeNext]_tvars => TInv'
  <2> SUFFICES ASSUME TInv, [TreeNext]_tvars PROVE TInv'
    OBVIOUS
  <2>1. CASE TreeNext
    BY <2>1, PlacedIsInductive, MovableIsInductive DEF TInv
  <2>2. CASE UNCHANGED tvars
    BY <2>2, PlacesStayPut DEF TInv, tvars, Movable, IsFlow
  <2> QED
    BY <2>1, <2>2
<1> QED
  BY <1>1, TInvAtFirst, PTL DEF TreeSpec

\* Every row is reached from the root (state.rs delete_subtree, move_subtree,
\* reconcile_children_except, remove_unmaterialized_files): nothing is left of a
\* directory that is gone, and no rename of one into another makes a circle.
THEOREM EveryRowHasItsPlace ==
    ASSUME AllInPlace
    PROVE  TreeSpec => []EveryRowIsReached
<1>1. TInv => EveryRowIsReached
  BY DEF TInv, Placed
<1> QED
  BY <1>1, TInvHolds, PTL

\* The path in a row, to which requests are sent, is the one its parents spell
\* (state.rs move_subtree), through renames of directories and listings that were
\* under way meanwhile.
THEOREM PathsFollowTheirParents ==
    ASSUME AllInPlace
    PROVE  TreeSpec => []PathsAreSpelled
<1>1. TInv => PathsAreSpelled
  BY DEF TInv, Placed
<1> QED
  BY <1>1, TInvHolds, PTL
=============================================================================
