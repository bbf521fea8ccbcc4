-------------------------- MODULE NeighboursProofs --------------------------
(***************************************************************************)
(* Two components, which know nothing of each other: their constants and   *)
(* variables are disjoint, so what is assumed of one says nothing of the   *)
(* other.                                                                  *)
(*                                                                         *)
(* Neighbours: whose edits the commands of one account can cost each       *)
(* other, and that no other is lost; that a live mount is found by whoever *)
(* looks for it as long as no other one came across it; and that a login   *)
(* is there whole unless it was itself killed half-way.                    *)
(*                                                                         *)
(* Substrate: that a directory which is being refreshed has one job under  *)
(* way for it, one only, and that no job is left beside a worker that      *)
(* sleeps -- without a premise, whatever fails and whenever it ends.       *)
(***************************************************************************)
EXTENDS Neighbours, Substrate, SequenceTheorems, FiniteSetTheorems, TLAPS

Stage == {"off", "starting", "wiping", "opened", "checked", "marked", "live", "ending",
          "clearing", "halfway", "forgotten", "stored", "entrusted", "over"}
Process == [role : Engines \cup Tools \cup {"none"}, at : Stage,
            place : Places \cup {NoPlace}, base : Nat, keep : SUBSET Nat]

Typed ==
    /\ proc \in [Processes -> Process]
    /\ kernel \in [Places -> Processes \cup {Nobody}]
    /\ marker \in Places \cup {NoPlace}
    /\ open \in [Processes -> SUBSET Nat]
    /\ owed \in SUBSET [edit : Nat, base : Nat]
    /\ scratch \in SUBSET Nat /\ made \in Nat /\ base \in Nat \ {0}

\* p goes on to stage x, and everybody else stays where they are.
Becomes(p, x) ==
    /\ proc'[p].at = x /\ proc'[p].role = proc[p].role /\ proc'[p].place = proc[p].place
    /\ proc' \in [Processes -> Process]
    /\ \A q \in Processes \ {p} : proc'[q] = proc[q]

LEMMA GoingOn ==
    ASSUME Typed, NEW p \in Processes, NEW x \in Stage, Goes(p, x)
    PROVE  Becomes(p, x) /\ proc'[p].keep = proc[p].keep /\ proc'[p].base = proc[p].base
<1>1. proc[p] \in Process
  BY DEF Typed
<1> DEFINE now == [proc[p] EXCEPT !.at = x]
<1>2. /\ now.at = x /\ now.role = proc[p].role /\ now.place = proc[p].place
      /\ now.keep = proc[p].keep /\ now.base = proc[p].base
      /\ now \in Process
  BY <1>1 DEF Process
<1>3. proc' = [proc EXCEPT ![p] = now]
  BY DEF Goes
<1> HIDE DEF now
<1> QED
  BY <1>1, <1>2, <1>3 DEF Typed, Becomes

\* p becomes what it is from now on.
LEMMA Turning ==
    ASSUME Typed, NEW p \in Processes, NEW now \in Process, proc' = [proc EXCEPT ![p] = now],
           now.role = proc[p].role, now.place = proc[p].place
    PROVE  Becomes(p, now.at) /\ proc'[p] = now
  BY DEF Typed, Becomes

\* What a Provider reads of its database.
Listed == {r.edit : r \in {x \in owed : x.base = base}}

LEMMA StartsUp ==
    ASSUME Typed, NEW p \in Processes
    PROVE  /\ ReadsOwed(p) => /\ Becomes(p, "wiping") /\ proc'[p].keep = Listed /\ proc'[p].base = base
                              /\ proc[p].at \in {"starting", "checked"}
                              /\ UNCHANGED <<kernel, disk, open, made, creds>>
           /\ Wipes(p) => /\ Becomes(p, "opened") /\ proc'[p].base = proc[p].base
                          /\ At(p, "wiping") /\ scratch' = scratch \cap proc[p].keep
                          /\ UNCHANGED <<kernel, marker, base, owed, open, made, creds>>
<1>1. /\ Listed \in SUBSET Nat /\ base \in Nat
      /\ proc[p] \in Process /\ "wiping" \in Stage /\ "opened" \in Stage
  BY DEF Listed, Typed, Stage
<1>2. ASSUME ReadsOwed(p)
      PROVE  /\ Becomes(p, "wiping") /\ proc'[p].keep = Listed /\ proc'[p].base = base
             /\ proc[p].at \in {"starting", "checked"} /\ UNCHANGED <<kernel, disk, open, made, creds>>
  <2> DEFINE now == [proc[p] EXCEPT !.at = "wiping", !.base = base, !.keep = Listed]
  <2>1. /\ proc' = [proc EXCEPT ![p] = now]
        /\ proc[p].at \in {"starting", "checked"} /\ UNCHANGED <<kernel, disk, open, made, creds>>
    BY <1>2 DEF ReadsOwed, Builds, At, Listed
  <2>2. /\ now \in Process /\ now.at = "wiping" /\ now.role = proc[p].role
        /\ now.place = proc[p].place /\ now.keep = Listed /\ now.base = base
    BY <1>1 DEF Process
  <2> HIDE DEF now
  <2>3. Becomes(p, now.at) /\ proc'[p] = now
    BY <2>1, <2>2, Turning
  <2> QED
    BY <2>1, <2>2, <2>3
<1>3. ASSUME Wipes(p)
      PROVE  /\ Becomes(p, "opened") /\ proc'[p].base = proc[p].base
             /\ At(p, "wiping") /\ scratch' = scratch \cap proc[p].keep
             /\ UNCHANGED <<kernel, marker, base, owed, open, made, creds>>
  <2> DEFINE now == [proc[p] EXCEPT !.at = "opened", !.keep = {}]
  <2>1. /\ proc' = [proc EXCEPT ![p] = now]
        /\ At(p, "wiping") /\ scratch' = scratch \cap proc[p].keep
        /\ UNCHANGED <<kernel, marker, base, owed, open, made, creds>>
    BY <1>3 DEF Wipes, Kept
  <2>2. /\ now \in Process /\ now.at = "opened" /\ now.role = proc[p].role
        /\ now.place = proc[p].place /\ now.base = proc[p].base
    BY <1>1 DEF Process
  <2> HIDE DEF now
  <2>3. Becomes(p, now.at) /\ proc'[p] = now
    BY <2>1, <2>2, Turning
  <2> QED
    BY <2>1, <2>2, <2>3
<1> QED
  BY <1>2, <1>3

\* Every step but a start leaves the processes where they are, or moves one on.
LEMMA EverybodyMovesOn ==
    ASSUME Typed, NEW p \in Processes,
           \/ ReadsOwed(p) \/ Wipes(p)
           \/ ChecksPlace(p) \/ Marks(p) \/ Mounts(p) \/ Unmounts(p) \/ Unmarks(p)
           \/ Serves(p) \/ StartsEngine(p) \/ Exits(p) \/ Finishes(p)
           \/ Clears(p) \/ ClearsOn(p) \/ Crash(p)
    PROVE  /\ \E x \in Stage \ {"off", "stored", "entrusted"} : Becomes(p, x)
           /\ UNCHANGED <<file, entry, logins>>
           /\ proc[p].at # "over"
           /\ cut \/ proc[p].at \in {"stored", "entrusted"} => cut'
<1>1. ASSUME NEW x \in Stage \ {"off", "stored", "entrusted"}, Goes(p, x)
      PROVE  \E y \in Stage \ {"off", "stored", "entrusted"} : Becomes(p, y)
  BY <1>1, GoingOn
<1>4. CASE ReadsOwed(p)
  <2>1. Becomes(p, "wiping") /\ proc[p].at \in {"starting", "checked"} /\ UNCHANGED creds
    BY <1>4, StartsUp
  <2> QED
    BY <2>1 DEF creds, Stage
<1>5. CASE Wipes(p)
  <2>1. Becomes(p, "opened") /\ At(p, "wiping") /\ UNCHANGED creds
    BY <1>5, StartsUp
  <2> QED
    BY <2>1 DEF creds, Stage, At
<1>6. CASE \/ ChecksPlace(p) \/ Marks(p) \/ Mounts(p) \/ Unmounts(p) \/ Unmarks(p)
           \/ Serves(p) \/ StartsEngine(p) \/ Finishes(p) \/ Clears(p) \/ ClearsOn(p)
  <2>1. \E x \in {"over", "checked", "marked", "live", "ending", "clearing", "halfway"} : Goes(p, x)
    BY <1>6 DEF ChecksPlace, Marks, Mounts, Unmounts, Unmarks, Serves, StartsEngine, Finishes,
       Clears, ClearsOn
  <2>2. UNCHANGED <<file, entry, logins, cut>>
    BY <1>6 DEF ChecksPlace, Marks, Mounts, Unmounts, Unmarks, Serves, StartsEngine, Finishes,
       Clears, ClearsOn, creds
  <2>3. proc[p].at \notin {"over", "stored", "entrusted"}
    BY <1>6 DEF ChecksPlace, Marks, Mounts, Unmounts, Unmarks, Serves, StartsEngine, Finishes,
       Clears, ClearsOn, At, Live
  <2> QED
    BY <1>1, <2>1, <2>2, <2>3 DEF Stage
<1>7. CASE Exits(p) \/ Crash(p)
  <2>1. Goes(p, "over") /\ UNCHANGED <<file, entry, logins>> /\ proc[p].at # "over"
    BY <1>7 DEF Exits, Crash, Live, At, creds
  <2>2. cut \/ proc[p].at \in {"stored", "entrusted"} => cut'
    BY <1>7 DEF Exits, Crash, Live, At, creds
  <2> QED
    BY <1>1, <2>1, <2>2 DEF Stage
<1> QED
  BY <1>4, <1>5, <1>6, <1>7

\* What the variables hold does not depend on anybody's manners.
LEMMA TypedStays == Typed /\ [Next]_vars => Typed'
<1> SUFFICES ASSUME Typed, [Next]_vars PROVE Typed'
  OBVIOUS
<1>1. ASSUME NEW p \in Processes, NEW role \in Roles, NEW place \in Places,
             Starts(p, role, place)
      PROVE  Typed'
  <2> DEFINE now == [role |-> role, at |-> "starting", place |-> place, base |-> NoDb, keep |-> {}]
  <2>1. /\ proc' = [proc EXCEPT ![p] = now] /\ now \in Process
        /\ UNCHANGED <<kernel, marker, scratch, base, owed, open, made>>
    BY <1>1, NeighboursAssumption DEF Starts, Process, Stage, disk, NoDb
  <2> HIDE DEF now
  <2>2. proc' \in [Processes -> Process]
    BY <2>1 DEF Typed
  <2> QED
    BY <2>1, <2>2 DEF Typed
<1>2. ASSUME NEW p \in Processes,
             \/ ReadsOwed(p) \/ Wipes(p)
             \/ ChecksPlace(p) \/ Marks(p) \/ Mounts(p) \/ Unmounts(p) \/ Unmarks(p)
             \/ Serves(p) \/ StartsEngine(p) \/ Exits(p) \/ Finishes(p)
             \/ Clears(p) \/ ClearsOn(p) \/ Crash(p)
      PROVE  Typed'
  <2>1. PICK x \in Stage : Becomes(p, x)
    BY <1>2, EverybodyMovesOn
  <2>2. CASE Marks(p)
    <3>1. proc[p].place \in Places \cup {NoPlace}
      BY DEF Typed, Process
    <3> QED
      BY <2>1, <2>2, <3>1 DEF Marks, Typed, Becomes
  <2>3. CASE Mounts(p) \/ Unmounts(p)
    <3>1. kernel' \in [Places -> Processes \cup {Nobody}]
      BY <2>3 DEF Mounts, Unmounts, Typed
    <3>2. UNCHANGED <<marker, scratch, base, owed, open, made>>
      BY <2>3 DEF Mounts, Unmounts, disk
    <3> QED
      BY <2>1, <3>1, <3>2 DEF Typed, Becomes
  <2>4. CASE \/ ReadsOwed(p) \/ ChecksPlace(p) \/ Serves(p) \/ StartsEngine(p)
             \/ Finishes(p) \/ Clears(p)
    <3>1. UNCHANGED <<kernel, marker, scratch, base, owed, open, made>>
      BY <2>4 DEF ReadsOwed, ChecksPlace, Serves, StartsEngine, Finishes, Clears, disk
    <3> QED
      BY <2>1, <3>1 DEF Typed, Becomes
  <2>5. CASE Exits(p) \/ Crash(p)
    <3>1. open' = [open EXCEPT ![p] = {}] /\ UNCHANGED <<kernel, marker, scratch, base, owed, made>>
      BY <2>5 DEF Exits, Crash, disk
    <3>2. open' \in [Processes -> SUBSET Nat]
      BY <3>1 DEF Typed
    <3> QED
      BY <2>1, <3>1, <3>2 DEF Typed, Becomes
  <2>6. CASE Wipes(p) \/ Unmarks(p) \/ ClearsOn(p)
    <3>1. /\ marker' \in {marker, NoPlace} /\ scratch' \subseteq scratch /\ base' \in {base, base + 1} /\ owed' = owed
          /\ UNCHANGED <<kernel, open, made>>
      BY <2>6 DEF Wipes, Kept, Unmarks, ClearsOn, Deletes
    <3> QED
      BY <2>1, <3>1 DEF Typed, Becomes
  <2> QED
    BY <1>2, <2>2, <2>3, <2>4, <2>5, <2>6
<1>3. ASSUME NEW p \in Processes, Removes(p) \/ LogsIn(p) \/ WritesFile(p) PROVE Typed'
  <2>1. PICK x \in Stage : Goes(p, x)
    BY <1>3 DEF Removes, LogsIn, WritesFile, Stage
  <2>2. Becomes(p, x)
    BY <2>1, GoingOn
  <2>3. /\ marker' \in {marker, NoPlace} /\ scratch' \subseteq scratch /\ base' \in {base, base + 1} /\ owed' = owed
        /\ UNCHANGED <<kernel, open, made>>
    BY <1>3 DEF Removes, LogsIn, WritesFile, disk
  <2> QED
    BY <2>2, <2>3 DEF Typed, Becomes
<1>4. ASSUME NEW p \in Processes, Writes(p) \/ Publishes(p) \/ Uploads(p) PROVE Typed'
  <2>1. UNCHANGED <<proc, kernel, marker, base>> /\ made' \in Nat
    BY <1>4 DEF Writes, Publishes, Uploads, Typed
  <2>2. scratch' \in SUBSET Nat /\ owed' \in SUBSET [edit : Nat, base : Nat]
    <3>1. CASE Writes(p)
      BY <3>1 DEF Writes, Typed
    <3>2. CASE Publishes(p)
      <4>1. open[p] \in SUBSET Nat /\ proc[p].base \in Nat
        BY DEF Typed, Process
      <4> QED
        BY <3>2, <4>1 DEF Publishes, Typed
    <3>3. CASE Uploads(p)
      BY <3>3 DEF Uploads, Typed
    <3> QED
      BY <1>4, <3>1, <3>2, <3>3
  <2>3. open' \in [Processes -> SUBSET Nat]
    BY <1>4 DEF Writes, Publishes, Uploads, Typed
  <2> QED
    BY <2>1, <2>2, <2>3 DEF Typed
<1>5. ASSUME NEW l \in Places, SomebodyUnmounts(l) PROVE Typed'
  BY <1>5 DEF SomebodyUnmounts, Typed, disk
<1>6. CASE UNCHANGED vars
  BY <1>6 DEF vars, disk, Typed
<1> QED
  BY <1>1, <1>2, <1>3, <1>4, <1>5, <1>6 DEF Next, Acts

LEMMA InitTyped == Init => Typed
  BY NeighboursAssumption DEF Init, Typed, Process, Stage, NoDb

-----------------------------------------------------------------------------
(* Edits. Nobody keeps the others away, so the invariant says what is known *)
(* of the edits nobody has come across: whoever wipes the scratch directory *)
(* has read of them, and when it is emptied there are none.                 *)

Edited == {r.edit : r \in owed}

\* Only a live engine has files open; an edit is in one place, and no record is
\* of a database that is still to come.
Kept1 ==
    /\ \A p \in Processes : /\ open[p] # {} => Live(p)
                            /\ open[p] \subseteq 1..made /\ open[p] \cap Edited = {}
                            /\ proc[p].base <= base
    /\ \A p, q \in Processes : p # q => open[p] \cap open[q] = {}
    /\ \A r \in owed : r.edit \in 1..made /\ r.base <= base
    /\ \A r, s \in owed : r.edit = s.edit => r = s

Spared ==
    /\ \A p \in Processes : At(p, "wiping") => Owed \ exposed \subseteq proc[p].keep
    /\ \A p \in Processes : At(p, "halfway") => Owed \subseteq exposed
    /\ \A r \in owed : Relied(r) /\ r.base # base => r.edit \in exposed

SInv == Typed /\ Kept1 /\ Exposed \subseteq exposed /\ EditsSurviveNeighbours /\ Spared

\* What anybody's way of working exposes.
LEMMA InTheWay ==
    ASSUME Exposed \subseteq exposed, NEW p \in Processes, At(p, "wiping") \/ Clearing(p)
    PROVE  Open \subseteq exposed
  BY DEF Exposed

LEMMA Undermined ==
    ASSUME Exposed \subseteq exposed, NEW p \in Processes, Clearing(p),
           NEW q \in Processes, Uses(q)
    PROVE  Owed \subseteq exposed
  BY DEF Exposed

\* Steps by which no record is added and no new database is taken into use.
Fewer == /\ owed' \subseteq owed /\ base' \in {base, base + 1}
         /\ \A q \in Processes : Uses(q)' => \/ Uses(q) /\ proc'[q].base = proc[q].base
                                            \/ proc'[q].base = base

LEMMA OwedShrinks ==
    ASSUME Typed, Kept1, Fewer
    PROVE  /\ \A r \in owed' : Relied(r)' => Relied(r)
           /\ Owed' \subseteq Owed
<1>1. ASSUME NEW r \in owed', Relied(r)' PROVE Relied(r)
  <2>1. r \in owed /\ r.base \in Nat /\ base \in Nat /\ r.base <= base
    BY DEF Fewer, Kept1, Typed
  <2>2. CASE r.base = base'
    BY <2>1, <2>2 DEF Fewer, Relied
  <2>3. CASE \E q \in Processes : Uses(q)' /\ proc'[q].base = r.base
    BY <2>3 DEF Fewer, Relied
  <2> QED
    BY <1>1, <2>2, <2>3 DEF Relied
<1>2. Owed' \subseteq Owed
  BY <1>1 DEF Owed, Fewer
<1> QED
  BY <1>1, <1>2

\* What history is for.
Noted == exposed' = exposed \cup Exposed'

\* A step that changes neither records, bytes nor databases, and brings nobody
\* to the scratch directory.
LEMMA LeavesAlone ==
    ASSUME SInv, Typed', Noted, Fewer, UNCHANGED <<scratch, owed, base, made>>,
           \A q \in Processes : /\ open'[q] \subseteq open[q]
                                /\ open'[q] # {} => Live(q)'
                                /\ proc'[q].base <= base
                                /\ At(q, "wiping")' => At(q, "wiping") /\ proc'[q].keep = proc[q].keep
                                /\ At(q, "halfway")' => At(q, "halfway")
    PROVE  SInv'
<1>1. Kept1'
  BY DEF SInv, Kept1, Edited
<1>2. Owed' \subseteq Owed /\ \A r \in owed' : Relied(r)' => Relied(r)
  BY OwedShrinks DEF SInv
<1>3. Open' \subseteq Open
  BY DEF Open
<1>4. exposed \subseteq exposed' /\ Exposed' \subseteq exposed'
  BY DEF Noted
<1>5. EditsSurviveNeighbours'
  BY <1>2, <1>3, <1>4 DEF SInv, EditsSurviveNeighbours
<1>6. Spared'
  BY <1>2, <1>4 DEF SInv, Spared
<1> QED
  BY <1>1, <1>4, <1>5, <1>6 DEF SInv

\* p goes on, and whatever it was at is done.
LEMMA GoesOn ==
    ASSUME SInv, Typed', Noted, NEW p \in Processes, NEW x \in Stage, Goes(p, x),
           x \notin {"wiping", "halfway"}, proc[p].at # "over",
           UNCHANGED <<scratch, owed, base, made>>,
           \/ open' = open /\ (Live(p) => open[p] = {})
           \/ open' = [open EXCEPT ![p] = {}]
    PROVE  SInv'
<1>1. Becomes(p, x) /\ proc'[p].base = proc[p].base
  BY GoingOn DEF SInv
<1>2. \A q \in Processes \ {p} : open'[q] = open[q] /\ proc'[q] = proc[q]
  BY <1>1 DEF SInv, Typed, Becomes
<1>3. open'[p] = {}
  BY DEF SInv, Typed, Kept1
<1>4. Fewer
  BY <1>1, <1>2 DEF Fewer, Uses, Becomes, At
<1>5. \A q \in Processes : /\ open'[q] \subseteq open[q]
                           /\ open'[q] # {} => Live(q)'
                           /\ proc'[q].base <= base
                           /\ At(q, "wiping")' => At(q, "wiping") /\ proc'[q].keep = proc[q].keep
                           /\ At(q, "halfway")' => At(q, "halfway")
  BY <1>1, <1>2, <1>3 DEF SInv, Kept1, Live, At, Becomes
<1> QED
  BY <1>4, <1>5, LeavesAlone

LEMMA BeginsKeepsEdits ==
    ASSUME SInv, Typed', Noted, NEW p \in Processes, NEW role \in Roles, NEW place \in Places,
           Starts(p, role, place)
    PROVE  SInv'
<1> DEFINE now == [role |-> role, at |-> "starting", place |-> place, base |-> NoDb, keep |-> {}]
<1>1. /\ proc' = [proc EXCEPT ![p] = now] /\ now.at = "starting" /\ now.base = NoDb
      /\ At(p, "off") /\ UNCHANGED <<scratch, owed, base, made, open>>
  BY DEF Starts, disk
<1> HIDE DEF now
<1>2. proc'[p] = now /\ \A q \in Processes \ {p} : proc'[q] = proc[q]
  BY <1>1 DEF SInv, Typed
<1>3. open[p] = {} /\ NoDb <= base
  BY <1>1 DEF SInv, Kept1, Live, At, NoDb, Typed
<1>4. Fewer
  BY <1>1, <1>2 DEF Fewer, Uses, At
<1>5. \A q \in Processes : /\ open'[q] \subseteq open[q]
                           /\ open'[q] # {} => Live(q)'
                           /\ proc'[q].base <= base
                           /\ At(q, "wiping")' => At(q, "wiping") /\ proc'[q].keep = proc[q].keep
                           /\ At(q, "halfway")' => At(q, "halfway")
  BY <1>1, <1>2, <1>3 DEF SInv, Kept1, Live, At
<1> QED
  BY <1>1, <1>4, <1>5, LeavesAlone

\* Who reads what is owed has read of everything nobody has come across.
LEMMA ReadsKeepsEdits ==
    ASSUME SInv, Typed', Noted, NEW p \in Processes, ReadsOwed(p)
    PROVE  SInv'
<1>1. /\ Becomes(p, "wiping") /\ proc'[p].keep = Listed /\ proc'[p].base = base
      /\ proc[p].at \in {"starting", "checked"}
      /\ UNCHANGED <<scratch, owed, base, made, open>>
  BY StartsUp DEF SInv, disk
<1>2. \A q \in Processes \ {p} : proc'[q] = proc[q]
  BY <1>1 DEF Becomes
<1>3. open[p] = {} /\ base <= base
  BY <1>1 DEF SInv, Kept1, Live, At, Typed
<1>4. Fewer
  BY <1>1, <1>2 DEF Fewer, Uses, At
<1>5. Owed' \subseteq Owed /\ \A r \in owed' : Relied(r)' => Relied(r)
  BY <1>4, OwedShrinks DEF SInv
<1>6. exposed \subseteq exposed' /\ Exposed' \subseteq exposed'
  BY DEF Noted
<1>7. Kept1'
  <2>1. \A q \in Processes : open[q] # {} => Live(q)'
    BY <1>2, <1>3 DEF SInv, Kept1, Live, At
  <2>2. \A q \in Processes : proc'[q].base <= base
    BY <1>1, <1>2, <1>3 DEF SInv, Kept1
  <2> QED
    BY <1>1, <2>1, <2>2 DEF SInv, Kept1, Edited
<1>8. EditsSurviveNeighbours'
  BY <1>1, <1>5, <1>6 DEF SInv, EditsSurviveNeighbours, Open
<1>9. Owed \ exposed \subseteq Listed
  <2> SUFFICES ASSUME NEW r \in owed, Relied(r), r.edit \notin exposed PROVE r.base = base
    BY DEF Owed, Listed
  <2> QED
    BY DEF SInv, Spared
<1>10. Spared'
  <2>1. \A q \in Processes : At(q, "wiping")' => Owed' \ exposed' \subseteq proc'[q].keep
    BY <1>1, <1>2, <1>5, <1>6, <1>9 DEF SInv, Spared, At
  <2>2. \A q \in Processes : At(q, "halfway")' => At(q, "halfway")
    BY <1>1, <1>2 DEF At, Becomes
  <2>3. \A q \in Processes : At(q, "halfway")' => Owed' \subseteq exposed'
    BY <1>5, <1>6, <2>2 DEF SInv, Spared
  <2>4. \A r \in owed' : Relied(r)' /\ r.base # base' => r.edit \in exposed'
    BY <1>1, <1>5, <1>6 DEF SInv, Spared
  <2> QED
    BY <2>1, <2>3, <2>4 DEF Spared
<1> QED
  BY <1>6, <1>7, <1>8, <1>10 DEF SInv

\* The sweep takes what nobody had read of, and what was open beside it.
LEMMA WipesKeepsEdits ==
    ASSUME SInv, Typed', Noted, NEW p \in Processes, Wipes(p)
    PROVE  SInv'
<1>1. /\ Becomes(p, "opened") /\ proc'[p].base = proc[p].base /\ At(p, "wiping")
      /\ scratch' = scratch \cap proc[p].keep
      /\ UNCHANGED <<owed, base, made, open>>
  BY StartsUp DEF SInv
<1>2. \A q \in Processes \ {p} : proc'[q] = proc[q]
  BY <1>1 DEF Becomes
<1>3. open[p] = {}
  BY <1>1 DEF SInv, Kept1, Live, At
<1>4. Fewer
  BY <1>1, <1>2 DEF Fewer, Uses, At, Becomes
<1>5. Owed' \subseteq Owed /\ \A r \in owed' : Relied(r)' => Relied(r)
  BY <1>4, OwedShrinks DEF SInv
<1>6. exposed \subseteq exposed' /\ Exposed' \subseteq exposed'
  BY DEF Noted
<1>7. Kept1'
  <2>1. \A q \in Processes : open[q] # {} => Live(q)'
    BY <1>2, <1>3 DEF SInv, Kept1, Live, At
  <2>2. \A q \in Processes : proc'[q].base <= base
    BY <1>1, <1>2 DEF SInv, Kept1
  <2> QED
    BY <1>1, <2>1, <2>2 DEF SInv, Kept1, Edited
<1>8. EditsSurviveNeighbours'
  <2>1. Open' \subseteq exposed
    BY <1>1, InTheWay DEF SInv, Open
  <2>2. Owed' \ exposed' \subseteq scratch \cap proc[p].keep
    BY <1>1, <1>5, <1>6 DEF SInv, Spared, EditsSurviveNeighbours
  <2> QED
    BY <1>1, <1>6, <2>1, <2>2 DEF EditsSurviveNeighbours
<1>9. Spared'
  <2>1. \A q \in Processes : /\ At(q, "wiping")' => At(q, "wiping") /\ proc'[q].keep = proc[q].keep
                             /\ At(q, "halfway")' => At(q, "halfway")
    BY <1>1, <1>2 DEF At, Becomes
  <2> QED
    BY <1>1, <1>5, <1>6, <2>1 DEF SInv, Spared
<1> QED
  BY <1>6, <1>7, <1>8, <1>9 DEF SInv

\* The database goes: who goes on with it has been in the way.
LEMMA DropsKeepsEdits ==
    ASSUME SInv, Typed', Noted, NEW p \in Processes, NEW x \in Stage, Goes(p, x),
           x \in {"halfway", "over"}, Clearing(p), base' = base + 1,
           UNCHANGED <<owed, made, open>>, scratch' = scratch \/ scratch' = {}
    PROVE  SInv'
<1>1. Becomes(p, x) /\ proc'[p].base = proc[p].base
  BY GoingOn DEF SInv
<1>2. \A q \in Processes \ {p} : proc'[q] = proc[q]
  BY <1>1 DEF Becomes
<1>3. open[p] = {} /\ base \in Nat
  BY DEF SInv, Kept1, Live, At, Clearing, Typed
<1>4. Fewer
  BY <1>1, <1>2 DEF Fewer, Uses, At, Becomes, Clearing
<1>5. Owed' \subseteq Owed /\ \A r \in owed' : Relied(r)' => Relied(r)
  BY <1>4, OwedShrinks DEF SInv
<1>6. exposed \subseteq exposed' /\ Exposed' \subseteq exposed'
  BY DEF Noted
<1>7. Kept1'
  <2>1. \A q \in Processes : open[q] # {} => Live(q)'
    BY <1>2, <1>3 DEF SInv, Kept1, Live, At
  <2>2. \A q \in Processes : proc[q].base \in Nat /\ proc'[q].base = proc[q].base
    BY <1>1, <1>2 DEF SInv, Typed, Process
  <2>3. \A q \in Processes : proc'[q].base <= base'
    BY <1>3, <2>2 DEF SInv, Kept1
  <2>4. \A r \in owed : r.base <= base'
    <3>1. \A r \in owed : r.base \in Nat /\ r.base <= base
      BY DEF SInv, Typed, Kept1
    <3> QED
      BY <1>3, <3>1
  <2> QED
    BY <2>1, <2>3, <2>4 DEF SInv, Kept1, Edited
<1>8. Owed' \subseteq exposed
  <2> SUFFICES ASSUME NEW r \in owed, Relied(r)' PROVE r.edit \in exposed
    BY DEF Owed
  <2>1. r.base # base'
    <3>1. r.base \in Nat /\ r.base <= base
      BY DEF SInv, Typed, Kept1
    <3> QED
      BY <1>3, <3>1
  <2>2. PICK q \in Processes : Uses(q)' /\ proc'[q].base = r.base
    BY <2>1 DEF Relied
  <2>3. Uses(q) \/ proc'[q].base = base
    BY <1>4, <2>2 DEF Fewer
  <2>4. Uses(q)
    BY <1>1, <1>2, <2>2 DEF Uses, Becomes, At, Clearing
  <2>5. Relied(r)
    BY <1>5
  <2> QED
    BY <2>4, <2>5, Undermined DEF SInv, Owed
<1>9. Open' \subseteq exposed
  BY InTheWay DEF SInv, Open
<1>10. EditsSurviveNeighbours'
  BY <1>6, <1>8, <1>9 DEF EditsSurviveNeighbours
<1>11. Spared'
  <2>1. \A r \in owed' : Relied(r)' => r.edit \in exposed'
    BY <1>6, <1>8 DEF Owed
  <2> QED
    BY <1>6, <1>8, <2>1 DEF Spared
<1> QED
  BY <1>6, <1>7, <1>10, <1>11 DEF SInv

\* The scratch directory goes, with nothing in it that is still owed.
LEMMA EmptiesKeepsEdits ==
    ASSUME SInv, Typed', Noted, NEW p \in Processes, Goes(p, "over"), At(p, "halfway"),
           scratch' = {}, UNCHANGED <<base, owed, made, open>>
    PROVE  SInv'
<1>1. Becomes(p, "over") /\ proc'[p].base = proc[p].base
  BY GoingOn DEF SInv, Stage
<1>2. \A q \in Processes \ {p} : proc'[q] = proc[q]
  BY <1>1 DEF Becomes
<1>3. open[p] = {}
  BY DEF SInv, Kept1, Live, At
<1>4. Fewer
  BY <1>1, <1>2 DEF Fewer, Uses, At, Becomes
<1>5. Owed' \subseteq Owed /\ \A r \in owed' : Relied(r)' => Relied(r)
  BY <1>4, OwedShrinks DEF SInv
<1>6. exposed \subseteq exposed' /\ Exposed' \subseteq exposed'
  BY DEF Noted
<1>7. Kept1'
  <2>1. \A q \in Processes : open[q] # {} => Live(q)'
    BY <1>2, <1>3 DEF SInv, Kept1, Live, At
  <2>2. \A q \in Processes : proc'[q].base <= base
    BY <1>1, <1>2 DEF SInv, Kept1
  <2> QED
    BY <2>1, <2>2 DEF SInv, Kept1, Edited
<1>8. EditsSurviveNeighbours'
  <2>1. Open' \subseteq exposed
    BY InTheWay DEF SInv, Open, Clearing, At
  <2>2. Owed' \subseteq exposed
    BY <1>5 DEF SInv, Spared
  <2> QED
    BY <1>6, <2>1, <2>2 DEF EditsSurviveNeighbours
<1>9. Spared'
  <2>1. \A q \in Processes : /\ At(q, "wiping")' => At(q, "wiping") /\ proc'[q].keep = proc[q].keep
                             /\ At(q, "halfway")' => At(q, "halfway")
    BY <1>1, <1>2 DEF At, Becomes
  <2> QED
    BY <1>5, <1>6, <2>1 DEF SInv, Spared
<1> QED
  BY <1>6, <1>7, <1>8, <1>9 DEF SInv

\* A new edit beside somebody who wipes or clears is exposed at once.
LEMMA WritesKeepsEdits ==
    ASSUME SInv, Typed', Noted, NEW p \in Processes, Writes(p)
    PROVE  SInv'
<1>1. /\ Live(p) /\ made' = made + 1 /\ scratch' = scratch \cup {made + 1}
      /\ open' = [open EXCEPT ![p] = @ \cup {made + 1}] /\ UNCHANGED <<proc, owed, base>>
      /\ made \in Nat
  BY DEF Writes, SInv, Typed
<1>2. open'[p] = open[p] \cup {made + 1} /\ \A q \in Processes \ {p} : open'[q] = open[q]
  BY <1>1 DEF SInv, Typed
<1>3. Owed' = Owed /\ \A r : Relied(r)' = Relied(r)
  BY <1>1 DEF Owed, Relied, Uses, At
<1>4. exposed \subseteq exposed' /\ Exposed' \subseteq exposed'
  BY DEF Noted
<1>5. Kept1'
  <2>1. made + 1 \notin Edited /\ \A q \in Processes : made + 1 \notin open[q]
    BY <1>1 DEF SInv, Kept1, Edited
  <2>2. 1..made \subseteq 1..made'
    BY <1>1
  <2>3. made + 1 \in 1..made'
    BY <1>1
  <2>4. \A q \in Processes : /\ open'[q] # {} => Live(q)'
                             /\ open'[q] \subseteq 1..made' /\ open'[q] \cap Edited' = {}
                             /\ proc'[q].base <= base'
    BY <1>1, <1>2, <2>1, <2>2, <2>3 DEF SInv, Kept1, Edited, Live, At
  <2>5. \A q, r \in Processes : q # r => open'[q] \cap open'[r] = {}
    BY <1>2, <2>1 DEF SInv, Kept1
  <2>6. \A r \in owed' : r.edit \in 1..made' /\ r.base <= base'
    BY <1>1, <2>2 DEF SInv, Kept1
  <2>7. \A r, s \in owed' : r.edit = s.edit => r = s
    BY <1>1 DEF SInv, Kept1
  <2> QED
    BY <2>4, <2>5, <2>6, <2>7 DEF Kept1
<1>6. EditsSurviveNeighbours'
  <2>1. Open' \subseteq Open \cup {made + 1}
    BY <1>2 DEF Open
  <2> QED
    BY <1>1, <1>3, <1>4, <2>1 DEF SInv, EditsSurviveNeighbours
<1>7. Spared'
  BY <1>1, <1>3, <1>4 DEF SInv, Spared, At
<1> QED
  BY <1>4, <1>5, <1>6, <1>7 DEF SInv

LEMMA PublishesKeepsEdits ==
    ASSUME SInv, Typed', Noted, NEW p \in Processes, Publishes(p)
    PROVE  SInv'
<1> DEFINE news == {[edit |-> e, base |-> proc[p].base] : e \in open[p]}
<1>1. /\ Live(p) /\ owed' = owed \cup news /\ open' = [open EXCEPT ![p] = {}]
      /\ UNCHANGED <<proc, scratch, base, made>>
  BY DEF Publishes
<1>2. open'[p] = {} /\ \A q \in Processes \ {p} : open'[q] = open[q]
  BY <1>1 DEF SInv, Typed
<1>3. \A r \in news : r.edit \in open[p] /\ r.base = proc[p].base
  OBVIOUS
<1>4. \A r, s \in news : r.edit = s.edit => r = s
  OBVIOUS
<1> HIDE DEF news
<1>5. \A r : Relied(r)' = Relied(r)
  BY <1>1 DEF Relied, Uses, At
<1>6. Owed' \subseteq Owed \cup open[p] /\ open[p] \subseteq Open /\ Open' \subseteq Open
  BY <1>1, <1>2, <1>3, <1>5 DEF Owed, Open
<1>7. exposed \subseteq exposed' /\ Exposed' \subseteq exposed'
  BY DEF Noted
<1>8. Kept1'
  <2>1. \A r \in news : r.edit \in 1..made /\ r.base <= base /\ r.edit \notin Edited
    BY <1>3 DEF SInv, Kept1
  <2>2. \A r \in owed' : r.edit \in 1..made' /\ r.base <= base'
    BY <1>1, <2>1 DEF SInv, Kept1
  <2>3. \A r \in owed : \A s \in news : r.edit # s.edit
    BY <2>1 DEF Edited
  <2>4. \A r, s \in owed' : r.edit = s.edit => r = s
    BY <1>1, <1>4, <2>3 DEF SInv, Kept1
  <2>5. \A q \in Processes \ {p} : \A r \in news : r.edit \notin open[q]
    BY <1>3 DEF SInv, Kept1
  <2>6. \A q \in Processes : open'[q] \cap Edited' = {}
    BY <1>1, <1>2, <2>5 DEF SInv, Kept1, Edited
  <2>7. \A q \in Processes : /\ open'[q] # {} => Live(q)'
                             /\ open'[q] \subseteq 1..made' /\ proc'[q].base <= base'
    BY <1>1, <1>2 DEF SInv, Kept1, Live, At
  <2>8. \A q, r \in Processes : q # r => open'[q] \cap open'[r] = {}
    BY <1>2 DEF SInv, Kept1
  <2> QED
    BY <2>2, <2>4, <2>6, <2>7, <2>8 DEF Kept1
<1>9. EditsSurviveNeighbours'
  BY <1>1, <1>6, <1>7 DEF SInv, EditsSurviveNeighbours
<1>10. ASSUME NEW q \in Processes, At(q, "wiping")' \/ At(q, "halfway")'
       PROVE  (At(q, "wiping") \/ At(q, "halfway")) /\ open[p] \subseteq exposed
  <2>1. At(q, "wiping") \/ At(q, "halfway")
    BY <1>1, <1>10 DEF At
  <2> QED
    BY <1>6, <2>1, InTheWay DEF SInv, Clearing, At
<1>11. Spared'
  <2>1. \A q \in Processes : At(q, "wiping")' => Owed' \ exposed' \subseteq proc'[q].keep
    BY <1>1, <1>6, <1>7, <1>10 DEF SInv, Spared, At
  <2>2. \A q \in Processes : At(q, "halfway")' => Owed' \subseteq exposed'
    BY <1>1, <1>6, <1>7, <1>10 DEF SInv, Spared, At
  <2>3. proc[p].base # base => open[p] \subseteq exposed
    BY DEF SInv, Exposed, Open
  <2>4. \A r \in owed' : Relied(r)' /\ r.base # base' => r.edit \in exposed'
    BY <1>1, <1>3, <1>5, <1>7, <2>3 DEF SInv, Spared
  <2> QED
    BY <2>1, <2>2, <2>4 DEF Spared
<1> QED
  BY <1>7, <1>8, <1>9, <1>11 DEF SInv

LEMMA UploadsKeepsEdits ==
    ASSUME SInv, Typed', Noted, NEW p \in Processes, Uploads(p)
    PROVE  SInv'
<1> PICK r \in owed : owed' = owed \ {r} /\ scratch' = scratch \ {r.edit}
  BY DEF Uploads
<1>1. UNCHANGED <<proc, base, made, open>>
  BY DEF Uploads
<1>2. \A s : Relied(s)' = Relied(s)
  BY <1>1 DEF Relied, Uses, At
<1>3. r.edit \notin Open /\ r.edit \notin Owed'
  <2>1. r.edit \in Edited
    BY DEF Edited
  <2>2. r.edit \notin Open
    BY <2>1 DEF SInv, Kept1, Open
  <2>3. \A s \in owed' : s.edit # r.edit
    BY DEF SInv, Kept1
  <2> QED
    BY <2>2, <2>3 DEF Owed
<1>4. Owed' \subseteq Owed /\ Open' = Open
  BY <1>1, <1>2 DEF Owed, Open
<1>5. exposed \subseteq exposed' /\ Exposed' \subseteq exposed'
  BY DEF Noted
<1>6. Kept1'
  BY <1>1 DEF SInv, Kept1, Edited, Live, At
<1>7. EditsSurviveNeighbours'
  BY <1>3, <1>4, <1>5 DEF SInv, EditsSurviveNeighbours
<1>8. Spared'
  BY <1>1, <1>2, <1>4, <1>5 DEF SInv, Spared, At
<1> QED
  BY <1>5, <1>6, <1>7, <1>8 DEF SInv

LEMMA NextKeepsEdits == SInv /\ [Next]_vars => SInv'
<1> SUFFICES ASSUME SInv, [Next]_vars PROVE SInv'
  OBVIOUS
<1>0. Typed'
  BY TypedStays DEF SInv
<1>1. CASE UNCHANGED vars
  <2>1. UNCHANGED <<proc, scratch, base, owed, open, made, exposed>>
    BY <1>1 DEF vars, disk
  <2> QED
    BY <1>0, <2>1 DEF SInv, Kept1, Edited, EditsSurviveNeighbours, Spared, Owed, Open, Exposed,
       Relied, Uses, Clearing, Live, At
<1>2. CASE Next
  <2>0. Noted
    BY <1>2 DEF Next, Noted
  <2>1. ASSUME NEW p \in Processes, NEW role \in Roles, NEW place \in Places, Starts(p, role, place)
        PROVE  SInv'
    BY <1>0, <2>0, <2>1, BeginsKeepsEdits
  <2>2. ASSUME NEW p \in Processes, ReadsOwed(p) \/ Wipes(p) PROVE SInv'
    BY <1>0, <2>0, <2>2, ReadsKeepsEdits, WipesKeepsEdits
  <2>3. ASSUME NEW p \in Processes,
               \/ ChecksPlace(p) \/ Marks(p) \/ Mounts(p) \/ Unmounts(p) \/ Unmarks(p)
               \/ Serves(p) \/ StartsEngine(p) \/ Finishes(p) \/ Clears(p) \/ LogsIn(p) \/ WritesFile(p)
        PROVE  SInv'
    <3>1. \E x \in Stage : Goes(p, x) /\ x \notin {"wiping", "halfway"}
      BY <2>3 DEF ChecksPlace, Marks, Mounts, Unmounts, Unmarks, Serves, StartsEngine, Finishes,
         Clears, LogsIn, WritesFile, Stage
    <3>2. UNCHANGED <<scratch, owed, base, made, open>>
      BY <2>3 DEF ChecksPlace, Marks, Mounts, Unmounts, Unmarks, Serves, StartsEngine, Finishes,
         Clears, LogsIn, WritesFile, disk
    <3>3. proc[p].at # "over" /\ (Live(p) => open[p] = {})
      BY <2>3 DEF ChecksPlace, Marks, Mounts, Unmounts, Unmarks, Serves, StartsEngine, Finishes,
         Clears, LogsIn, WritesFile, At, Live
    <3> QED
      BY <1>0, <2>0, <3>1, <3>2, <3>3, GoesOn
  <2>4. ASSUME NEW p \in Processes, Exits(p) \/ Crash(p) PROVE SInv'
    <3>1. /\ Goes(p, "over") /\ proc[p].at # "over" /\ open' = [open EXCEPT ![p] = {}]
          /\ UNCHANGED <<scratch, owed, base, made>>
      BY <2>4 DEF Exits, Crash, Live, At, disk
    <3>2. "over" \in Stage
      BY DEF Stage
    <3> QED
      BY <1>0, <2>0, <3>1, <3>2, GoesOn
  <2>5. ASSUME NEW p \in Processes, ClearsOn(p) PROVE SInv'
    <3>1. CASE At(p, "clearing")
      <4>1. /\ Goes(p, "halfway") /\ base' = base + 1 /\ scratch' = scratch
            /\ UNCHANGED <<owed, made, open>> /\ Clearing(p) /\ "halfway" \in Stage
        BY <2>5, <3>1 DEF ClearsOn, Deletes, Clearing, At, Stage
      <4> QED
        BY <1>0, <2>0, <4>1, DropsKeepsEdits
    <3>2. CASE ~At(p, "clearing")
      <4>1. /\ Goes(p, "over") /\ At(p, "halfway") /\ scratch' = {}
            /\ UNCHANGED <<base, owed, made, open>>
        BY <2>5, <3>2 DEF ClearsOn, Deletes, At
      <4> QED
        BY <1>0, <2>0, <4>1, EmptiesKeepsEdits
    <3> QED
      BY <3>1, <3>2
  <2>6. ASSUME NEW p \in Processes, Removes(p) PROVE SInv'
    <3>1. CASE At(p, "starting") /\ Goes(p, "forgotten") /\ UNCHANGED <<file, disk>>
      <4>1. /\ "forgotten" \in Stage /\ ~Live(p) /\ proc[p].at # "over"
            /\ UNCHANGED <<scratch, owed, base, made, open>>
        BY <2>6, <3>1 DEF Removes, disk, Stage, Live, At
      <4> QED
        BY <1>0, <2>0, <3>1, <4>1, GoesOn
    <3>2. CASE At(p, "forgotten") /\ Goes(p, "over") /\ scratch' = {} /\ base' = base + 1
      <4>1. "over" \in Stage /\ Clearing(p) /\ UNCHANGED <<owed, made, open>>
        BY <2>6, <3>2 DEF Removes, Stage, Clearing, At
      <4> QED
        BY <1>0, <2>0, <3>2, <4>1, DropsKeepsEdits
    <3> QED
      BY <2>6, <3>1, <3>2 DEF Removes
  <2>7. ASSUME NEW p \in Processes, Writes(p) \/ Publishes(p) \/ Uploads(p) PROVE SInv'
    BY <1>0, <2>0, <2>7, WritesKeepsEdits, PublishesKeepsEdits, UploadsKeepsEdits
  <2>8. ASSUME NEW l \in Places, SomebodyUnmounts(l) PROVE SInv'
    <3>1. UNCHANGED <<proc, scratch, base, owed, open, made>>
      BY <2>8 DEF SomebodyUnmounts, disk
    <3>2. Fewer
      BY <3>1 DEF Fewer, Uses, At
    <3> QED
      BY <1>0, <2>0, <3>1, <3>2, LeavesAlone DEF SInv, Kept1, Live, At
  <2> QED
    BY <1>2, <2>1, <2>2, <2>3, <2>4, <2>5, <2>6, <2>7, <2>8 DEF Next, Acts
<1> QED
  BY <1>1, <1>2

LEMMA InitSInv == Init => SInv
<1> SUFFICES ASSUME Init PROVE SInv
  OBVIOUS
<1>1. /\ Typed /\ owed = {} /\ \A p \in Processes : /\ open[p] = {} /\ proc[p].at = "off"
                                                   /\ proc[p].base = 0
      /\ base = 1 /\ exposed = {}
  BY InitTyped DEF Init, NoDb
<1>2. Owed = {} /\ Open = {}
  BY <1>1 DEF Owed, Open
<1> QED
  BY <1>1, <1>2 DEF SInv, Kept1, Edited, EditsSurviveNeighbours, Spared, Exposed, At

\* Whatever is started beside an engine, at whatever moment (a Provider's start,
\* provider.rs:1166; cache clear and account remove, main.rs), and wherever it is
\* killed: an edit that is open or owed keeps its bytes, unless it was open while
\* another was between its look and what it deleted, or its database was deleted.
THEOREM EditsOutliveTheirNeighbours == Spec => []EditsSurviveNeighbours
<1>1. SInv => EditsSurviveNeighbours
  BY DEF SInv
<1> QED
  BY <1>1, InitSInv, NextKeepsEdits, PTL DEF Spec

-----------------------------------------------------------------------------
(* Mounts. A mount that has left its mark, and that no other came across,  *)
(* is where the mark says; and once it is live, the kernel has it there.   *)

Placed(p) == proc[p].at # "off" => proc[p].place \in Places
Found(p)  == Is(p, "mount") /\ proc[p].at \in {"marked", "live"} =>
                 /\ marker = proc[p].place
                 /\ Live(p) => kernel[proc[p].place] = p

MInv ==
    /\ Typed /\ Crossed \subseteq crossed
    /\ \A p \in Processes : Placed(p) /\ (p \notin crossed => Found(p))

\* Who could do it harm has come across it, before the step or after it.
LEMMA Uncrossed ==
    ASSUME MInv, crossed' = crossed \cup Crossed', NEW p \in Processes, p \notin crossed', Is(p, "mount"),
           NEW q \in Processes \ {p}
    PROVE  /\ p \notin crossed
           /\ proc[p].at \in {"marked", "live"} => proc[q].at \notin {"marked", "ending", "forgotten"}
           /\ Is(p, "mount")' /\ proc'[p].at \in {"marked", "live"} =>
                  proc'[q].at \notin {"marked", "ending", "forgotten"}
  BY DEF MInv, Crossed, Is

LEMMA PlacesStay ==
    ASSUME MInv, Typed', [Next]_vars
    PROVE  \A p \in Processes : Placed(p)'
<1> SUFFICES ASSUME NEW p \in Processes, proc'[p].at # "off" PROVE proc'[p].place \in Places
  BY DEF Placed
<1>1. ASSUME NEW q \in Processes, NEW role \in Roles, NEW place \in Places, Starts(q, role, place)
      PROVE  proc'[p].place \in Places
  <2> DEFINE now == [role |-> role, at |-> "starting", place |-> place, base |-> NoDb, keep |-> {}]
  <2>1. proc' = [proc EXCEPT ![q] = now] /\ now.place = place
    BY <1>1 DEF Starts
  <2> HIDE DEF now
  <2> QED
    BY <2>1 DEF MInv, Typed, Placed
<1>2. ASSUME NEW q \in Processes, NEW x \in Stage, Becomes(q, x), proc[q].at # "off"
      PROVE  proc'[p].place \in Places
  BY <1>2 DEF MInv, Placed, Becomes
<1>3. ASSUME NEW q \in Processes, NEW x \in Stage, Goes(q, x), proc[q].at # "off"
      PROVE  proc'[p].place \in Places
  BY <1>2, <1>3, GoingOn DEF MInv
<1>4. ASSUME NEW q \in Processes, ReadsOwed(q) \/ Wipes(q) PROVE proc'[p].place \in Places
  <2>1. \E x \in Stage : Becomes(q, x)
    BY <1>4, EverybodyMovesOn DEF MInv
  <2>2. proc[q].at # "off"
    BY <1>4, StartsUp DEF MInv, At
  <2> QED
    BY <1>2, <2>1, <2>2
<1>5. ASSUME NEW q \in Processes,
             \/ ChecksPlace(q) \/ Marks(q) \/ Mounts(q) \/ Unmounts(q) \/ Unmarks(q)
             \/ Serves(q) \/ StartsEngine(q) \/ Exits(q) \/ Finishes(q)
             \/ Clears(q) \/ ClearsOn(q) \/ Removes(q) \/ LogsIn(q) \/ WritesFile(q) \/ Crash(q)
      PROVE  proc'[p].place \in Places
  <2>1. \E x \in Stage : Goes(q, x)
    BY <1>5 DEF ChecksPlace, Marks, Mounts, Unmounts, Unmarks, Serves, StartsEngine, Exits, Finishes,
       Clears, ClearsOn, Removes, LogsIn, WritesFile, Crash, Stage
  <2>2. proc[q].at # "off"
    BY <1>5 DEF ChecksPlace, Marks, Mounts, Unmounts, Unmarks, Serves, StartsEngine, Exits, Finishes,
       Clears, ClearsOn, Removes, LogsIn, WritesFile, Crash, At, Live
  <2> QED
    BY <1>3, <2>1, <2>2
<1>6. ASSUME proc' = proc PROVE proc'[p].place \in Places
  BY <1>6 DEF MInv, Placed
<1>7. ASSUME \/ \E q \in Processes : Writes(q) \/ Publishes(q) \/ Uploads(q)
             \/ \E l \in Places : SomebodyUnmounts(l)
             \/ UNCHANGED vars
      PROVE  proc'[p].place \in Places
  BY <1>6, <1>7 DEF Writes, Publishes, Uploads, SomebodyUnmounts, vars
<1> QED
  BY <1>1, <1>4, <1>5, <1>7 DEF Next, Acts

\* Somebody else's step.
LEMMA OthersLeaveIt ==
    ASSUME MInv, Typed', crossed' = crossed \cup Crossed', NEW p \in Processes, p \notin crossed',
           NEW q \in Processes \ {p}, proc'[p] = proc[p],
           \/ UNCHANGED <<kernel, marker>>
           \/ Marks(q) /\ proc'[q].at = "marked"
           \/ Mounts(q) \/ Unmarks(q)
           \/ Unmounts(q)
           \/ Removes(q)
    PROVE  Found(p)'
<1> SUFFICES ASSUME Is(p, "mount"), proc[p].at \in {"marked", "live"}
             PROVE  marker' = marker /\ (Live(p) => kernel'[proc[p].place] = p)
  BY Uncrossed DEF MInv, Found, Is, Live, At
<1>1. /\ proc[q].at \notin {"marked", "ending", "forgotten"} /\ proc'[q].at # "marked"
      /\ proc[p].place \in Places /\ marker = proc[p].place
      /\ Live(p) => kernel[proc[p].place] = p
  BY Uncrossed DEF MInv, Found, Placed, Is
<1>2. CASE UNCHANGED <<kernel, marker>>
  BY <1>1, <1>2
<1>3. CASE Unmounts(q)
  BY <1>1, <1>3 DEF Unmounts, disk
<1>4. CASE Removes(q)
  BY <1>1, <1>4 DEF Removes, At, disk
<1>5. CASE Mounts(q) \/ Unmarks(q)
  BY <1>1, <1>5 DEF Mounts, Unmarks, At
<1> QED
  BY <1>1, <1>2, <1>3, <1>4, <1>5

\* Its own.
LEMMA ItStaysFound ==
    ASSUME MInv, NEW p \in Processes, p \notin crossed,
           \/ ChecksPlace(p) \/ Marks(p) \/ Mounts(p) \/ Unmounts(p) \/ Unmarks(p)
           \/ Serves(p) \/ StartsEngine(p) \/ Exits(p) \/ Finishes(p)
           \/ Clears(p) \/ ClearsOn(p) \/ Removes(p) \/ LogsIn(p) \/ WritesFile(p) \/ Crash(p)
    PROVE  Found(p)'
<1>1. ASSUME NEW x \in Stage, Goes(p, x), x \notin {"marked", "live"} PROVE Found(p)'
  <2>1. proc'[p].at = x
    BY <1>1, GoingOn DEF MInv, Becomes
  <2> QED
    BY <1>1, <2>1 DEF Found
<1>2. CASE Marks(p)
  <2>1. proc'[p].at = "marked" /\ proc'[p].place = proc[p].place /\ marker' = proc[p].place
    BY <1>2, GoingOn DEF MInv, Becomes, Marks, Stage
  <2> QED
    BY <2>1 DEF Found, Live, At
<1>3. CASE Mounts(p)
  <2>1. /\ proc'[p].at = "live" /\ proc'[p].place = proc[p].place /\ proc'[p].role = proc[p].role
        /\ marker' = marker /\ kernel' = [kernel EXCEPT ![proc[p].place] = p] /\ proc[p].at = "marked"
    BY <1>3, GoingOn DEF MInv, Becomes, Mounts, Stage, disk, At
  <2>2. proc[p].place \in Places
    BY <2>1 DEF MInv, Placed
  <2>3. kernel'[proc[p].place] = p
    BY <2>1, <2>2 DEF MInv, Typed
  <2> QED
    BY <2>1, <2>3 DEF MInv, Found, Is
<1>4. CASE StartsEngine(p)
  <2>1. proc'[p].role = "serve"
    BY <1>4, GoingOn DEF MInv, Becomes, StartsEngine, Stage, Is
  <2> QED
    BY <2>1 DEF Found, Is
<1>5. CASE \/ ChecksPlace(p) \/ Unmounts(p) \/ Unmarks(p) \/ Serves(p) \/ Exits(p) \/ Finishes(p)
           \/ Clears(p) \/ ClearsOn(p) \/ Removes(p) \/ LogsIn(p) \/ WritesFile(p) \/ Crash(p)
  <2>1. \E x \in Stage : Goes(p, x) /\ x \notin {"marked", "live"}
    BY <1>5 DEF ChecksPlace, Unmounts, Unmarks, Serves, Exits, Finishes, Clears, ClearsOn, Removes,
       LogsIn, WritesFile, Crash, Stage
  <2> QED
    BY <1>1, <2>1
<1> QED
  BY <1>2, <1>3, <1>4, <1>5

LEMMA NextKeepsMounts == MInv /\ [Next]_vars => MInv'
<1> SUFFICES ASSUME MInv, [Next]_vars PROVE MInv'
  OBVIOUS
<1>0. Typed' /\ \A p \in Processes : Placed(p)'
  BY TypedStays, PlacesStay DEF MInv
<1>1. CASE UNCHANGED vars
  BY <1>0, <1>1 DEF MInv, vars, disk, Found, Crossed, Is, Live, At
<1>2. CASE Next
  <2>0. crossed' = crossed \cup Crossed'
    BY <1>2 DEF Next
  <2> SUFFICES ASSUME NEW p \in Processes, p \notin crossed' PROVE Found(p)'
    BY <1>0, <2>0 DEF MInv
  <2>1. p \notin crossed
    BY <2>0
  <2>2. ASSUME NEW q \in Processes, NEW role \in Roles, NEW place \in Places, Starts(q, role, place)
        PROVE  Found(p)'
    <3> DEFINE now == [role |-> role, at |-> "starting", place |-> place, base |-> NoDb, keep |-> {}]
    <3>1. /\ proc' = [proc EXCEPT ![q] = now] /\ now.at = "starting" /\ UNCHANGED <<kernel, marker>>
      BY <2>2 DEF Starts, disk
    <3> HIDE DEF now
    <3>2. CASE p = q
      BY <3>1, <3>2 DEF MInv, Typed, Found
    <3>3. CASE p # q
      <4>1. proc'[p] = proc[p]
        BY <3>1, <3>3 DEF MInv, Typed
      <4> QED
        BY <1>0, <2>0, <3>1, <3>3, <4>1, OthersLeaveIt
    <3> QED
      BY <3>2, <3>3
  <2>3. ASSUME NEW q \in Processes, ReadsOwed(q) \/ Wipes(q) PROVE Found(p)'
    <3>1. \E x \in {"wiping", "opened"} : Becomes(q, x)
      BY <2>3, StartsUp DEF MInv
    <3>2. UNCHANGED <<kernel, marker>>
      BY <2>3, StartsUp DEF MInv, disk
    <3>3. CASE p = q
      BY <3>1, <3>3 DEF Found, Becomes
    <3>4. CASE p # q
      BY <1>0, <2>0, <3>1, <3>2, <3>4, OthersLeaveIt DEF Becomes
    <3> QED
      BY <3>3, <3>4
  <2>4. ASSUME NEW q \in Processes,
               \/ ChecksPlace(q) \/ Marks(q) \/ Mounts(q) \/ Unmounts(q) \/ Unmarks(q)
               \/ Serves(q) \/ StartsEngine(q) \/ Exits(q) \/ Finishes(q)
               \/ Clears(q) \/ ClearsOn(q) \/ Removes(q) \/ LogsIn(q) \/ WritesFile(q) \/ Crash(q)
        PROVE  Found(p)'
    <3>1. CASE p = q
      BY <2>1, <2>4, <3>1, ItStaysFound
    <3>2. CASE p # q
      <4>1. \E x \in Stage : Goes(q, x)
        BY <2>4 DEF ChecksPlace, Marks, Mounts, Unmounts, Unmarks, Serves, StartsEngine, Exits, Finishes,
           Clears, ClearsOn, Removes, LogsIn, WritesFile, Crash, Stage
      <4>2. proc'[p] = proc[p]
        BY <3>2, <4>1, GoingOn DEF MInv, Becomes
      <4>3. Marks(q) => proc'[q].at = "marked"
        BY GoingOn DEF MInv, Marks, Becomes, Stage
      <4>4. \/ UNCHANGED <<kernel, marker>> \/ Marks(q) \/ Mounts(q) \/ Unmarks(q) \/ Unmounts(q) \/ Removes(q)
        BY <2>4 DEF ChecksPlace, Serves, StartsEngine, Exits, Finishes, Clears, ClearsOn, LogsIn, WritesFile,
           Crash, disk
      <4> QED
        BY <1>0, <2>0, <3>2, <4>2, <4>3, <4>4, OthersLeaveIt
    <3> QED
      BY <3>1, <3>2
  <2>5. ASSUME NEW q \in Processes, Writes(q) \/ Publishes(q) \/ Uploads(q) PROVE Found(p)'
    <3>1. UNCHANGED <<proc, kernel, marker>>
      BY <2>5 DEF Writes, Publishes, Uploads
    <3> QED
      BY <2>1, <3>1 DEF MInv, Found, Is, Live, At
  <2>6. ASSUME NEW l \in Places, SomebodyUnmounts(l) PROVE Found(p)'
    <3>1. UNCHANGED <<proc, marker>> /\ At(kernel[l], "over") /\ kernel' = [kernel EXCEPT ![l] = Nobody]
      BY <2>6 DEF SomebodyUnmounts, disk
    <3>2. Live(p) => ~At(p, "over")
      BY DEF Live, At
    <3> QED
      BY <2>1, <3>1, <3>2 DEF MInv, Typed, Found, Is, Live, At
  <2> QED
    BY <1>2, <2>2, <2>3, <2>4, <2>5, <2>6 DEF Next, Acts
<1> QED
  BY <1>1, <1>2

LEMMA InitMInv == Init => MInv
<1> SUFFICES ASSUME Init PROVE MInv
  OBVIOUS
<1>1. Typed /\ \A p \in Processes : proc[p].at = "off"
  BY InitTyped DEF Init
<1> QED
  BY <1>1 DEF MInv, Placed, Found, Crossed

\* Wherever it is mounted and whatever the dead have left in the kernel's table
\* and beside the state: a live mount is found by serve and by cache clear
\* (main.rs live_mount), unless another mount was between its look and its
\* mark's end beside it, or the account was being removed.
THEOREM EveryLiveMountIsSeen == Spec => []LiveMountsAreSeen
<1>1. MInv => LiveMountsAreSeen
  <2> SUFFICES ASSUME MInv, NEW p \in Processes, p \notin crossed, Is(p, "mount"), Live(p)
               PROVE  LiveMount # {}
    BY DEF LiveMountsAreSeen
  <2>1. /\ marker = proc[p].place /\ kernel[proc[p].place] = p /\ proc[p].place \in Places
    BY DEF MInv, Found, Placed, Live, At
  <2>2. p # Nobody /\ proc[p].place # NoPlace
    BY <2>1, NeighboursAssumption
  <2>3. proc[p].place \in LiveMount
    BY <2>1, <2>2 DEF LiveMount, Looked, Marked, Mounted
  <2> QED
    BY <2>3
<1> QED
  BY <1>1, InitMInv, NextKeepsMounts, PTL DEF Spec

-----------------------------------------------------------------------------
(* Logins. While a login is between the keyring and the file the keyring    *)
(* may already be the new one's; whoever is on the way to the file with its *)
(* password entrusted has an entry there. This needs none of the above.     *)

LoggingIn(p) == Is(p, "login") /\ ~At(p, "over")

LInv ==
    /\ Typed
    /\ \A p \in Processes : /\ proc[p].at \in {"stored", "entrusted"} => Is(p, "login")
                            /\ At(p, "off") => Is(p, "none")
    /\ \A p, q \in Processes : LoggingIn(p) /\ LoggingIn(q) => p = q
    /\ logins \in Nat \ {0}
    /\ LoginsAreWhole
    /\ \/ \E p \in Processes : Is(p, "remove")
       \/ /\ file.login # 0
          /\ \A p \in Processes : At(p, "entrusted") => entry = logins

LEMMA StartsKeepsLogins ==
    ASSUME LInv, Typed', NEW p \in Processes, NEW role \in Roles, NEW place \in Places,
           Starts(p, role, place)
    PROVE  LInv'
<1> DEFINE now == [role |-> role, at |-> "starting", place |-> place, base |-> NoDb, keep |-> {}]
<1>1. /\ proc' = [proc EXCEPT ![p] = now] /\ now.at = "starting" /\ now.role = role
      /\ UNCHANGED <<file, entry, logins, cut>> /\ At(p, "off")
      /\ role = "login" => \A q \in Processes : Is(q, "login") => At(q, "over")
  BY DEF Starts, creds
<1> HIDE DEF now
<1>2. proc'[p] = now /\ \A q \in Processes \ {p} : proc'[q] = proc[q]
  BY <1>1 DEF LInv, Typed
<1>3. \A q, r \in Processes : LoggingIn(q)' /\ LoggingIn(r)' => q = r
  BY <1>1, <1>2 DEF LInv, LoggingIn, Is, At
<1>4. \A q \in Processes : /\ proc'[q].at \in {"stored", "entrusted"} => Is(q, "login")'
                           /\ At(q, "off")' => Is(q, "none")'
  BY <1>1, <1>2 DEF LInv, Is, At
<1>5. /\ \A q \in Processes : /\ proc[q].at \in {"stored", "entrusted"} => proc'[q].at \in {"stored", "entrusted"}
                              /\ At(q, "entrusted")' => At(q, "entrusted")
      /\ (\E q \in Processes : Is(q, "remove")) => \E q \in Processes : Is(q, "remove")'
  BY <1>1, <1>2 DEF LInv, At, Is
<1>6. LoginsAreWhole'
  BY <1>1, <1>5 DEF LInv, LoginsAreWhole, Loads
<1> QED
  BY <1>1, <1>3, <1>4, <1>5, <1>6 DEF LInv

\* Nobody's credentials are touched.
LEMMA MovingOnKeepsLogins ==
    ASSUME LInv, Typed', NEW p \in Processes, NEW x \in Stage \ {"off", "stored", "entrusted"},
           Becomes(p, x), UNCHANGED <<file, entry, logins>>,
           proc[p].at # "over", cut \/ proc[p].at \in {"stored", "entrusted"} => cut'
    PROVE  LInv'
<1>1. \A q \in Processes : /\ \/ proc[q].at \in {"stored", "entrusted"} => proc'[q].at \in {"stored", "entrusted"}
                              \/ cut'
                           /\ proc'[q].at \in {"stored", "entrusted"} => proc[q].at \in {"stored", "entrusted"}
                           /\ At(q, "entrusted")' => At(q, "entrusted")
                           /\ Is(q, "remove")' <=> Is(q, "remove")
                           /\ LoggingIn(q)' => LoggingIn(q)
                           /\ Is(q, "login")' <=> Is(q, "login")
                           /\ At(q, "off")' => At(q, "off") /\ proc'[q] = proc[q]
  BY DEF Becomes, At, Is, LoggingIn
<1>2. LoginsAreWhole'
  BY <1>1 DEF LInv, LoginsAreWhole, Loads
<1>3. \A q, r \in Processes : LoggingIn(q)' /\ LoggingIn(r)' => q = r
  BY <1>1 DEF LInv
<1>4. \A q \in Processes : At(q, "off")' => Is(q, "none")'
  BY <1>1 DEF LInv, Is
<1> QED
  BY <1>1, <1>2, <1>3, <1>4 DEF LInv

LEMMA RemovesKeepsLogins ==
    ASSUME LInv, Typed', NEW p \in Processes, Removes(p)
    PROVE  LInv'
<1>1. /\ Is(p, "remove") /\ logins' = logins /\ proc[p].at # "over"
      /\ \E x \in {"forgotten", "over"} : Goes(p, x)
  BY DEF Removes, At
<1>2. PICK x \in {"forgotten", "over"} : Becomes(p, x)
  BY <1>1, GoingOn DEF LInv, Stage
<1>3. \A q \in Processes : /\ LoggingIn(q)' => LoggingIn(q)
                           /\ proc'[q].at \in {"stored", "entrusted"} => proc'[q] = proc[q]
                           /\ At(q, "off")' => proc'[q] = proc[q]
  BY <1>1, <1>2 DEF Becomes, At, Is, LoggingIn
<1>4. Is(p, "remove")'
  BY <1>1, <1>2 DEF Becomes, Is
<1>5. \A q, r \in Processes : LoggingIn(q)' /\ LoggingIn(r)' => q = r
  BY <1>3 DEF LInv
<1>6. \A q \in Processes : /\ proc'[q].at \in {"stored", "entrusted"} => Is(q, "login")'
                           /\ At(q, "off")' => Is(q, "none")'
  BY <1>3 DEF LInv, Is, At
<1> QED
  BY <1>1, <1>4, <1>5, <1>6 DEF LInv, LoginsAreWhole

LEMMA LogsInKeepsLogins ==
    ASSUME LInv, Typed', NEW p \in Processes, LogsIn(p)
    PROVE  LInv'
<1>1. /\ Is(p, "login") /\ At(p, "starting") /\ logins' = logins + 1 /\ file' = file
      /\ logins \in Nat \ {0} /\ Typed
  BY DEF LogsIn, LInv
<1>2. PICK x \in {"stored", "entrusted"} : Goes(p, x) /\ (x = "entrusted" => entry' = logins + 1)
  <2>1. PICK outcome \in {"file", "keeps", "forgets", "locked"} :
          /\ entry' = Entry(outcome)
          /\ Goes(p, IF InKeyring(outcome) THEN "entrusted" ELSE "stored")
    BY DEF LogsIn
  <2>2. CASE outcome = "keeps"
    BY <2>1, <2>2 DEF Entry, InKeyring
  <2>3. CASE outcome # "keeps"
    BY <2>1, <2>3 DEF InKeyring
  <2> QED
    BY <2>2, <2>3
<1>3. Becomes(p, x)
  BY <1>1, <1>2, GoingOn DEF Stage
<1>4. \A q \in Processes \ {p} : ~LoggingIn(q) /\ proc'[q] = proc[q]
  BY <1>1, <1>3 DEF LInv, LoggingIn, Is, At, Becomes
<1>5. \A q \in Processes \ {p} : ~LoggingIn(q)' /\ proc[q].at \notin {"stored", "entrusted"}
  BY <1>4 DEF LInv, LoggingIn, Is, At
<1>6. /\ \A q, r \in Processes : LoggingIn(q)' /\ LoggingIn(r)' => q = r
      /\ \A q \in Processes : /\ proc'[q].at \in {"stored", "entrusted"} => Is(q, "login")'
                              /\ At(q, "off")' => Is(q, "none")'
      /\ proc'[p].at \in {"stored", "entrusted"}
  BY <1>1, <1>2, <1>3, <1>4, <1>5 DEF LInv, Becomes, Is, At
<1>7. LoginsAreWhole'
  BY <1>6 DEF LoginsAreWhole
<1>8. \/ \E q \in Processes : Is(q, "remove")'
      \/ file'.login # 0 /\ \A q \in Processes : At(q, "entrusted")' => entry' = logins'
  <2>1. CASE \E q \in Processes : Is(q, "remove")
    BY <2>1, <1>3 DEF Becomes, Is
  <2>2. CASE ~\E q \in Processes : Is(q, "remove")
    BY <1>1, <1>2, <1>3, <1>4, <1>5, <2>2 DEF LInv, Becomes, At
  <2> QED
    BY <2>1, <2>2
<1> QED
  BY <1>1, <1>6, <1>7, <1>8 DEF LInv

LEMMA WritesFileKeepsLogins ==
    ASSUME LInv, Typed', NEW p \in Processes, WritesFile(p)
    PROVE  LInv'
<1>1. /\ proc[p].at \in {"stored", "entrusted"} /\ Goes(p, "over")
      /\ file' = [login |-> logins, where |-> IF At(p, "stored") THEN "file" ELSE "keyring"]
      /\ UNCHANGED <<entry, logins>>
      /\ logins \in Nat \ {0} /\ Typed /\ LoggingIn(p)
  BY DEF WritesFile, LInv, LoggingIn, At
<1>2. Becomes(p, "over")
  BY <1>1, GoingOn DEF Stage
<1>3. \A q \in Processes \ {p} : proc'[q] = proc[q]
  BY <1>2 DEF Becomes
<1>4. /\ \A q, r \in Processes : LoggingIn(q)' /\ LoggingIn(r)' => q = r
      /\ \A q \in Processes : /\ proc'[q].at \in {"stored", "entrusted"} => Is(q, "login")'
                              /\ At(q, "off")' => Is(q, "none")'
      /\ \A q \in Processes : At(q, "entrusted")' => At(q, "entrusted")
  BY <1>2, <1>3 DEF LInv, Becomes, Is, At, LoggingIn
<1>5. CASE \E q \in Processes : Is(q, "remove")
  <2>1. \E q \in Processes : Is(q, "remove")'
    BY <1>2, <1>5 DEF Becomes, Is
  <2> QED
    BY <1>1, <1>4, <2>1 DEF LInv, LoginsAreWhole
<1>6. CASE ~\E q \in Processes : Is(q, "remove")
  <2>1. At(p, "entrusted") => entry = logins
    BY <1>6 DEF LInv
  <2>2. file'.login = logins /\ (file'.where = "keyring" <=> ~At(p, "stored"))
                             /\ (file'.where = "file" <=> At(p, "stored"))
    BY <1>1
  <2>3. LoginsAreWhole'
    BY <1>1, <2>1, <2>2 DEF LoginsAreWhole, Loads, At
  <2>4. file'.login # 0 /\ \A q \in Processes : At(q, "entrusted")' => entry' = logins'
    BY <1>1, <1>4, <1>6, <2>2 DEF LInv
  <2> QED
    BY <1>1, <1>4, <2>3, <2>4 DEF LInv
<1> QED
  BY <1>5, <1>6

LEMMA NextKeepsLogins == LInv /\ [Next]_vars => LInv'
<1> SUFFICES ASSUME LInv, [Next]_vars PROVE LInv'
  OBVIOUS
<1>0. Typed /\ Typed'
  BY TypedStays DEF LInv
<1>1. ASSUME NEW p \in Processes, NEW role \in Roles, NEW place \in Places,
             Starts(p, role, place)
      PROVE  LInv'
  BY <1>0, <1>1, StartsKeepsLogins
<1>2. ASSUME NEW p \in Processes,
             \/ ReadsOwed(p) \/ Wipes(p)
             \/ ChecksPlace(p) \/ Marks(p) \/ Mounts(p) \/ Unmounts(p) \/ Unmarks(p)
             \/ Serves(p) \/ StartsEngine(p) \/ Exits(p) \/ Finishes(p)
             \/ Clears(p) \/ ClearsOn(p) \/ Crash(p)
      PROVE  LInv'
  <2>1. PICK x \in Stage \ {"off", "stored", "entrusted"} : Becomes(p, x)
    BY <1>0, <1>2, EverybodyMovesOn
  <2>2. /\ UNCHANGED <<file, entry, logins>>
        /\ proc[p].at # "over" /\ (cut \/ proc[p].at \in {"stored", "entrusted"} => cut')
    BY <1>0, <1>2, EverybodyMovesOn
  <2> QED
    BY <1>0, <2>1, <2>2, MovingOnKeepsLogins
<1>3. ASSUME NEW p \in Processes, Removes(p) \/ LogsIn(p) \/ WritesFile(p) PROVE LInv'
  BY <1>0, <1>3, RemovesKeepsLogins, LogsInKeepsLogins, WritesFileKeepsLogins
<1>4. CASE \/ \E p \in Processes : Writes(p) \/ Publishes(p) \/ Uploads(p)
           \/ \E l \in Places : SomebodyUnmounts(l)
           \/ UNCHANGED vars
  <2>1. UNCHANGED <<proc, file, entry, logins, cut>>
    BY <1>4 DEF Writes, Publishes, Uploads, SomebodyUnmounts, vars, creds
  <2> QED
    BY <1>0, <2>1 DEF LInv, LoginsAreWhole, Loads, LoggingIn, Is, At
<1> QED
  BY <1>1, <1>2, <1>3, <1>4 DEF Next, Acts

LEMMA InitLInv == Init => LInv
<1> SUFFICES ASSUME Init PROVE LInv
  OBVIOUS
<1>1. /\ Typed /\ \A p \in Processes : proc[p].at = "off" /\ proc[p].role = "none"
      /\ file = [login |-> 1, where |-> "file"] /\ logins = 1
  BY InitTyped DEF Init
<1> QED
  BY <1>1 DEF LInv, LoginsAreWhole, Loads, LoggingIn, Is, At

\* A login stays until another one has taken its place, and the password it
\* uses is its own (credentials.rs store_password and write, keyring.rs store):
\* whatever the keyring does with what it is given, and whoever is killed; what a
\* login that was killed between the keyring and the file leaves behind, the next
\* one that comes to its end replaces.
THEOREM EveryLoginIsWhole == Spec => []LoginsAreWhole
<1>1. LInv => LoginsAreWhole
  BY DEF LInv
<1> QED
  BY <1>1, InitLInv, NextKeepsLogins, PTL DEF Spec
-----------------------------------------------------------------------------
(* Substrate.                                                              *)

Refreshes == {Refresh(o) : o \in Objects}
Awaited   == {"flow", "beside"}

\* What is queued for the threads, and what they have in hand: only the net
\* pool's second tier, and its workers, know of refreshes.
IsWork(j)    == j.deliver \in Awaited /\ j.object \in Objects
WorkQueue(q) == \E S : q \in Seq(S) /\ \A j \in S : IsWork(j)
ReportsOf(o) == [type : {"detached"}, object : {o}, flow : {None}, ok : BOOLEAN]
IsNews(e)    == /\ e.type \in {"request", "abandon", "flow", "beside", "detached", "stop"}
                /\ e.type = "detached" => \E o \in Objects : e \in ReportsOf(o)
                /\ e.type = "flow" => e.object \in Objects
                /\ e.type = "request" => e.request.object \in Objects
Channel(q)   == \E S : q \in Seq(S) /\ \A e \in S : IsNews(e)
Resting      == {Asking, [at |-> "asleep"], [at |-> "gone"]}
AtWork(w)    == \E j : /\ worker[w] = [at |-> "busy", job |-> j]
                       /\ IsWork(j) \/ (j \in Refreshes /\ w \in NetWorkers)
Crew ==
    /\ worker = [w \in Workers |-> worker[w]]
    /\ \A w \in Workers : worker[w] \in Resting \/ AtWork(w)
Threads ==
    /\ running \in BOOLEAN /\ \A r \in drafts : r.object \in Objects
    /\ WorkQueue(db) /\ WorkQueue(net) /\ background \in Seq(Refreshes) /\ Channel(events)
    /\ Crew

\* The places of what is in M, and where the refresh of o can be.
Spots(s, M) == {n \in DOMAIN s : s[n] \in M}
Lone(P)  == \E x : P = {x}

Waiting(o) == Spots(background, {Refresh(o)})
Running(o) == {w \in NetWorkers : worker[w].at = "busy" /\ worker[w].job = Refresh(o)}
Told(o)    == Spots(events, ReportsOf(o))

Counted(o) ==
    IF o \in refreshing
    THEN \/ Lone(Waiting(o)) /\ Running(o) = {} /\ Told(o) = {}
         \/ Waiting(o) = {} /\ Lone(Running(o)) /\ Told(o) = {}
         \/ Waiting(o) = {} /\ Running(o) = {} /\ Lone(Told(o))
    ELSE Waiting(o) = {} /\ Running(o) = {} /\ Told(o) = {}

EngineInv == Threads /\ (running => \A o \in Objects : Counted(o))

-----------------------------------------------------------------------------
LEMMA SpotsAfterAppend ==
    ASSUME NEW S, NEW s \in Seq(S), NEW e, NEW M
    PROVE  /\ e \notin M => Spots(Append(s, e), M) = Spots(s, M)
           /\ e \in M /\ Spots(s, M) = {} => Lone(Spots(Append(s, e), M))
<1> DEFINE t == Append(s, e)
<1>1. /\ Len(s) \in Nat /\ DOMAIN s = 1..Len(s)
      /\ DOMAIN t = 1..(Len(s) + 1)
      /\ \A n \in 1..Len(s) : t[n] = s[n]
      /\ t[Len(s) + 1] = e
  <2>1. s \in Seq(S \cup {e})
    OBVIOUS
  <2> QED
    BY <2>1, AppendProperties, LenProperties
<1> HIDE DEF t
<1>2. ASSUME e \notin M PROVE Spots(t, M) = Spots(s, M)
  BY <1>1, <1>2 DEF Spots
<1>3. ASSUME e \in M, Spots(s, M) = {} PROVE Spots(t, M) = {Len(s) + 1}
  BY <1>1, <1>3 DEF Spots
<1> QED
  BY <1>2, <1>3 DEF Lone, t

LEMMA SpotsAfterTail ==
    ASSUME NEW S, NEW s \in Seq(S), s # <<>>, NEW M
    PROVE  /\ Spots(s, M) = {} => Head(s) \notin M /\ Spots(Tail(s), M) = {}
           /\ Lone(Spots(s, M)) /\ Head(s) \notin M => Lone(Spots(Tail(s), M))
           /\ Lone(Spots(s, M)) /\ Head(s) \in M => Spots(Tail(s), M) = {}
<1> DEFINE t == Tail(s)
<1>1. /\ Len(s) \in Nat /\ Len(s) >= 1 /\ DOMAIN s = 1..Len(s) /\ Head(s) = s[1]
      /\ DOMAIN t = 1..(Len(s) - 1)
      /\ \A n \in 1..(Len(s) - 1) : t[n] = s[n + 1]
  BY HeadTailProperties, LenProperties, EmptySeq
<1> HIDE DEF t
<1>2. \A n : n \in Spots(t, M) => n + 1 \in Spots(s, M) /\ n \in Nat /\ n >= 1
  BY <1>1 DEF Spots
<1>3. \A n \in Spots(s, M) : n \in Nat /\ n >= 1 /\ (n # 1 => n - 1 \in Spots(t, M))
  BY <1>1 DEF Spots
<1>4. Head(s) \in M <=> 1 \in Spots(s, M)
  BY <1>1 DEF Spots
<1>5. ASSUME Lone(Spots(s, M)), Head(s) \notin M PROVE Lone(Spots(t, M))
  <2> PICK x : Spots(s, M) = {x}
    BY <1>5 DEF Lone
  <2>1. x \in Nat /\ x # 1 /\ x - 1 \in Spots(t, M)
    BY <1>3, <1>4, <1>5
  <2>2. \A n \in Spots(t, M) : n = x - 1
    BY <1>2, <2>1
  <2>3. Spots(t, M) = {x - 1}
    BY <2>1, <2>2
  <2> QED
    BY <2>3 DEF Lone
<1>6. ASSUME Lone(Spots(s, M)), Head(s) \in M PROVE Spots(t, M) = {}
  <2>1. Spots(s, M) = {1}
    BY <1>4, <1>6 DEF Lone
  <2>2. \A n \in Spots(t, M) : n + 1 = 1 /\ n \in Nat /\ n >= 1
    BY <1>2, <2>1
  <2> QED
    BY <2>2
<1>7. ASSUME Spots(s, M) = {} PROVE Head(s) \notin M /\ Spots(t, M) = {}
  BY <1>2, <1>4, <1>7
<1> QED
  BY <1>5, <1>6, <1>7 DEF t


LEMMA RefreshIsDetached ==
    ASSUME NEW o \in Objects
    PROVE  /\ Refresh(o) \in Refreshes /\ Refresh(o).deliver = "detached" /\ Refresh(o).object = o
           /\ Refresh(o).flow = None /\ \A k : Refresh(o) = Refresh(k) => k = o
           /\ \A j : IsWork(j) => j # Refresh(o)
  BY DEF Refresh, Refreshes, Awaited, IsWork

LEMMA JobsAreAwaited ==
    ASSUME NEW o \in Objects, NEW f
    PROVE  IsWork(JobOf(o, f))
  BY DEF JobOf, Awaited, IsWork

LEMMA WorkComes ==
    ASSUME NEW q, WorkQueue(q)
    PROVE  /\ WorkQueue(q \o <<>>) /\ q \o <<>> = q
           /\ \A j : IsWork(j) => WorkQueue(q \o <<j>>)
<1> PICK S : q \in Seq(S) /\ \A j \in S : IsWork(j)
  BY DEF WorkQueue
<1>1. q \o <<>> = q
  BY ConcatEmptySeq
<1>2. ASSUME NEW j, IsWork(j) PROVE WorkQueue(q \o <<j>>)
  <2> DEFINE U == S \cup {j}
  <2>1. q \in Seq(U) /\ <<j>> \in Seq(U)
    OBVIOUS
  <2>2. q \o <<j>> \in Seq(U)
    BY <2>1, ConcatProperties
  <2>3. \A x \in U : IsWork(x)
    BY <1>2
  <2> QED
    BY <2>2, <2>3 DEF WorkQueue
<1> QED
  BY <1>1, <1>2

LEMMA WorkGoes ==
    ASSUME NEW q, WorkQueue(q), q # <<>>
    PROVE  WorkQueue(Tail(q)) /\ IsWork(Head(q))
<1> PICK S : q \in Seq(S) /\ \A j \in S : IsWork(j)
  BY DEF WorkQueue
<1>1. Head(q) \in S /\ Tail(q) \in Seq(S)
  BY HeadTailProperties
<1> QED
  BY <1>1 DEF WorkQueue

LEMMA NewsComes ==
    ASSUME NEW q, Channel(q), NEW e
    PROVE  /\ IsNews(e) => Channel(Append(q, e))
           /\ e.type # "detached" => \A o : e \notin ReportsOf(o)
           /\ \A M : /\ e \notin M => Spots(Append(q, e), M) = Spots(q, M)
                     /\ e \in M /\ Spots(q, M) = {} => Lone(Spots(Append(q, e), M))
<1> PICK S : q \in Seq(S) /\ \A x \in S : IsNews(x)
  BY DEF Channel
<1> DEFINE U == S \cup {e}
<1>1. Append(q, e) \in Seq(U)
  <2>1. q \in Seq(U)
    OBVIOUS
  <2> QED
    BY <2>1, AppendProperties
<1>2. ASSUME IsNews(e) PROVE Channel(Append(q, e))
  <2>1. \A x \in U : IsNews(x)
    BY <1>2
  <2> QED
    BY <1>1, <2>1 DEF Channel
<1>3. e.type # "detached" => \A o : e \notin ReportsOf(o)
  BY DEF ReportsOf
<1>4. \A M : /\ e \notin M => Spots(Append(q, e), M) = Spots(q, M)
             /\ e \in M /\ Spots(q, M) = {} => Lone(Spots(Append(q, e), M))
  BY SpotsAfterAppend
<1> QED
  BY <1>2, <1>3, <1>4

LEMMA NewsGoes ==
    ASSUME NEW q, Channel(q), q # <<>>
    PROVE  /\ Channel(Tail(q))
           /\ IsNews(Head(q))
           /\ \A M : /\ Spots(q, M) = {} => Head(q) \notin M /\ Spots(Tail(q), M) = {}
                     /\ Lone(Spots(q, M)) /\ Head(q) \notin M => Lone(Spots(Tail(q), M))
                     /\ Lone(Spots(q, M)) /\ Head(q) \in M => Spots(Tail(q), M) = {}
<1> PICK S : q \in Seq(S) /\ \A x \in S : IsNews(x)
  BY DEF Channel
<1>1. Head(q) \in S /\ Tail(q) \in Seq(S)
  BY HeadTailProperties
<1>2. \A M : /\ Spots(q, M) = {} => Head(q) \notin M /\ Spots(Tail(q), M) = {}
             /\ Lone(Spots(q, M)) /\ Head(q) \notin M => Lone(Spots(Tail(q), M))
             /\ Lone(Spots(q, M)) /\ Head(q) \in M => Spots(Tail(q), M) = {}
  BY SpotsAfterTail
<1>3. Channel(Tail(q))
  BY <1>1 DEF Channel
<1> QED
  BY <1>1, <1>2, <1>3

\* What a refresh joins, and what it leaves.
LEMMA BacklogComes ==
    ASSUME NEW q \in Seq(Refreshes), NEW r \in Refreshes
    PROVE  /\ q \o <<>> = q /\ q \o <<r>> \in Seq(Refreshes)
           /\ \A M : /\ r \notin M => Spots(q \o <<r>>, M) = Spots(q, M)
                     /\ r \in M /\ Spots(q, M) = {} => Lone(Spots(q \o <<r>>, M))
<1>1. Append(q, r) = q \o <<r>> /\ Append(q, r) \in Seq(Refreshes)
  BY AppendIsConcat, AppendProperties
<1>2. q \o <<>> = q
  BY ConcatEmptySeq
<1>3. \A M : /\ r \notin M => Spots(Append(q, r), M) = Spots(q, M)
             /\ r \in M /\ Spots(q, M) = {} => Lone(Spots(Append(q, r), M))
  BY SpotsAfterAppend
<1> QED
  BY <1>1, <1>2, <1>3

-----------------------------------------------------------------------------
(* Workers who wake up have nothing in hand. *)
LEMMA WakingUp ==
    ASSUME Crew, NotifyOne \/ NotifyAll \/ UNCHANGED worker
    PROVE  Crew' /\ \A o : Running(o)' = Running(o)
<1>1. \A w \in Asleep : w \in Workers /\ worker[w] = [at |-> "asleep"]
  <2> TAKE w \in Asleep
  <2>1. w \in Workers /\ worker[w].at = "asleep"
    BY DEF Asleep, Workers
  <2>2. ASSUME AtWork(w) PROVE FALSE
    <3>1. PICK j : worker[w] = [at |-> "busy", job |-> j]
      BY <2>2 DEF AtWork
    <3>2. worker[w].at = "busy"
      BY <3>1
    <3> QED
      BY <2>1, <3>2
  <2>3. worker[w] \in Resting
    BY <2>1, <2>2 DEF Crew
  <2> QED
    BY <2>1, <2>3 DEF Resting, Asking
<1>2. ASSUME NEW S \in SUBSET Asleep, worker' = [w \in Workers |-> IF w \in S THEN Asking ELSE worker[w]]
      PROVE  Crew' /\ \A o : Running(o)' = Running(o)
  <2>1. \A w \in Workers : worker'[w] = IF w \in S THEN Asking ELSE worker[w]
    BY <1>2
  <2>2. worker' = [w \in Workers |-> worker'[w]]
    BY <1>2
  <2>3. \A w \in Workers : (worker[w] \in Resting \/ AtWork(w)) => (worker'[w] \in Resting \/ AtWork(w)')
    BY <2>1 DEF Resting, AtWork
  <2>4. \A w \in NetWorkers : worker[w].at = "busy" => w \notin S
    BY <1>1
  <2>5. \A w \in NetWorkers : worker'[w].at = "busy" => w \notin S
    BY <2>1 DEF Workers, Asking
  <2>6. \A o : Running(o)' = Running(o)
    <3> TAKE o
    <3>1. \A w \in NetWorkers : w \in Running(o)' <=> w \in Running(o)
      BY <2>1, <2>4, <2>5 DEF Running, Workers
    <3> QED
      BY <3>1 DEF Running
  <2> QED
    BY <2>2, <2>3, <2>6 DEF Crew
<1>3. CASE NotifyOne
  <2>1. CASE Asleep = {}
    <3>1. worker' = worker
      BY <1>3, <2>1 DEF NotifyOne
    <3> DEFINE S == {}
    <3>2. S \in SUBSET Asleep
      OBVIOUS
    <3>3. worker' = [w \in Workers |-> IF w \in S THEN Asking ELSE worker[w]]
      BY <3>1 DEF Crew
    <3> HIDE DEF S
    <3> QED
      BY <1>2, <3>2, <3>3
  <2>2. CASE Asleep # {}
    <3> PICK v \in Asleep : worker' = [worker EXCEPT ![v].at = "asking"]
      BY <1>3, <2>2 DEF NotifyOne
    <3>1. worker[v] = [at |-> "asleep"] /\ v \in Workers
      BY <1>1
    <3>2. [worker[v] EXCEPT !.at = "asking"] = Asking
      BY <3>1 DEF Asking
    <3>3. worker' = [worker EXCEPT ![v] = Asking]
      BY <3>2
    <3>4. worker' = [w \in Workers |-> IF w \in {v} THEN Asking ELSE worker[w]]
      BY <3>1, <3>3 DEF Crew
    <3> QED
      BY <1>2, <3>4
  <2> QED
    BY <2>1, <2>2
<1>4. CASE NotifyAll
  BY <1>2, <1>4 DEF NotifyAll
<1>5. CASE UNCHANGED worker
  BY <1>5 DEF Crew, AtWork, Running
<1> QED
  BY <1>3, <1>4, <1>5

\* A worker that puts its job down, and one that takes one up.
LEMMA PutsDown ==
    ASSUME Crew, NEW w \in Workers, NEW r \in Resting, worker' = [worker EXCEPT ![w] = r]
    PROVE  Crew' /\ \A o : Running(o)' = Running(o) \ {w}
<1>1. /\ worker' = [v \in Workers |-> worker'[v]]
      /\ \A v \in Workers : worker'[v] = IF v = w THEN r ELSE worker[v]
  BY DEF Crew
<1>2. r.at # "busy"
  BY DEF Resting, Asking
<1>3. Crew'
  BY <1>1 DEF Crew, AtWork, Resting
<1>4. ASSUME NEW o PROVE Running(o)' = Running(o) \ {w}
  <2>1. \A v \in NetWorkers : v \in Running(o)' <=> v \in Running(o) /\ v # w
    BY <1>1, <1>2 DEF Running, Workers
  <2> QED
    BY <2>1 DEF Running
<1> QED
  BY <1>3, <1>4

LEMMA TakesUp ==
    ASSUME Crew, NEW w \in Workers, worker[w].at # "busy", NEW j, Takes(w, j),
           IsWork(j) \/ (j \in Refreshes /\ w \in NetWorkers)
    PROVE  /\ Crew'
           /\ \A o : j # Refresh(o) => Running(o)' = Running(o)
           /\ \A o : j = Refresh(o) /\ w \in NetWorkers => Running(o)' = Running(o) \cup {w}
<1>1. /\ worker' = [v \in Workers |-> worker'[v]]
      /\ \A v \in Workers : worker'[v] = IF v = w THEN [at |-> "busy", job |-> j] ELSE worker[v]
  BY DEF Crew, Takes
<1>2. AtWork(w)'
  BY <1>1 DEF AtWork
<1>3. Crew'
  <2>1. \A v \in Workers \ {w} : worker'[v] \in Resting \/ AtWork(v)'
    BY <1>1 DEF Crew, AtWork, Resting
  <2> QED
    BY <1>1, <1>2, <2>1 DEF Crew
<1>4. \A o : \A v \in NetWorkers :
          v \in Running(o)' <=> v \in Running(o) \/ (v = w /\ j = Refresh(o))
  BY <1>1 DEF Running, Workers
<1>5. \A o : /\ j # Refresh(o) => Running(o)' = Running(o)
             /\ j = Refresh(o) /\ w \in NetWorkers => Running(o)' = Running(o) \cup {w}
  BY <1>4 DEF Running
<1> QED
  BY <1>3, <1>5

\* Whoever has a refresh in hand has the only one.
LEMMA InHand ==
    ASSUME Crew, NEW w \in Workers, worker[w].at = "busy"
    PROVE  \/ IsWork(worker[w].job) /\ \A o \in Objects : w \notin Running(o)
           \/ \E k \in Objects : /\ worker[w].job = Refresh(k) /\ w \in Running(k)
                               /\ \A o \in Objects \ {k} : w \notin Running(o)
<1>1. PICK j : /\ worker[w] = [at |-> "busy", job |-> j]
               /\ IsWork(j) \/ (j \in Refreshes /\ w \in NetWorkers)
  <2>1. worker[w] \notin Resting
    BY DEF Resting, Asking
  <2> QED
    BY <2>1 DEF Crew, AtWork
<1>2. worker[w].job = j
  BY <1>1
<1>3. CASE IsWork(j)
  <2>1. \A o \in Objects : j # Refresh(o)
    BY <1>3, RefreshIsDetached
  <2> QED
    BY <1>2, <1>3, <2>1 DEF Running
<1>4. CASE j \in Refreshes /\ w \in NetWorkers
  <2>1. PICK k \in Objects : j = Refresh(k)
    BY <1>4 DEF Refreshes
  <2>2. \A o \in Objects \ {k} : j # Refresh(o)
    BY <2>1, RefreshIsDetached
  <2> QED
    BY <1>2, <1>4, <2>1, <2>2 DEF Running
<1> QED
  BY <1>1, <1>3, <1>4

-----------------------------------------------------------------------------
(* The actions. *)

\* What leaves the pools and the channel to the decider alone.
LEMMA ElsewhereKeeps ==
    ASSUME EngineInv, \A r \in drafts' : r.object \in Objects, UNCHANGED <<running, events, refreshing, pools, worker>>
    PROVE  EngineInv'
  BY DEF EngineInv, Threads, Crew, AtWork, Counted, Waiting, Running, Told, pools

LEMMA TellsKeeps ==
    ASSUME EngineInv, NEW e, e.type # "detached", IsNews(e), events' = Append(events, e),
           \A r \in drafts' : r.object \in Objects,
           UNCHANGED <<running, refreshing, pools, worker>>
    PROVE  EngineInv'
<1>1. Channel(events') /\ \A o : Told(o)' = Told(o)
  BY NewsComes DEF EngineInv, Threads, Told
<1>2. Threads'
  BY <1>1 DEF EngineInv, Threads, Crew, AtWork, pools
<1>3. \A o : Waiting(o)' = Waiting(o) /\ Running(o)' = Running(o)
  BY DEF Waiting, Running, pools
<1> QED
  BY <1>1, <1>2, <1>3 DEF EngineInv, Counted

LEMMA CallersKeep ==
    ASSUME EngineInv,
           \/ \E k \in Kinds, o \in Objects : Parks(k, o)
           \/ \E r \in drafts : Submits(r)
           \/ \E i \in parked : GivesUp(i)
           \/ Delivers \/ PumpEnds \/ Stops
    PROVE  EngineInv'
<1>1. ASSUME \E k \in Kinds, o \in Objects : Parks(k, o) PROVE EngineInv'
  BY <1>1, ElsewhereKeeps DEF Parks, decider, EngineInv, Threads
<1>2. ASSUME NEW r \in drafts, Submits(r) PROVE EngineInv'
  <2> DEFINE e == [type |-> "request", request |-> r]
  <2>1. UNCHANGED <<running, refreshing, pools, worker>>
    BY <1>2 DEF Submits, decider
  <2>2. events' = Append(events, e) \/ UNCHANGED events
    BY <1>2 DEF Submits
  <2>3. r.object \in Objects /\ \A x \in drafts' : x.object \in Objects
    BY <1>2 DEF Submits, EngineInv, Threads
  <2>4. e.type # "detached" /\ IsNews(e)
    BY <2>3 DEF IsNews
  <2> HIDE DEF e
  <2> QED
    BY <2>1, <2>2, <2>3, <2>4, ElsewhereKeeps, TellsKeeps
<1>3. ASSUME NEW i \in parked, GivesUp(i) PROVE EngineInv'
  <2> DEFINE e == [type |-> "abandon", id |-> i]
  <2>1. UNCHANGED <<running, refreshing, pools, worker>> /\ events' = Append(events, e) /\ drafts' = drafts
    BY <1>3 DEF GivesUp, decider
  <2>2. e.type # "detached" /\ IsNews(e) /\ \A x \in drafts : x.object \in Objects
    BY DEF IsNews, EngineInv, Threads
  <2> HIDE DEF e
  <2> QED
    BY <2>1, <2>2, TellsKeeps
<1>4. ASSUME Delivers \/ PumpEnds PROVE EngineInv'
  <2>1. UNCHANGED <<running, events, refreshing, pools, worker>>
    BY <1>4 DEF Delivers, PumpEnds, decider
  <2>2. drafts' = drafts
    BY <1>4 DEF Delivers, PumpEnds, callers
  <2> QED
    BY <2>1, <2>2, ElsewhereKeeps DEF EngineInv, Threads
<1>5. ASSUME Stops PROVE EngineInv'
  <2> DEFINE e == [type |-> "stop"]
  <2>1. UNCHANGED <<running, refreshing, pools, worker>> /\ events' = Append(events, e) /\ drafts' = drafts
    BY <1>5 DEF Stops, decider, callers
  <2>2. e.type # "detached" /\ IsNews(e) /\ \A x \in drafts : x.object \in Objects
    BY DEF IsNews, EngineInv, Threads
  <2> HIDE DEF e
  <2> QED
    BY <2>1, <2>2, TellsKeeps
<1> QED
  BY <1>1, <1>2, <1>3, <1>4, <1>5

\* Whoever asks for work has nothing in hand.
LEMMA AskingKeeps ==
    ASSUME EngineInv, NEW w \in Workers, worker[w].at = "asking",
           NEW at \in {"asleep", "gone"}, NowAt(w, at),
           UNCHANGED <<running, drafts, events, refreshing, pools>>
    PROVE  EngineInv'
<1>1. [at |-> at] \in Resting
  BY DEF Resting
<1>2. Crew' /\ \A o : Running(o)' = Running(o) \ {w}
  BY <1>1, PutsDown DEF NowAt, EngineInv, Threads
<1>3. \A o : Running(o)' = Running(o)
  BY <1>2 DEF Running
<1>4. Threads'
  BY <1>2 DEF EngineInv, Threads, pools
<1>5. \A o : Waiting(o)' = Waiting(o) /\ Told(o)' = Told(o)
  BY DEF Waiting, Told, pools
<1> QED
  BY <1>3, <1>4, <1>5 DEF EngineInv, Counted

\* A worker takes up a job that is no refresh.
LEMMA TakesWorkKeeps ==
    ASSUME EngineInv, NEW w \in Workers, worker[w].at = "asking",
           NEW j, IsWork(j), Takes(w, j), WorkQueue(db'), WorkQueue(net'),
           UNCHANGED <<running, drafts, events, refreshing, background>>
    PROVE  EngineInv'
<1>1. \A o \in Objects : j # Refresh(o)
  BY RefreshIsDetached
<1>2. Crew' /\ \A o \in Objects : Running(o)' = Running(o)
  BY <1>1, TakesUp DEF EngineInv, Threads
<1>3. Threads'
  BY <1>2 DEF EngineInv, Threads
<1>4. \A o : Waiting(o)' = Waiting(o) /\ Told(o)' = Told(o)
  BY DEF Waiting, Told
<1> QED
  BY <1>2, <1>3, <1>4 DEF EngineInv, Counted

LEMMA TakesFromChannelKeeps ==
    ASSUME EngineInv, NEW w \in Workers, TakesFromChannel(w)
    PROVE  EngineInv'
<1>1. CASE db # <<>> /\ Takes(w, Head(db)) /\ db' = Tail(db)
  <2>1. WorkQueue(db') /\ IsWork(Head(db)) /\ WorkQueue(net)
    BY <1>1, WorkGoes DEF EngineInv, Threads
  <2>2. worker[w].at = "asking" /\ UNCHANGED <<running, drafts, events, refreshing, background, net>>
    BY DEF TakesFromChannel, decider, callers
  <2> QED
    BY <1>1, <2>1, <2>2, TakesWorkKeeps
<1>2. CASE NowAt(w, "gone") /\ UNCHANGED db
  BY <1>2, AskingKeeps DEF TakesFromChannel, decider, callers, pools
<1> QED
  BY <1>1, <1>2 DEF TakesFromChannel

LEMMA PopsKeeps ==
    ASSUME EngineInv, NEW w \in Workers, Pops(w)
    PROVE  EngineInv'
<1>1. CASE net # <<>> /\ Takes(w, Head(net)) /\ net' = Tail(net) /\ UNCHANGED background
  <2>1. WorkQueue(net') /\ IsWork(Head(net)) /\ WorkQueue(db)
    BY <1>1, WorkGoes DEF EngineInv, Threads
  <2>2. worker[w].at = "asking" /\ UNCHANGED <<running, drafts, events, refreshing, background, db>>
    BY <1>1 DEF Pops, decider, callers
  <2> QED
    BY <1>1, <2>1, <2>2, TakesWorkKeeps
<1>2. CASE /\ background # <<>> /\ Takes(w, Head(background)) /\ background' = Tail(background)
           /\ UNCHANGED net
  <2> DEFINE j == Head(background)
  <2>1. /\ background \in Seq(Refreshes) /\ background' \in Seq(Refreshes) /\ j \in Refreshes
    BY <1>2, HeadTailProperties DEF EngineInv, Threads
  <2>2. /\ worker[w].at = "asking" /\ w \in NetWorkers
        /\ UNCHANGED <<running, drafts, events, refreshing, db, net>>
    BY <1>2 DEF Pops, decider, callers
  <2>3. PICK k \in Objects : j = Refresh(k)
    BY <2>1 DEF Refreshes
  <2>4. /\ Crew' /\ Running(k)' = Running(k) \cup {w}
        /\ \A o \in Objects \ {k} : j # Refresh(o) /\ Running(o)' = Running(o)
    <3>1. \A o \in Objects \ {k} : j # Refresh(o)
      BY <2>3, RefreshIsDetached
    <3>2. /\ Crew'
          /\ \A o : j # Refresh(o) => Running(o)' = Running(o)
          /\ \A o : j = Refresh(o) /\ w \in NetWorkers => Running(o)' = Running(o) \cup {w}
      BY <1>2, <2>1, <2>2, TakesUp DEF EngineInv, Threads
    <3> QED
      BY <2>2, <2>3, <3>1, <3>2
  <2>5. Threads'
    BY <2>1, <2>2, <2>4 DEF EngineInv, Threads
  <2>6. \A o : Told(o)' = Told(o)
    BY <2>2 DEF Told
  <2>7. \A M : /\ Spots(background, M) = {} => j \notin M /\ Spots(background', M) = {}
               /\ Lone(Spots(background, M)) /\ j \notin M => Lone(Spots(background', M))
               /\ Lone(Spots(background, M)) /\ j \in M => Spots(background', M) = {}
    BY <1>2, <2>1, SpotsAfterTail
  <2>8. \A o \in Objects :
            /\ Waiting(o) = {} => j # Refresh(o) /\ Waiting(o)' = {}
            /\ Lone(Waiting(o)) /\ j # Refresh(o) => Lone(Waiting(o)')
            /\ Lone(Waiting(o)) /\ j = Refresh(o) => Waiting(o)' = {}
    BY <2>7 DEF Waiting
  <2> HIDE DEF j
  <2>9. ASSUME running PROVE \A o \in Objects : Counted(o)'
    <3> TAKE o \in Objects
    <3>1. Counted(o)
      BY <2>9 DEF EngineInv
    <3>2. CASE o = k
      <4>1. o \in refreshing /\ Lone(Waiting(o)) /\ Running(o) = {} /\ Told(o) = {}
        BY <2>3, <2>8, <3>1, <3>2 DEF Counted, Lone
      <4>2. Waiting(o)' = {} /\ Running(o)' = {w} /\ Told(o)' = {} /\ o \in refreshing'
        BY <2>2, <2>3, <2>4, <2>6, <2>8, <3>2, <4>1
      <4> QED
        BY <4>2 DEF Counted, Lone
    <3>3. CASE o # k
      <4>1. Running(o)' = Running(o) /\ Told(o)' = Told(o) /\ j # Refresh(o) /\ refreshing' = refreshing
        BY <2>2, <2>4, <2>6, <3>3
      <4>2. /\ Waiting(o) = {} => Waiting(o)' = {}
            /\ Lone(Waiting(o)) => Lone(Waiting(o)')
        BY <2>8, <4>1
      <4>3. Waiting(o) = {} \/ Lone(Waiting(o))
        BY <3>1 DEF Counted
      <4> QED
        BY <3>1, <4>1, <4>2, <4>3 DEF Counted
    <3> QED
      BY <3>2, <3>3
  <2> QED
    BY <2>2, <2>5, <2>9 DEF EngineInv
<1>3. CASE NowAt(w, IF running THEN "asleep" ELSE "gone") /\ UNCHANGED <<net, background>>
  <2>1. (IF running THEN "asleep" ELSE "gone") \in {"asleep", "gone"}
    OBVIOUS
  <2>2. worker[w].at = "asking" /\ UNCHANGED <<running, drafts, events, refreshing, pools>>
    BY <1>3 DEF Pops, decider, callers, pools
  <2> QED
    BY <1>3, <2>1, <2>2, AskingKeeps
<1> QED
  BY <1>1, <1>2, <1>3 DEF Pops

LEMMA ReportsKeeps ==
    ASSUME EngineInv, NEW w \in Workers, Reports(w)
    PROVE  EngineInv'
<1> PICK ok \in BOOLEAN :
        IF running
        THEN events' = Append(events, [type |-> worker[w].job.deliver, object |-> worker[w].job.object,
                                       flow |-> worker[w].job.flow, ok |-> ok])
        ELSE UNCHANGED events
  BY DEF Reports
<1> DEFINE j == worker[w].job
           e == [type |-> j.deliver, object |-> j.object, flow |-> j.flow, ok |-> ok]
<1>1. /\ worker[w].at = "busy" /\ UNCHANGED <<running, drafts, refreshing, pools>>
      /\ Crew /\ Channel(events)
  BY DEF Reports, decider, callers, EngineInv, Threads
<1>2. Crew' /\ \A o : Running(o)' = Running(o) \ {w}
  <2> DEFINE r == IF stopping \/ ~running THEN [at |-> "gone"] ELSE Asking
  <2>1. r \in Resting /\ worker' = [worker EXCEPT ![w] = r]
    BY DEF Reports, Resting
  <2> HIDE DEF r
  <2> QED
    BY <1>1, <2>1, PutsDown
<1>3. IsNews(e)
  <2>1. \/ IsWork(j) /\ \A o \in Objects : w \notin Running(o)
        \/ \E k \in Objects : j = Refresh(k)
    BY <1>1, InHand
  <2>2. CASE IsWork(j)
    BY <2>2 DEF IsWork, Awaited, IsNews
  <2>3. ASSUME NEW k \in Objects, j = Refresh(k) PROVE IsNews(e)
    BY <2>3 DEF Refresh, IsNews, ReportsOf
  <2> QED
    BY <2>1, <2>2, <2>3
<1>4. Threads'
  <2>1. Channel(events')
    BY <1>1, <1>3, NewsComes
  <2> QED
    BY <1>1, <1>2, <2>1 DEF EngineInv, Threads, pools
<1>5. ASSUME running PROVE \A o \in Objects : Counted(o)'
  <2> TAKE o \in Objects
  <2>1. Counted(o) /\ events' = Append(events, e)
    BY <1>5 DEF EngineInv
  <2>2. /\ Waiting(o)' = Waiting(o) /\ Running(o)' = Running(o) \ {w} /\ refreshing' = refreshing
    BY <1>1, <1>2 DEF Waiting, pools
  <2>3. /\ e \notin ReportsOf(o) => Told(o)' = Told(o)
        /\ e \in ReportsOf(o) /\ Told(o) = {} => Lone(Told(o)')
    BY <1>1, <2>1, NewsComes DEF Told
  <2>4. CASE w \notin Running(o)
    <3>1. j # Refresh(o) \/ ~(w \in NetWorkers)
      BY <1>1, <2>4 DEF Running
    <3>2. \/ IsWork(j) \/ \E k \in Objects : j = Refresh(k) /\ w \in NetWorkers
      BY <1>1, InHand DEF Running
    <3>3. e \notin ReportsOf(o)
      <4>1. CASE IsWork(j)
        BY <4>1 DEF IsWork, Awaited, ReportsOf
      <4>2. ASSUME NEW k \in Objects, j = Refresh(k), w \in NetWorkers PROVE e \notin ReportsOf(o)
        <5>1. k # o
          BY <3>1, <4>2
        <5> QED
          BY <4>2, <5>1, RefreshIsDetached DEF ReportsOf
      <4> QED
        BY <3>2, <4>1, <4>2
    <3>4. Told(o)' = Told(o) /\ Running(o)' = Running(o)
      BY <2>2, <2>3, <2>4, <3>3
    <3> QED
      BY <2>1, <2>2, <3>4 DEF Counted
  <2>5. CASE w \in Running(o)
    <3>1. j = Refresh(o)
      BY <2>5 DEF Running
    <3>2. e \in ReportsOf(o)
      BY <3>1, RefreshIsDetached DEF ReportsOf
    <3>3. o \in refreshing /\ Waiting(o) = {} /\ Running(o) = {w} /\ Told(o) = {}
      BY <2>1, <2>5 DEF Counted, Lone
    <3> QED
      BY <2>2, <2>3, <3>2, <3>3 DEF Counted
  <2> QED
    BY <2>4, <2>5
<1> QED
  BY <1>1, <1>4, <1>5 DEF EngineInv

-----------------------------------------------------------------------------
(* The decider. *)

\* It takes something else from its channel than the report on a refresh.
LEMMA DecidesKeeps ==
    ASSUME EngineInv, running, events # <<>>, events' = Tail(events), Head(events).type # "detached",
           NEW toDb, toDb = <<>> \/ \E j : toDb = <<j>> /\ IsWork(j),
           NEW toNet, toNet = <<>> \/ \E j : toNet = <<j>> /\ IsWork(j),
           Dispatch(toDb, toNet, <<>>), UNCHANGED <<running, drafts, refreshing>>
    PROVE  EngineInv'
<1>1. Threads
  BY DEF EngineInv
<1>2. WorkQueue(db') /\ WorkQueue(net') /\ background' = background
  <2>1. WorkQueue(db \o toDb) /\ WorkQueue(net \o toNet)
    BY <1>1, WorkComes DEF Threads
  <2>2. background \o <<>> = background
    BY <1>1, ConcatEmptySeq DEF Threads
  <2> QED
    BY <2>1, <2>2 DEF Dispatch
<1>3. Crew' /\ \A o : Running(o)' = Running(o)
  BY <1>1, WakingUp DEF Dispatch, Threads
<1>4. /\ Channel(events')
      /\ \A o : Head(events) \notin ReportsOf(o)
      /\ \A o : Told(o) = {} => Told(o)' = {}
      /\ \A o : Lone(Told(o)) => Lone(Told(o)')
  <2>1. Channel(events)
    BY <1>1 DEF Threads
  <2>2. \A o : Head(events) \notin ReportsOf(o)
    BY DEF ReportsOf
  <2> QED
    BY <2>1, <2>2, NewsGoes DEF Told
<1>5. Threads'
  BY <1>1, <1>2, <1>3, <1>4 DEF Threads
<1>6. ASSUME NEW o \in Objects PROVE Counted(o)'
  <2>1. Counted(o) /\ Waiting(o)' = Waiting(o) /\ Running(o)' = Running(o) /\ refreshing' = refreshing
    BY <1>2, <1>3 DEF EngineInv, Waiting
  <2>2. /\ Told(o) = {} => Told(o)' = {}
        /\ Lone(Told(o)) => Lone(Told(o)')
    BY <1>4
  <2>3. Told(o) = {} \/ Lone(Told(o))
    BY <2>1 DEF Counted
  <2> QED
    BY <2>1, <2>2, <2>3 DEF Counted
<1> QED
  BY <1>5, <1>6 DEF EngineInv

\* The listing was stale: one refresh more, of a directory that had none.
LEMMA RefreshesKeeps ==
    ASSUME EngineInv, running, events # <<>>, events' = Tail(events), Head(events).type # "detached",
           NEW toDb, toDb = <<>> \/ \E j : toDb = <<j>> /\ IsWork(j),
           NEW k \in Objects, k \notin refreshing, refreshing' = refreshing \cup {k},
           Dispatch(toDb, <<>>, <<Refresh(k)>>), UNCHANGED <<running, drafts>>
    PROVE  EngineInv'
<1>1. Threads
  BY DEF EngineInv
<1>2. WorkQueue(db') /\ WorkQueue(net')
  BY <1>1, WorkComes DEF Threads, Dispatch
<1>3. Crew' /\ \A o : Running(o)' = Running(o)
  BY <1>1, WakingUp DEF Dispatch, Threads
<1>4. /\ background' \in Seq(Refreshes)
      /\ \A o \in Objects \ {k} : Waiting(o)' = Waiting(o)
      /\ Waiting(k) = {} => Lone(Waiting(k)')
  <2>1. /\ background \in Seq(Refreshes) /\ Refresh(k) \in Refreshes
        /\ background' = background \o <<Refresh(k)>>
    BY <1>1, RefreshIsDetached DEF Threads, Dispatch
  <2>2. \A o \in Objects \ {k} : Refresh(k) \notin {Refresh(o)}
    BY RefreshIsDetached
  <2> QED
    BY <2>1, <2>2, BacklogComes DEF Waiting
<1>5. /\ Channel(events')
      /\ \A o : Told(o) = {} => Told(o)' = {}
      /\ \A o : Lone(Told(o)) => Lone(Told(o)')
  <2>1. Channel(events)
    BY <1>1 DEF Threads
  <2>2. \A o : Head(events) \notin ReportsOf(o)
    BY DEF ReportsOf
  <2> QED
    BY <2>1, <2>2, NewsGoes DEF Told
<1>6. Threads'
  BY <1>1, <1>2, <1>3, <1>4, <1>5 DEF Threads
<1>7. ASSUME NEW o \in Objects PROVE Counted(o)'
  <2>1. Counted(o) /\ Running(o)' = Running(o)
    BY <1>3 DEF EngineInv
  <2>2. /\ Told(o) = {} => Told(o)' = {}
        /\ Lone(Told(o)) => Lone(Told(o)')
    BY <1>5
  <2>3. Told(o) = {} \/ Lone(Told(o))
    BY <2>1 DEF Counted
  <2>4. CASE o = k
    <3>1. Waiting(o) = {} /\ Running(o) = {} /\ Told(o) = {}
      BY <2>1, <2>4 DEF Counted
    <3>2. o \in refreshing' /\ Lone(Waiting(o)') /\ Running(o)' = {} /\ Told(o)' = {}
      BY <1>4, <2>1, <2>2, <2>4, <3>1
    <3> QED
      BY <3>2 DEF Counted
  <2>5. CASE o # k
    <3>1. (o \in refreshing <=> o \in refreshing') /\ Waiting(o)' = Waiting(o)
      BY <1>4, <2>5
    <3> QED
      BY <2>1, <2>2, <2>3, <3>1 DEF Counted
  <2> QED
    BY <2>4, <2>5
<1> QED
  BY <1>6, <1>7 DEF EngineInv

LEMMA OnRequestKeeps ==
    ASSUME EngineInv, running, events # <<>>, events' = Tail(events), drafts' = drafts,
           Head(events).type = "request", OnRequest(Head(events).request)
    PROVE  EngineInv'
<1> DEFINE r == Head(events).request
<1>1. r.object \in Objects
  BY NewsGoes DEF EngineInv, Threads, IsNews
<1>2. IsWork(JobOf(r.object, Begun(r))) /\ IsWork([object |-> r.object, flow |-> r.id, deliver |-> "beside"])
  BY <1>1, JobsAreAwaited DEF IsWork, Awaited
<1>3. UNCHANGED <<running, refreshing>> /\ Head(events).type # "detached"
  BY DEF OnRequest
<1>4. \/ Dispatch(<<JobOf(r.object, Begun(r))>>, <<>>, <<>>)
      \/ Dispatch(<<[object |-> r.object, flow |-> r.id, deliver |-> "beside"]>>, <<>>, <<>>)
      \/ Dispatch(<<>>, <<>>, <<>>)
  BY DEF OnRequest
<1> HIDE DEF r
<1>5. \E toDb : /\ toDb = <<>> \/ \E j : toDb = <<j>> /\ IsWork(j)
               /\ Dispatch(toDb, <<>>, <<>>)
  BY <1>2, <1>4
<1> QED
  BY <1>3, <1>5, DecidesKeeps

LEMMA OnCompletedKeeps ==
    ASSUME EngineInv, running, events # <<>>, events' = Tail(events), drafts' = drafts,
           Head(events).type = "flow", OnCompleted(Head(events))
    PROVE  EngineInv'
<1> DEFINE o == Head(events).object
<1>1. o \in Objects
  BY NewsGoes DEF EngineInv, Threads, IsNews
<1>2. JobOfNext(o) = <<>> \/ \E j : JobOfNext(o) = <<j>> /\ IsWork(j)
  BY <1>1, JobsAreAwaited DEF JobOfNext
<1>3. IsWork(JobOf(o, flow[o]))
  BY <1>1, JobsAreAwaited
<1>4. running' = running /\ Head(events).type # "detached"
  BY DEF OnCompleted
<1>5. \/ Dispatch(JobOfNext(o), <<>>, <<>>) /\ refreshing' = refreshing
      \/ Dispatch(<<>>, <<JobOf(o, flow[o])>>, <<>>) /\ refreshing' = refreshing
      \/ /\ o \notin refreshing /\ Dispatch(JobOfNext(o), <<>>, <<Refresh(o)>>)
         /\ refreshing' = refreshing \cup {o}
  BY DEF OnCompleted, MayRefresh
<1> HIDE DEF o
<1>6. CASE Dispatch(JobOfNext(o), <<>>, <<>>) /\ refreshing' = refreshing
  BY <1>2, <1>4, <1>6, DecidesKeeps
<1>7. CASE Dispatch(<<>>, <<JobOf(o, flow[o])>>, <<>>) /\ refreshing' = refreshing
  <2> DEFINE toNet == <<JobOf(o, flow[o])>>
  <2>1. \E j : toNet = <<j>> /\ IsWork(j)
    BY <1>3
  <2>2. Dispatch(<<>>, toNet, <<>>)
    BY <1>7
  <2> HIDE DEF toNet
  <2> QED
    BY <1>4, <1>7, <2>1, <2>2, DecidesKeeps
<1>8. CASE /\ o \notin refreshing /\ Dispatch(JobOfNext(o), <<>>, <<Refresh(o)>>)
           /\ refreshing' = refreshing \cup {o}
  BY <1>1, <1>2, <1>4, <1>8, RefreshesKeeps
<1> QED
  BY <1>5, <1>6, <1>7, <1>8

\* The one report there is on a refresh, and it is under way no more.
LEMMA OnRefreshedKeeps ==
    ASSUME EngineInv, running, events # <<>>, events' = Tail(events), drafts' = drafts,
           Head(events).type = "detached", OnRefreshed(Head(events))
    PROVE  EngineInv'
<1>1. Threads
  BY DEF EngineInv
<1>2. Channel(events)
  BY <1>1 DEF Threads
<1>3. PICK k \in Objects : Head(events) \in ReportsOf(k)
  BY <1>2, NewsGoes DEF IsNews
<1>4. /\ Head(events).object = k
      /\ \A o \in Objects \ {k} : Head(events) \notin ReportsOf(o)
  BY <1>3 DEF ReportsOf
<1>5. /\ refreshing' = refreshing \ {k} /\ running' = running /\ Dispatch(<<>>, <<>>, <<>>)
  BY <1>4 DEF OnRefreshed
<1>6. WorkQueue(db') /\ WorkQueue(net') /\ background' = background
  BY <1>1, <1>5, WorkComes, ConcatEmptySeq DEF Threads, Dispatch
<1>7. Crew' /\ \A o : Running(o)' = Running(o)
  BY <1>1, <1>5, WakingUp DEF Dispatch, Threads
<1>8. /\ Channel(events')
      /\ \A o \in Objects : Told(o) = {} => o # k /\ Told(o)' = {}
      /\ \A o \in Objects \ {k} : Lone(Told(o)) => Lone(Told(o)')
      /\ Lone(Told(k)) => Told(k)' = {}
  BY <1>2, <1>3, <1>4, NewsGoes DEF Told
<1>9. Threads'
  BY <1>1, <1>5, <1>6, <1>7, <1>8 DEF Threads
<1>10. ASSUME NEW o \in Objects PROVE Counted(o)'
  <2>1. Counted(o) /\ Waiting(o)' = Waiting(o) /\ Running(o)' = Running(o)
    BY <1>6, <1>7 DEF EngineInv, Waiting
  <2>2. CASE o = k
    <3>1. Told(o) # {}
      BY <1>8, <2>2
    <3>2. Lone(Told(o)) /\ Waiting(o) = {} /\ Running(o) = {}
      BY <2>1, <3>1 DEF Counted
    <3>3. Told(o)' = {} /\ o \notin refreshing'
      BY <1>5, <1>8, <2>2, <3>2
    <3> QED
      BY <2>1, <3>2, <3>3 DEF Counted
  <2>3. CASE o # k
    <3>1. o \in refreshing <=> o \in refreshing'
      BY <1>5, <2>3
    <3>2. /\ Told(o) = {} => Told(o)' = {}
          /\ Lone(Told(o)) => Lone(Told(o)')
      BY <1>8, <2>3
    <3>3. Told(o) = {} \/ Lone(Told(o))
      BY <2>1 DEF Counted
    <3> QED
      BY <2>1, <3>1, <3>2, <3>3 DEF Counted
  <2> QED
    BY <2>2, <2>3
<1> QED
  BY <1>9, <1>10 DEF EngineInv

LEMMA OnStopKeeps ==
    ASSUME EngineInv, events # <<>>, events' = Tail(events), drafts' = drafts, OnStop
    PROVE  EngineInv'
<1>1. Crew'
  BY WakingUp DEF OnStop, EngineInv, Threads
<1>2. Channel(events')
  BY NewsGoes DEF EngineInv, Threads
<1>3. WorkQueue(<<>>) /\ <<>> \in Seq(Refreshes)
  <2> DEFINE S == {}
  <2>1. <<>> \in Seq(S) /\ \A j \in S : IsWork(j)
    BY EmptySeq
  <2> HIDE DEF S
  <2>2. WorkQueue(<<>>)
    BY <2>1 DEF WorkQueue
  <2> QED
    BY <2>2, EmptySeq
<1> QED
  BY <1>1, <1>2, <1>3 DEF OnStop, EngineInv, Threads

LEMMA EngineInvIsInductive ==
    EngineInv /\ [EngineNext]_evars => EngineInv'
<1> SUFFICES ASSUME EngineInv, [EngineNext]_evars PROVE EngineInv'
  OBVIOUS
<1>1. CASE UNCHANGED evars
  BY <1>1, ElsewhereKeeps DEF evars, decider, callers, pools, EngineInv, Threads
<1>2. CASE \/ \E k \in Kinds, o \in Objects : Parks(k, o)
           \/ \E r \in drafts : Submits(r)
           \/ \E i \in parked : GivesUp(i)
           \/ Delivers \/ PumpEnds \/ Stops
  BY <1>2, CallersKeep
<1>3. ASSUME NEW w \in Workers, TakesFromChannel(w) \/ Pops(w) \/ Reports(w) PROVE EngineInv'
  BY <1>3, TakesFromChannelKeeps, PopsKeeps, ReportsKeeps
<1>4. CASE Decides
  <2>1. running /\ events # <<>> /\ events' = Tail(events) /\ drafts' = drafts
    BY <1>4 DEF Decides, callers
  <2>2. \/ Head(events).type = "request" /\ OnRequest(Head(events).request)
        \/ Head(events).type = "abandon" /\ OnAbandon(Head(events).id)
        \/ Head(events).type = "flow" /\ OnCompleted(Head(events))
        \/ Head(events).type = "beside" /\ OnBeside(Head(events))
        \/ Head(events).type = "detached" /\ OnRefreshed(Head(events))
        \/ Head(events).type = "stop" /\ OnStop
    <3>1. Head(events).type \in {"request", "abandon", "flow", "beside", "detached", "stop"}
      BY <2>1, NewsGoes DEF EngineInv, Threads, IsNews
    <3> QED
      BY <1>4, <3>1 DEF Decides
  <2>3. CASE Head(events).type = "request" /\ OnRequest(Head(events).request)
    BY <2>1, <2>3, OnRequestKeeps
  <2>4. CASE \/ Head(events).type = "abandon" /\ OnAbandon(Head(events).id)
             \/ Head(events).type = "beside" /\ OnBeside(Head(events))
    <3>1. /\ Head(events).type # "detached" /\ Dispatch(<<>>, <<>>, <<>>)
          /\ UNCHANGED <<running, refreshing>>
      BY <2>4 DEF OnAbandon, OnBeside
    <3> QED
      BY <2>1, <3>1, DecidesKeeps
  <2>5. CASE Head(events).type = "flow" /\ OnCompleted(Head(events))
    BY <2>1, <2>5, OnCompletedKeeps
  <2>6. CASE Head(events).type = "detached" /\ OnRefreshed(Head(events))
    BY <2>1, <2>6, OnRefreshedKeeps
  <2>7. CASE OnStop
    BY <2>1, <2>7, OnStopKeeps
  <2> QED
    BY <2>2, <2>3, <2>4, <2>5, <2>6, <2>7
<1> QED
  BY <1>1, <1>2, <1>3, <1>4 DEF EngineNext

LEMMA EngineInvAtFirst == EngineInit => EngineInv
<1> SUFFICES ASSUME EngineInit PROVE EngineInv
  OBVIOUS
<1>1. WorkQueue(<<>>) /\ Channel(<<>>) /\ <<>> \in Seq(Refreshes)
  <2> DEFINE S == {}
  <2>1. <<>> \in Seq(S) /\ (\A j \in S : IsWork(j)) /\ \A e \in S : IsNews(e)
    BY EmptySeq
  <2> HIDE DEF S
  <2> QED
    BY <2>1, EmptySeq DEF WorkQueue, Channel
<1>2. Crew
  BY DEF EngineInit, Crew, Resting
<1>3. Threads
  BY <1>1, <1>2 DEF EngineInit, Threads
<1>4. ASSUME NEW o \in Objects PROVE Counted(o)
  <2>1. Waiting(o) = {} /\ Told(o) = {}
    BY DEF EngineInit, Waiting, Told, Spots
  <2>2. Running(o) = {}
    BY DEF EngineInit, Running, Workers, Asking
  <2> QED
    BY <2>1, <2>2 DEF EngineInit, Counted
<1> QED
  BY <1>3, <1>4 DEF EngineInv

LEMMA EngineInvHolds == EngineSpec => []EngineInv
  BY EngineInvAtFirst, EngineInvIsInductive, PTL DEF EngineSpec

\* A channel holds no other reports on a refresh than these.
LEMMA EngineInvSaysSo == EngineInv => OneRefreshEach
<1> SUFFICES ASSUME EngineInv, running, NEW o \in Objects
             PROVE  RefreshesOf(o) = IF o \in refreshing THEN 1 ELSE 0
  BY DEF OneRefreshEach
<1>1. {n \in DOMAIN background : background[n] = Refresh(o)} = Waiting(o)
  BY DEF Waiting, Spots
<1>2. {w \in NetWorkers : worker[w].at = "busy" /\ worker[w].job = Refresh(o)} = Running(o)
  BY DEF Running
<1>3. {n \in DOMAIN events : events[n].type = "detached" /\ events[n].object = o} = Told(o)
  <2> PICK S : events \in Seq(S) /\ \A e \in S : IsNews(e)
    BY DEF EngineInv, Threads, Channel
  <2>1. \A n \in DOMAIN events : IsNews(events[n])
    BY LenProperties
  <2>2. \A n \in DOMAIN events :
            events[n].type = "detached" /\ events[n].object = o <=> events[n] \in ReportsOf(o)
    BY <2>1 DEF IsNews, ReportsOf
  <2> QED
    BY <2>2 DEF Told, Spots
<1>4. Cardinality({}) = 0 /\ \A P : Lone(P) => Cardinality(P) = 1
  BY FS_EmptySet, FS_Singleton DEF Lone
<1>5. RefreshesOf(o) = Cardinality(Waiting(o)) + Cardinality(Running(o)) + Cardinality(Told(o))
  BY <1>1, <1>2, <1>3 DEF RefreshesOf
<1> QED
  BY <1>4, <1>5 DEF EngineInv, Counted

\* A directory is marked as being refreshed (runtime.rs spawn_decider, `refreshing`)
\* exactly as long as one refresh of it is under way, for any objects, workers,
\* requests and refreshes: none is lost at the cap or counted twice.
THEOREM EveryRefreshIsCounted == EngineSpec => []OneRefreshEach
  BY EngineInvHolds, EngineInvSaysSo, PTL

-----------------------------------------------------------------------------
(* Wake-ups.                                                               *)

LEMMA WaysAreCounted ==
    ASSUME NEW T, IsFiniteSet(T), NEW x
    PROVE  /\ Cardinality(T) \in Nat
           /\ x \notin T => Cardinality(T \cup {x}) = Cardinality(T) + 1
           /\ x \in T => Cardinality(T \ {x}) = Cardinality(T) - 1
           /\ \A S : S \subseteq T => IsFiniteSet(S) /\ Cardinality(S) <= Cardinality(T)
<1>1. Cardinality(T) \in Nat
  BY FS_CardinalityType
<1>2. x \notin T => Cardinality(T \cup {x}) = Cardinality(T) + 1
  BY FS_AddElement
<1>3. x \in T => Cardinality(T \ {x}) = Cardinality(T) - 1
  BY FS_RemoveElement
<1>4. \A S : S \subseteq T => IsFiniteSet(S) /\ Cardinality(S) <= Cardinality(T)
  BY FS_Subset
<1> QED
  BY <1>1, <1>2, <1>3, <1>4

\* What waits for the net pool has a length, and who is under way can be counted.
LEMMA PoolIsCounted ==
    ASSUME Threads
    PROVE  /\ Len(net) \in Nat /\ Len(background) \in Nat
           /\ IsFiniteSet(OnTheirWay) /\ Cardinality(OnTheirWay) \in Nat
           /\ \A j : /\ net \o <<>> = net /\ background \o <<>> = background
                     /\ Len(net \o <<j>>) = Len(net) + 1
                     /\ Len(background \o <<j>>) = Len(background) + 1
           /\ net # <<>> => Len(Tail(net)) = Len(net) - 1
           /\ background # <<>> => Len(Tail(background)) = Len(background) - 1
<1>1. OnTheirWay \subseteq NetWorkers
  BY DEF OnTheirWay
<1>2. IsFiniteSet(OnTheirWay) /\ Cardinality(OnTheirWay) \in Nat
  BY <1>1, FS_Subset, FS_CardinalityType, SubstrateAssumption
<1>3. ASSUME NEW q, NEW S, q \in Seq(S)
      PROVE  /\ Len(q) \in Nat /\ q \o <<>> = q
             /\ \A j : Len(q \o <<j>>) = Len(q) + 1
             /\ q # <<>> => Len(Tail(q)) = Len(q) - 1
  <2>1. Len(q) \in Nat /\ q \o <<>> = q
    BY <1>3, LenProperties, ConcatEmptySeq
  <2>2. ASSUME NEW j PROVE Len(q \o <<j>>) = Len(q) + 1
    <3>1. q \in Seq(S \cup {j}) /\ <<j>> \in Seq(S \cup {j})
      BY <1>3
    <3> QED
      BY <3>1, ConcatProperties
  <2>3. q # <<>> => Len(Tail(q)) = Len(q) - 1
    BY <1>3, HeadTailProperties
  <2> QED
    BY <2>1, <2>2, <2>3
<1>4. \E S : net \in Seq(S)
  BY DEF Threads, WorkQueue
<1>5. background \in Seq(Refreshes)
  BY DEF Threads
<1> QED
  BY <1>2, <1>3, <1>4, <1>5

\* One job more, and one sleeper fewer.
LEMMA JobsFindSomebody ==
    ASSUME Threads, NobodySleepsBesideWork, NotifyOne,
           Len(net)' + Len(background)' = Len(net) + Len(background) + 1
    PROVE  NobodySleepsBesideWork'
<1>1. CASE Asleep = {}
  <2>1. worker' = worker
    BY <1>1 DEF NotifyOne
  <2> QED
    BY <1>1, <2>1 DEF NobodySleepsBesideWork, Asleep
<1>2. CASE Asleep # {}
  <2> PICK v \in Asleep : worker' = [worker EXCEPT ![v].at = "asking"]
    BY <1>2 DEF NotifyOne
  <2>1. worker[v].at = "asleep" /\ v \in NetWorkers /\ v \in Workers
    BY DEF Asleep, Workers
  <2>2. /\ worker = [u \in Workers |-> worker[u]]
        /\ worker[v] \in Resting \/ AtWork(v)
    BY <2>1 DEF Threads, Crew
  <2>3. worker'[v].at = "asking"
    <3>1. worker[v] = [at |-> "asleep"]
      BY <2>1, <2>2 DEF Resting, AtWork, Asking
    <3>2. worker'[v] = [worker[v] EXCEPT !.at = "asking"]
      BY <2>1, <2>2
    <3> QED
      BY <3>1, <3>2
  <2>4. \A u \in NetWorkers : u # v => worker'[u] = worker[u]
    BY <2>2 DEF Workers
  <2>5. OnTheirWay' = OnTheirWay \cup {v}
    BY <2>1, <2>3, <2>4 DEF OnTheirWay
  <2>6. v \notin OnTheirWay
    BY <2>1 DEF OnTheirWay
  <2>7. Cardinality(OnTheirWay)' = Cardinality(OnTheirWay) + 1
    BY <2>5, <2>6, PoolIsCounted, WaysAreCounted
  <2> QED
    BY <1>2, <2>7, PoolIsCounted DEF NobodySleepsBesideWork
<1> QED
  BY <1>1, <1>2

LEMMA DispatchWakesOne ==
    ASSUME Threads, NobodySleepsBesideWork, NEW a, NEW b, NEW c, Dispatch(a, b, c),
           \/ b = <<>> /\ c = <<>>
           \/ c = <<>> /\ \E j : b = <<j>>
           \/ b = <<>> /\ \E j : c = <<j>>
    PROVE  NobodySleepsBesideWork'
<1>1. CASE b = <<>> /\ c = <<>>
  <2>1. net' = net /\ background' = background /\ worker' = worker
    BY <1>1, PoolIsCounted DEF Dispatch
  <2> QED
    BY <2>1 DEF NobodySleepsBesideWork, Asleep, OnTheirWay
<1>2. ASSUME NEW j, \/ b = <<j>> /\ c = <<>>
                    \/ b = <<>> /\ c = <<j>>
      PROVE  NobodySleepsBesideWork'
  <2> <<j>> \in Seq({j}) /\ <<j>> # <<>>
    OBVIOUS
  <2>1. b \o c = <<j>>
    BY <1>2, ConcatEmptySeq
  <2>2. NotifyOne
    BY <2>1 DEF Dispatch
  <2>3. CASE b = <<j>> /\ c = <<>>
    <3>1. net' = net \o <<j>> /\ background' = background
      BY <2>3, PoolIsCounted DEF Dispatch
    <3>2. Len(net)' + Len(background)' = Len(net) + Len(background) + 1
      BY <3>1, PoolIsCounted
    <3> QED
      BY <2>2, <3>2, JobsFindSomebody
  <2>4. CASE b = <<>> /\ c = <<j>>
    <3>1. net' = net /\ background' = background \o <<j>>
      BY <2>4, PoolIsCounted DEF Dispatch
    <3>2. Len(net)' + Len(background)' = Len(net) + Len(background) + 1
      BY <3>1, PoolIsCounted
    <3> QED
      BY <2>2, <3>2, JobsFindSomebody
  <2> QED
    BY <1>2, <2>3, <2>4
<1> QED
  BY <1>1, <1>2

\* One worker changes its place, and no other.
LEMMA OthersStay ==
    ASSUME Crew, NEW w \in Workers, NEW r, worker' = [worker EXCEPT ![w] = r]
    PROVE  worker'[w] = r /\ \A u \in Workers : u # w => worker'[u] = worker[u]
  BY DEF Crew

LEMMA WorkersKeepAwake ==
    ASSUME Threads, NobodySleepsBesideWork, NEW w \in Workers,
           TakesFromChannel(w) \/ Pops(w) \/ Reports(w)
    PROVE  NobodySleepsBesideWork'
<1> Crew
  BY DEF Threads
<1>1. CASE TakesFromChannel(w)
  <2>1. w \notin NetWorkers /\ net' = net /\ background' = background
    BY <1>1, SubstrateAssumption DEF TakesFromChannel
  <2>2. \E r : worker' = [worker EXCEPT ![w] = r]
    BY <1>1 DEF TakesFromChannel, Takes, NowAt
  <2>3. \A u \in NetWorkers : worker'[u] = worker[u]
    BY <2>1, <2>2, OthersStay DEF Workers
  <2>4. Asleep' = Asleep /\ OnTheirWay' = OnTheirWay
    BY <2>3 DEF Asleep, OnTheirWay
  <2> QED
    BY <2>1, <2>4 DEF NobodySleepsBesideWork
<1>2. CASE Pops(w)
  <2>1. w \in NetWorkers /\ worker[w].at = "asking" /\ w \in OnTheirWay
    BY <1>2 DEF Pops, OnTheirWay
  <2>2. CASE net = <<>> /\ background = <<>>
    <3>1. Len(net)' + Len(background)' = 0
      BY <1>2, <2>2 DEF Pops
    <3>2. OnTheirWay' \subseteq NetWorkers
      BY DEF OnTheirWay
    <3>3. Cardinality(OnTheirWay)' \in Nat
      BY <3>2, FS_Subset, FS_CardinalityType, SubstrateAssumption
    <3> QED
      BY <3>1, <3>3 DEF NobodySleepsBesideWork
  <2>3. CASE ~(net = <<>> /\ background = <<>>)
    <3> PICK j : Takes(w, j)
      BY <1>2, <2>3 DEF Pops
    <3> DEFINE r == [at |-> "busy", job |-> j]
    <3>0. worker' = [worker EXCEPT ![w] = r]
      BY DEF Takes
    <3> HIDE DEF r
    <3>a. worker'[w] = r /\ \A u \in Workers : u # w => worker'[u] = worker[u]
      BY <3>0, OthersStay
    <3>1. worker'[w].at = "busy" /\ \A u \in NetWorkers : u # w => worker'[u] = worker[u]
      BY <3>a DEF Workers, r
    <3>2. Asleep' = Asleep
      BY <2>1, <3>1 DEF Asleep
    <3>3. OnTheirWay' = OnTheirWay \ {w}
      BY <2>1, <3>1 DEF OnTheirWay
    <3>4. Cardinality(OnTheirWay)' = Cardinality(OnTheirWay) - 1
      BY <2>1, <3>3, PoolIsCounted, WaysAreCounted
    <3>5. \/ net # <<>> /\ net' = Tail(net) /\ background' = background
          \/ background # <<>> /\ net' = net /\ background' = Tail(background)
      BY <1>2, <2>3 DEF Pops
    <3>6. Len(net)' + Len(background)' = Len(net) + Len(background) - 1
      BY <3>5, PoolIsCounted
    <3> QED
      BY <3>2, <3>4, <3>6, PoolIsCounted DEF NobodySleepsBesideWork
  <2> QED
    BY <2>2, <2>3
<1>3. CASE Reports(w)
  <2> PICK r \in {Asking, [at |-> "gone"]} : worker' = [worker EXCEPT ![w] = r]
    BY <1>3 DEF Reports
  <2>1. worker[w].at = "busy" /\ net' = net /\ background' = background
    BY <1>3 DEF Reports, pools
  <2>2. worker'[w].at # "asleep" /\ \A u \in NetWorkers : u # w => worker'[u] = worker[u]
    <3>1. worker'[w] = r
      BY OthersStay
    <3> QED
      BY <3>1, OthersStay DEF Workers, Asking
  <2>3. Asleep' = Asleep
    BY <2>1, <2>2 DEF Asleep
  <2>4. OnTheirWay \subseteq OnTheirWay' /\ OnTheirWay' \subseteq NetWorkers
    BY <2>1, <2>2 DEF OnTheirWay
  <2>5. IsFiniteSet(OnTheirWay')
    BY <2>4, FS_Subset, SubstrateAssumption
  <2>6. Cardinality(OnTheirWay) <= Cardinality(OnTheirWay)' /\ Cardinality(OnTheirWay)' \in Nat
    BY <2>4, <2>5, FS_Subset, FS_CardinalityType
  <2> QED
    BY <2>1, <2>3, <2>6, PoolIsCounted DEF NobodySleepsBesideWork
<1> QED
  BY <1>1, <1>2, <1>3

LEMMA DecidesKeepsAwake ==
    ASSUME Threads, NobodySleepsBesideWork, Decides
    PROVE  NobodySleepsBesideWork'
<1> DEFINE e == Head(events)
<1>1. ASSUME OnStop PROVE NobodySleepsBesideWork'
  <2>1. Len(net)' + Len(background)' = 0
    BY <1>1 DEF OnStop
  <2>2. OnTheirWay' \subseteq NetWorkers
    BY DEF OnTheirWay
  <2>3. Cardinality(OnTheirWay)' \in Nat
    BY <2>2, FS_Subset, FS_CardinalityType, SubstrateAssumption
  <2> QED
    BY <2>1, <2>3 DEF NobodySleepsBesideWork
<1>2. ASSUME NEW a, \/ Dispatch(a, <<>>, <<>>)
                    \/ \E j : Dispatch(a, <<j>>, <<>>)
                    \/ \E j : Dispatch(a, <<>>, <<j>>)
      PROVE  NobodySleepsBesideWork'
  BY <1>2, DispatchWakesOne
<1>3. ASSUME OnRequest(e.request) PROVE \E a : Dispatch(a, <<>>, <<>>)
  BY <1>3 DEF OnRequest
<1>4. ASSUME OnCompleted(e)
      PROVE  \E a : \/ Dispatch(a, <<>>, <<>>)
                    \/ \E j : Dispatch(a, <<j>>, <<>>)
                    \/ \E j : Dispatch(a, <<>>, <<j>>)
  BY <1>4 DEF OnCompleted
<1>5. ASSUME OnAbandon(e.id) \/ OnBeside(e) \/ OnRefreshed(e) PROVE \E a : Dispatch(a, <<>>, <<>>)
  BY <1>5 DEF OnAbandon, OnBeside, OnRefreshed
<1>6. e.type \in {"request", "abandon", "flow", "beside", "detached", "stop"}
  BY NewsGoes DEF Threads, Decides, IsNews
<1>7. OnRequest(e.request) \/ OnAbandon(e.id) \/ OnCompleted(e) \/ OnBeside(e) \/ OnRefreshed(e) \/ OnStop
  BY <1>6 DEF Decides
<1> HIDE DEF e
<1> QED
  BY <1>1, <1>2, <1>3, <1>4, <1>5, <1>7

\* While a worker of the net pool sleeps (runtime.rs NetQueue::pop), each job at
\* either of its queues has a worker of its own that has been woken for it
\* (NetSender::send) or comes by: for any number of workers, jobs and refreshes.
THEOREM NoWakeUpIsLost == EngineSpec => []NobodySleepsBesideWork
<1>1. EngineInit => NobodySleepsBesideWork
  <2> SUFFICES ASSUME EngineInit PROVE Asleep = {}
    BY DEF NobodySleepsBesideWork
  <2> QED
    BY DEF EngineInit, Asleep, Asking, Workers
<1>2. EngineInv /\ NobodySleepsBesideWork /\ [EngineNext]_evars => NobodySleepsBesideWork'
  <2> SUFFICES ASSUME Threads, NobodySleepsBesideWork, [EngineNext]_evars
               PROVE  NobodySleepsBesideWork'
    BY DEF EngineInv
  <2>1. CASE UNCHANGED <<pools, worker>>
    BY <2>1 DEF NobodySleepsBesideWork, Asleep, OnTheirWay, pools
  <2>2. CASE UNCHANGED evars
    BY <2>1, <2>2 DEF evars
  <2>3. ASSUME NEW k \in Kinds, NEW o \in Objects, Parks(k, o) PROVE NobodySleepsBesideWork'
    BY <2>1, <2>3 DEF Parks
  <2>4. ASSUME NEW r \in drafts, Submits(r) PROVE NobodySleepsBesideWork'
    BY <2>1, <2>4 DEF Submits
  <2>5. ASSUME NEW i \in parked, GivesUp(i) PROVE NobodySleepsBesideWork'
    BY <2>1, <2>5 DEF GivesUp
  <2>6. ASSUME Delivers \/ PumpEnds \/ Stops PROVE NobodySleepsBesideWork'
    BY <2>1, <2>6 DEF Delivers, PumpEnds, Stops
  <2> QED
    BY <2>2, <2>3, <2>4, <2>5, <2>6, WorkersKeepAwake, DecidesKeepsAwake DEF EngineNext
<1> QED
  BY <1>1, <1>2, EngineInvHolds, PTL DEF EngineSpec
=============================================================================
