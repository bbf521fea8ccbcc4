-------------------------------- MODULE Tree --------------------------------
(***************************************************************************)
(* The tree of rows in the state database, and the tree on the server it   *)
(* stands for (state.rs; runtime.rs: Worker::run; provider.rs: reload_dir, *)
(* Provider::new; main.rs: cmd_cache_clear).                               *)
(*                                                                         *)
(* A row has an id, which everything else is keyed by -- write buffers,    *)
(* uploads that are owed, the machine's flows -- and which SQLite gives    *)
(* again once it is free. It has its place twice: as a name in a parent,   *)
(* and spelled out as the path that every request to the server uses.      *)
(* Directories are renamed and deleted, with all that is below them, while *)
(* other directories are being listed.                                     *)
(*                                                                         *)
(* Not here: contents and their versions (WriteBack), what a flow decides  *)
(* (Script), how a listing is judged (Listing: here a listing knows which  *)
(* objects were in use since it was asked for).                            *)
(***************************************************************************)
EXTENDS Integers, FiniteSets, Sequences, TLC

CONSTANTS
    Names,
    Slots,       \* listings that may be under way at once
    Depth,       \* bound: names in a path
    MaxId,       \* bound: ids
    Flows,       \* bound: renames and deletions
    Works,       \* bound: files made, or opened to be written, here
    Foreign,     \* bound: changes by others
    Restarts,    \* bound
    Perils

\* "stale place"   -- a directory is elsewhere, gone, or its id a file's, by the time
\*                    its listing is applied or something is moved into it
\* "late identity" -- a file that has been uploaded and not relisted since is
\*                    renamed over another
AllPerils == {"stale place", "late identity"}

ASSUME TreeAssumption ==
    /\ {Depth, MaxId, Flows, Works, Foreign, Restarts} \subseteq Nat
    /\ Depth >= 2 /\ MaxId >= 3 /\ Perils \subseteq AllPerils

Top   == 1
Paths == UNION {[1..k -> Names] : k \in 1..Depth}
NoId  == 0     \* no file id, no etag

VARIABLES
    srv,       \* [path on the server -> the object there]
    born,      \* objects there have ever been on the server
    row,       \* [id -> its row]
    pending,   \* pending_uploads
    buffer,    \* ids the machine has a write buffer for
    flow,      \* renames and deletions under way
    lst,       \* [slot -> the listing under way in it]
    count,     \* what the bounds count
    (* for the properties *)
    strays     \* ids whose buffer belongs to a row that is gone

ours  == <<pending, buffer, strays>>
tvars == <<srv, born, row, ours, flow, lst, count>>

Idle   == [at |-> "idle"]
IsIn(p, q) == Len(p) <= Len(q) /\ SubSeq(q, 1, Len(p)) = p
Folder(p) == SubSeq(p, 1, Len(p) - 1)
Last(p)   == p[Len(p)]
Tail2(p, q) == SubSeq(q, Len(p) + 1, Len(q))
Counts(what, bound) == count[what] < bound /\ count' = [count EXCEPT ![what] = @ + 1]

-----------------------------------------------------------------------------
(* The server: paths to objects, every folder there.                       *)

IsFolder(p) == p = <<>> \/ (p \in DOMAIN srv /\ srv[p].dir)
With(f, p, v) == [q \in DOMAIN f \cup {p} |-> IF q = p THEN v ELSE f[q]]
Without(f, p) == [q \in {r \in DOMAIN f : ~IsIn(p, r)} |-> f[q]]
\* MOVE, Overwrite: T -- what is at `to` goes.
Landed(p, to, q) == to \o Tail2(p, q)
CanMove(p, to) ==
    /\ p \in DOMAIN srv /\ IsFolder(Folder(to)) /\ ~IsIn(p, to) /\ ~IsIn(to, p)
    /\ \A q \in DOMAIN srv : IsIn(p, q) => Landed(p, to, q) \in Paths
Moved(f, p, to) ==
    LET stays == {q \in DOMAIN f : ~IsIn(p, q) /\ ~IsIn(to, q)}
        goes  == {q \in DOMAIN f : IsIn(p, q)}
    IN  [q \in stays \cup {Landed(p, to, g) : g \in goes} |->
            IF q \in stays THEN f[q] ELSE f[p \o Tail2(to, q)]]

SomebodyPuts(p, dir) ==
    /\ Counts("foreign", Foreign)
    /\ p \notin DOMAIN srv /\ IsFolder(Folder(p))
    /\ born' = born + 1 /\ srv' = With(srv, p, [fid |-> born + 1, dir |-> dir])
    /\ UNCHANGED <<row, ours, flow, lst>>

SomebodyDeletes(p) ==
    /\ Counts("foreign", Foreign)
    /\ p \in DOMAIN srv /\ srv' = Without(srv, p)
    /\ UNCHANGED <<born, row, ours, flow, lst>>

-----------------------------------------------------------------------------
(* The rows.                                                               *)

Ids     == DOMAIN row
Kids(i) == {k \in Ids \ {Top} : row[k].parent = i}
ChildNamed(i, n) == {k \in Kids(i) : row[k].name = n}
\* delete_subtree: by the parents, from one generation to the next; all that is
\* below S is the least such set.
WithItsKids(C) == \A k \in Ids \ {Top} : row[k].parent \in C => k \in C
Below(S) == {k \in Ids : \A C \in SUBSET Ids : S \cap Ids \subseteq C /\ WithItsKids(C) => k \in C}
\* A bug to catch: only the rows themselves are deleted.
JustThem(S) == S \cap Ids
Doomed(S) == Below(S)

Restricted(S) == [i \in S |-> row[i]]
\* descends_from.
Descends(i, from) == i \in Below({from})

\* The rows go, and with them what they owe; their buffers are left behind.
Drops(gone) ==
    /\ pending' = pending \ gone
    /\ strays' = strays \cup (gone \cap buffer)
    /\ buffer' = buffer

\* SQLite's choice: one more than the highest id there is.
NextId == 1 + CHOOSE i \in Ids : \A k \in Ids : k <= i
NewRow(parent, n, path, dir, fid) ==
    [parent |-> parent, name |-> n, path |-> path, dir |-> dir, fid |-> fid, etag |-> fid,
     loaded |-> FALSE]

UniquePaths(r) == \A i, k \in DOMAIN r : r[i].path = r[k].path => i = k

-----------------------------------------------------------------------------
(* At first: a directory, with a directory or a file in it, known here.    *)

Loaded(r) == [r EXCEPT !.loaded = r.dir]
TreeInit ==
    /\ \E n, m \in Names, dir \in BOOLEAN :
          /\ srv = (<<n>> :> [fid |-> 1, dir |-> TRUE]) @@ (<<n, m>> :> [fid |-> 2, dir |-> dir])
          /\ row = <<Loaded(NewRow(Top, "", <<>>, TRUE, NoId)),
                     Loaded(NewRow(1, n, <<n>>, TRUE, 1)),
                     Loaded(NewRow(2, m, <<n, m>>, dir, 2))>>
    /\ born = 2 /\ pending = {} /\ buffer = {} /\ strays = {}
    /\ flow = {} /\ lst = [s \in Slots |-> Idle]
    /\ count = [flows |-> 0, works |-> 0, foreign |-> 0, restarts |-> 0]

-----------------------------------------------------------------------------
(* Files are made, edited, saved and uploaded.                             *)

Held  == UNION {{f.id, f.from} : f \in flow}
\* The kernel keeps a directory locked while a name in it is made, changed or
\* removed, and both directories for a rename.
Locked == UNION {{f.from, f.to} : f \in flow}
\* A bug to catch: a listing knows only what was in use when it was asked for.
TouchedBefore(l, S) == l
\* A listing that is under way keeps away from what has been in use since.
Touched(l, S) == [s \in Slots |-> IF l[s] = Idle THEN Idle
                                  ELSE [l[s] EXCEPT !.touched = @ \cup S]]

\* Materialise, after a lookup that has found nothing: the row, without a file
\* id, and a buffer.
Creates(i, n) ==
    /\ Counts("works", Works)
    /\ i \in Ids \ (Held \cup Locked) /\ row[i].loaded /\ ChildNamed(i, n) = {}
    /\ LET p == Append(row[i].path, n) IN
       /\ NextId <= MaxId /\ p \in Paths
       /\ row' = With(row, NextId, NewRow(i, n, p, FALSE, NoId)) /\ UniquePaths(row')
    /\ buffer' = buffer \cup {NextId} /\ strays' = strays \ {NextId}
    /\ lst' = Touched(lst, {i})
    /\ UNCHANGED <<srv, born, pending, flow>>

\* The first write to a file fills its buffer, unless there is one.
Edits(i) ==
    /\ Counts("works", Works)
    /\ i \in Ids \ (Held \cup buffer) /\ ~row[i].dir
    /\ buffer' = buffer \cup {i} /\ lst' = Touched(lst, {i})
    /\ UNCHANGED <<srv, born, row, pending, flow, strays>>

Saves(i) ==
    /\ i \in (Ids \cap buffer) \ (Held \cup pending) /\ ~row[i].dir
    /\ pending' = pending \cup {i} /\ lst' = Touched(lst, {i})
    /\ UNCHANGED <<srv, born, row, flow, count, buffer, strays>>

\* The PUT says which version the edit is based on, or that there is none: a
\* file there that it does not know of turns it down.
Accepted(i) == LET p == row[i].path IN
    /\ IsFolder(Folder(p))
    /\ IF row[i].etag = NoId THEN p \notin DOMAIN srv
       ELSE p \in DOMAIN srv /\ srv[p].fid = row[i].etag /\ ~srv[p].dir
TurnedDown(i) == IsFolder(Folder(row[i].path)) /\ ~Accepted(i)

UploadsFile(i) ==
    /\ i \in (Ids \cap pending) \ Held /\ Accepted(i)
    /\ LET p == row[i].path  new == p \notin DOMAIN srv IN
       /\ born' = IF new THEN born + 1 ELSE born
       /\ srv' = IF new THEN With(srv, p, [fid |-> born + 1, dir |-> FALSE]) ELSE srv
       /\ row' = [row EXCEPT ![i].etag = srv'[p].fid]
    /\ pending' = pending \ {i} /\ buffer' = buffer \ {i} /\ strays' = strays \ {i}
    /\ lst' = Touched(lst, {i})
    /\ UNCHANGED <<flow, count>>

\* 412: the edit becomes a conflicted copy (see WriteBack), and the row takes
\* over what is there.
Collides(i) ==
    /\ i \in (Ids \cap pending) \ Held /\ TurnedDown(i)
    /\ LET p == row[i].path IN
       row' = [row EXCEPT ![i].etag = IF p \in DOMAIN srv THEN srv[p].fid ELSE NoId]
    /\ pending' = pending \ {i} /\ buffer' = buffer \ {i} /\ strays' = strays \ {i}
    /\ lst' = Touched(lst, {i})
    /\ UNCHANGED <<srv, born, flow, count>>

-----------------------------------------------------------------------------
(* Renames and deletions: they hold the object and its parent, ask the     *)
(* server if the object has been there, and change the rows.               *)

Materialised(i) == row[i].fid # NoId \/ row[i].etag # NoId

BeginsFlow(f) ==
    /\ Counts("flows", Flows)
    /\ {f.id, f.from} \cap Held = {} /\ {f.from, f.to} \cap Locked = {}
    /\ flow' = flow \cup {f} /\ lst' = Touched(lst, {f.id, f.from})
    /\ UNCHANGED <<srv, born, row, ours>>

\* The kernel renames files over files, and directories over directories, but
\* nothing over a directory that it is in.
BeginsToMove(i, to, n) ==
    /\ i \in Ids \ {Top} /\ to \in Ids /\ row[to].loaded /\ ChildNamed(to, n) # {i}
    /\ i \notin Doomed(ChildNamed(to, n)) /\ \A o \in ChildNamed(to, n) : row[o].dir = row[i].dir
    /\ BeginsFlow([op |-> "move", id |-> i, from |-> row[i].parent, to |-> to, name |-> n, at |-> "begun"])

BeginsToRemove(i) ==
    /\ i \in Ids \ {Top}
    /\ BeginsFlow([op |-> "remove", id |-> i, from |-> row[i].parent, to |-> row[i].parent,
                  name |-> row[i].name, at |-> "begun"])

EndsFlow(f) == flow' = flow \ {f} /\ lst' = Touched(lst, {f.id, f.from})
Turns(f) == flow' = (flow \ {f}) \cup {[f EXCEPT !.at = "commit"]} /\ lst' = lst

\* The paths are read when the request is made.
Destination(f) == Append(row[f.to].path, f.name)
Gone(f) == {f.id, f.to} \ Ids # {}

AsksTheServer(f) ==
    /\ f.at = "begun" /\ ~Gone(f) /\ Materialised(f.id)
    /\ LET p == row[f.id].path  to == Destination(f) IN
       \/ /\ f.op = "move" /\ CanMove(p, to)
          /\ srv' = Moved(srv, p, to)
          /\ Turns(f)
       \/ /\ f.op = "remove" /\ p \in DOMAIN srv
          /\ srv' = Without(srv, p)
          /\ Turns(f)
       \/ /\ IF f.op = "move" THEN ~CanMove(p, to) ELSE p \notin DOMAIN srv
          /\ EndsFlow(f) /\ UNCHANGED srv
    /\ UNCHANGED <<born, row, ours, count>>

NeedsNoServer(f) ==
    /\ f.at = "begun" /\ ~Gone(f) /\ ~Materialised(f.id)
    /\ Turns(f) /\ UNCHANGED <<srv, born, row, ours, count>>

IsGone(f) ==
    /\ Gone(f) /\ EndsFlow(f) /\ UNCHANGED <<srv, born, row, ours, count>>

\* The new paths of i and of what is below it, spelled out from parent to child.
\* (Bound: there are none if one of them has too many names.)
Respelled(i, path) ==
    LET all == Below({i}) IN
    {p \in [all -> Paths] :
        p[i] = path /\ \A k \in all \ {i} : p[k] = Append(p[row[k].parent], row[k].name)}

\* A bug to catch: the rows below a directory keep their paths.
MovedAlone(f, gone, path) == [k \in Ids \ gone |->
    IF k = f.id THEN [row[k] EXCEPT !.parent = f.to, !.name = f.name, !.path = path[k]] ELSE row[k]]
\* move_subtree: the row has a new place, and what is below it a new path.
MovedRows(f, gone, path) == [k \in Ids \ gone |->
    IF k = f.id THEN [row[k] EXCEPT !.parent = f.to, !.name = f.name, !.path = path[k]]
    ELSE IF k \in DOMAIN path THEN [row[k] EXCEPT !.path = path[k]] ELSE row[k]]

\* A bug to catch: a file that replaces another does not become it.
InheritsNothing(f, r, old) == r
\* Whoever replaces a file takes over its identity, if it has none of its own.
Inherits(f, r, old) ==
    IF old = {} \/ r[f.id].fid # NoId THEN r
    ELSE LET o == CHOOSE o \in old : TRUE IN
         [r EXCEPT ![f.id].fid = row[o].fid, ![f.id].etag = row[o].etag]

CommitsMove(f) ==
    /\ f.op = "move" /\ f.at = "commit" /\ ~Gone(f)
    /\ \E path \in Respelled(f.id, Destination(f)) :
       LET old  == ChildNamed(f.to, f.name) \ {f.id}
           gone == Doomed(old)
           new  == Inherits(f, MovedRows(f, gone, path), old)
       IN  /\ f.id \notin gone
           /\ row[f.to].dir \/ "stale place" \in Perils
           /\ old # {} /\ row[f.id].fid = NoId /\ row[f.id].etag # NoId => "late identity" \in Perils
           /\ IF Descends(f.to, f.id) \/ ~UniquePaths(new)
              THEN UNCHANGED <<row, ours>>
              ELSE row' = new /\ Drops(gone)
    /\ EndsFlow(f) /\ UNCHANGED <<srv, born, count>>

\* The buffer is discarded before the rows go, with all they owe.
CommitsRemove(f) ==
    /\ f.op = "remove" /\ f.at = "commit" /\ ~Gone(f)
    /\ LET gone == Doomed({f.id}) IN
       /\ row' = Restricted(Ids \ gone) /\ pending' = pending \ gone
       /\ buffer' = buffer \ {f.id}
       /\ strays' = (strays \ {f.id}) \cup (gone \cap buffer')
    /\ EndsFlow(f) /\ UNCHANGED <<srv, born, count>>
-----------------------------------------------------------------------------
(* Listings: the directory's id and path are read, the server is asked, and *)
(* the answer is applied to whatever the rows are by then.                  *)

Asks(s, d) ==
    /\ lst[s] = Idle /\ d \in Ids /\ row[d].dir
    /\ lst' = [lst EXCEPT ![s] = [at |-> "asked", dir |-> d, path |-> row[d].path,
                                 touched |-> Held, entries |-> {}]]
    /\ UNCHANGED <<srv, born, row, ours, flow, count>>

\* The server lists the folder, or has none of that name.
Entries(p) == {[name |-> Last(q), dir |-> srv[q].dir, fid |-> srv[q].fid] :
                  q \in {r \in DOMAIN srv : Folder(r) = p}}
Answers(s) ==
    /\ lst[s].at = "asked"
    /\ lst' = [lst EXCEPT ![s] = IF IsFolder(lst[s].path)
                                THEN [@ EXCEPT !.at = "answered", !.entries = Entries(lst[s].path)]
                                ELSE Idle]
    /\ UNCHANGED <<srv, born, row, ours, flow, count>>

\* A bug to catch: every row the listing lacks goes.
VanishedAll(d, E, safe) == {k \in Kids(d) \ safe : ~\E e \in E : e.name = row[k].name}
\* Rows the listing lacks, if they have been on the server.
Vanished(d, E, safe) == {k \in VanishedAll(d, E, safe) : row[k].fid # NoId}
\* A file where there was a directory, or the other way round, is another object.
Flipped(d, E, safe) == {k \in Kids(d) \ safe : \E e \in E : e.name = row[k].name /\ e.dir # row[k].dir}

Reconciled(d, path, E, safe, number) ==
    LET kept == Ids \ Doomed(Flipped(d, E, safe))
        Met(k) == {e \in E : k \in ChildNamed(d, e.name) \ safe}
        Known(k) == IF Met(k) = {} THEN row[k]
                    ELSE LET e == CHOOSE e \in Met(k) : TRUE IN
                         [row[k] EXCEPT !.fid = e.fid, !.etag = e.fid]
        New(k) == LET e == CHOOSE e \in DOMAIN number : number[e] = k IN
                  NewRow(d, e.name, Append(path, e.name), e.dir, e.fid)
        Listed(k) == IF k \in kept THEN Known(k) ELSE New(k)
    IN  [k \in kept \cup {number[e] : e \in DOMAIN number} |->
            IF k = d THEN [Listed(k) EXCEPT !.loaded = TRUE] ELSE Listed(k)]

\* reconcile_children_except, one transaction, undone if two rows would have the
\* same path. New rows are numbered in the order of the listing, whatever it is.
Applies(s) ==
    /\ lst[s].at = "answered"
    /\ LET l == lst[s]  d == l.dir  E == l.entries  safe == l.touched
           flipped == Doomed(Flipped(d, E, safe))
           gone == Doomed(Vanished(d, E, safe))
           left == Ids \ flipped
           next == 1 + CHOOSE i \in left : \A k \in left : k <= i
           new  == {e \in E : ChildNamed(d, e.name) \cap left = {}}
       IN  IF d \in safe THEN UNCHANGED <<row, ours>>
           ELSE \E number \in [new -> next..MaxId] :
              /\ \A e, x \in new : number[e] = number[x] => e = x
              /\ \A e \in new : number[e] = next \/ \E x \in new : number[x] = number[e] - 1
              /\ (d \in Ids /\ row[d].path = l.path /\ row[d].dir) \/ "stale place" \in Perils
              /\ LET rows == Reconciled(d, l.path, E, safe, number) IN
                 IF UniquePaths(rows)
                 THEN /\ row' = [k \in DOMAIN rows \ gone |-> rows[k]]
                      /\ Drops(gone \cup flipped)
                 ELSE UNCHANGED <<row, ours>>
    /\ lst' = [lst EXCEPT ![s] = Idle]
    /\ UNCHANGED <<srv, born, flow, count>>

-----------------------------------------------------------------------------
(* The daemon ends, and starts again: what was never uploaded and is not   *)
(* owed goes, rows and buffers alike.                                      *)

\* A bug to catch: what is owed goes with the rest.
NeverUploadedAtAll(r, owed) == {i \in DOMAIN r \ {Top} : r[i].fid = NoId /\ ~r[i].dir}
NeverUploaded(r, owed) == {i \in NeverUploadedAtAll(r, owed) : i \notin owed}

\* Provider::new on the rows r with `owed` uploads, and the uploader's sweep.
Starts(r, owed) ==
    /\ Counts("restarts", Restarts)
    /\ LET dead == NeverUploaded(r, owed) IN
       /\ row' = [i \in DOMAIN r \ dead |-> r[i]]
       /\ pending' = owed \ dead /\ buffer' = buffer \cap pending' /\ strays' = strays \cap buffer'
    /\ flow' = {} /\ lst' = [s \in Slots |-> Idle]
    /\ UNCHANGED <<srv, born>>

Restart == Starts(row, pending)

\* forget_children, with nothing mounted.
ClearsCache(d) ==
    /\ d \in Ids /\ row[d].dir /\ (d # Top)
    /\ LET gone == Doomed(Kids(d)) IN
       Starts([Restricted(Ids \ gone) EXCEPT ![d].loaded = FALSE], pending \ gone)

-----------------------------------------------------------------------------
TreeNext ==
    \/ \E p \in Paths : SomebodyDeletes(p) \/ \E dir \in BOOLEAN : SomebodyPuts(p, dir)
    \/ \E i \in 1..MaxId : \/ Edits(i) \/ Saves(i) \/ UploadsFile(i) \/ Collides(i) \/ BeginsToRemove(i)
                          \/ ClearsCache(i)
                          \/ \E n \in Names : Creates(i, n) \/ \E to \in 1..MaxId : BeginsToMove(i, to, n)
                          \/ \E s \in Slots : Asks(s, i)
    \/ \E f \in flow : AsksTheServer(f) \/ NeedsNoServer(f) \/ IsGone(f) \/ CommitsMove(f) \/ CommitsRemove(f)
    \/ \E s \in Slots : Answers(s) \/ Applies(s)
    \/ Restart

TreeSpec == TreeInit /\ [][TreeNext]_tvars

-----------------------------------------------------------------------------
(* Properties.                                                             *)

(* The tables hold what the schema admits; what is owed and what has a      *)
(* buffer of its own is a file's.                                           *)
TablesOK ==
    /\ Ids \subseteq 1..MaxId /\ Top \in Ids
    /\ \A i \in Ids : row[i].path \in Paths \cup {<<>>} /\ row[i].etag \in 0..born
    /\ UniquePaths(row) /\ \A i \in Ids, n \in Names : Cardinality(ChildNamed(i, n)) <= 1
    /\ \A p \in DOMAIN srv : IsFolder(Folder(p))
    /\ pending \cup strays \subseteq buffer /\ \A i \in pending : i \in Ids /\ ~row[i].dir

(* The path in a row, which requests are sent to, is the one its parents    *)
(* spell: no rename of a directory above it, and no listing that was under  *)
(* way at the time, leaves a row behind under an old name.                  *)
PathsAreSpelled == \A i \in Ids \ {Top} : row[i].parent \in Ids =>
                      row[i].path = Append(row[row[i].parent].path, row[i].name)

(* Every row is reached from the root: nothing is left of a directory that  *)
(* is gone, which no listing, removal or `cache clear` would find again.    *)
EveryRowIsReached == Ids = Below({Top})

(* A buffer is never read or uploaded as somebody else's: an id that is     *)
(* given out again comes without the buffer of who had it before.           *)
BuffersAreTheirOwn == strays \cap Ids = {}

(* With nobody else on the server, and the daemon up, no save collides: not *)
(* with what this client has uploaded, moved or replaced there itself. An   *)
(* atomic save, a temporary file renamed over the document, is an overwrite. *)
(* (A file may meet what is about to replace it.)                           *)
BeingReplaced == UNION {ChildNamed(f.to, f.name) : f \in {g \in flow : g.op = "move"}}
OnlyOthersCollide ==
    [][\A i \in (1..MaxId) \ Below(BeingReplaced) : Collides(i) => count.foreign + count.restarts > 0]_tvars

(* A saved change is owed until it is uploaded, its file is removed or      *)
(* replaced here, or the cache above it is cleared. No restart forgets it;  *)
(* and a listing does only if somebody else has been at the server, or a    *)
(* stop may have cut a rename or a deletion short, after the server's       *)
(* answer: never for what this client itself has made, moved or saved since *)
(* the listing was asked for.                                               *)
OwedStaysOwed ==
    [][\A i \in pending \ pending' :
         \/ UploadsFile(i) \/ Collides(i)
         \/ \E f \in flow : f.at = "commit" /\ f \notin flow'
                          /\ i \in Below({f.id}) \cup Below(ChildNamed(f.to, f.name))
         \/ \E d \in Ids : ClearsCache(d) /\ i \in Below(Kids(d))
         \/ /\ count.foreign > 0 \/ (count.restarts > 0 /\ count.flows > 0)
            /\ \E s \in Slots : Applies(s)]_tvars
=============================================================================
