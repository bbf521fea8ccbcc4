------------------------------ MODULE Listing ------------------------------
(***************************************************************************)
(* Listings of a directory beside the changes the machine makes in it      *)
(* (provider.rs: reload_dir, walk_dir, sync_loop, reconcile_if_quiet;      *)
(* activity.rs; state.rs: reconcile_children_except).                      *)
(*                                                                         *)
(* One directory below the root holds a few names. A change on the server  *)
(* advances its clock; the time is the etag of what was changed and, as    *)
(* etags propagate, of the directory and of the root. The machine's flows  *)
(* are here what a listing has to stay away from: whom they hold, their    *)
(* request to the server, their commit of the rows.                        *)
(*                                                                         *)
(* Not here: what a flow decides (Script), an upload that conflicts        *)
(* (WriteBack), subtrees that go with a row, announcements to the kernel.  *)
(***************************************************************************)
EXTENDS Integers, FiniteSets

CONSTANTS
    Names,
    Dir,         \* the directory
    Nobody,
    Listers,     \* those of AllListers that there are
    History,     \* objects the activity tracker remembers changes of
    Changes,     \* bound: changes on the server
    Flows,       \* bound: flows of the machine
    AtOnce,      \* bound: listings under way at once
    Perils

\* The syncer's walk, a background refresh, an `ls`, an upload's relist.
AllListers == {"walk", "refresh", "ls", "relist"}
\* "slow reconcile" -- a flow commits between the judgement on a listing and
\*                     the transaction that applies it
AllPerils == {"slow reconcile"}

ASSUME ListingAssumption ==
    /\ Dir \notin Names /\ Nobody \notin Names \cup {Dir}
    /\ Listers \subseteq AllListers /\ Perils \subseteq AllPerils
    /\ {History, Changes, Flows, AtOnce} \subseteq Nat

Objects == Names \cup {Dir}
Nothing == -1      \* no row, no file
Fresh   == 0       \* the etag of a row that is not on the server yet

VARIABLES
    clock,     \* the last change on the server
    srv,       \* [name -> its etag on the server, or Nothing]
    row,       \* [name -> the etag in its row, or Nothing]
    ident,     \* names whose rows have a file id
    dtag,      \* the directory's etag in its row
    flow,      \* [object -> the flow that holds it]
    flows,
    (* Activity *)
    seq, busy, changed, floor,
    epoch,     \* write_epoch
    lst,       \* [lister -> where it is and what it has taken]
    walked,    \* walked_root
    (* what was seen, for the properties *)
    asof,      \* [name -> the time on the server its row tells of]
    own,       \* [name -> the time of the change committed here last, unless a later
               \*          listing has superseded it]
    last       \* [object -> the seq at which it was last given free]

server   == <<clock, srv>>
rows     == <<row, ident, dtag, asof, own>>
activity == <<seq, busy, changed, floor, last>>
machine  == <<flow, flows>>
syncer   == <<lst, walked>>
vars     == <<server, rows, activity, machine, epoch, syncer>>

NoFlow == [op |-> "none"]
Idle   == [at |-> "idle"]
Free(o) == flow[o] = NoFlow

Init ==
    \* some files may have been made here before, and wait to be published
    /\ ident \in SUBSET Names /\ clock = 1 /\ dtag = 1
    /\ srv = [n \in Names |-> IF n \in ident THEN 1 ELSE Nothing]
    /\ row = [n \in Names |-> IF n \in ident THEN 1 ELSE Fresh]
    /\ flow = [o \in Objects |-> NoFlow] /\ flows = 0
    /\ seq = 0 /\ busy = {} /\ changed = [o \in {} |-> 0] /\ floor = 0
    /\ epoch = 0 /\ lst = [l \in Listers |-> Idle] /\ walked = Nothing
    /\ asof = [n \in Names |-> 1] /\ own = [n \in Names |-> 0]
    /\ last = [o \in Objects |-> 0]

-----------------------------------------------------------------------------
(* The activity tracker (activity.rs).                                     *)

\* The history with the objects that became busy or idle at seq'.
Noted(flipped) == [o \in DOMAIN changed \cup flipped |->
                      IF o \in flipped THEN seq + 1 ELSE changed[o]]

\* A bug to catch: what was forgotten is not distrusted.
SetBusyForgetting(now) ==
    IF now = busy THEN UNCHANGED activity
    ELSE LET flipped == (now \ busy) \cup (busy \ now) IN
         /\ seq' = seq + 1 /\ busy' = now /\ floor' = floor
         /\ changed' = IF Cardinality(DOMAIN Noted(flipped)) > History
                       THEN [o \in {} |-> 0] ELSE Noted(flipped)
         /\ last' = [o \in Objects |-> IF o \in busy \ now THEN seq + 1 ELSE last[o]]

\* set_busy: exactly these objects are busy now.
SetBusy(now) ==
    IF now = busy THEN UNCHANGED activity
    ELSE LET flipped == (now \ busy) \cup (busy \ now)
             full    == Cardinality(DOMAIN Noted(flipped)) > History
         IN  /\ seq' = seq + 1 /\ busy' = now
             /\ changed' = IF full THEN [o \in {} |-> 0] ELSE Noted(flipped)
             /\ floor' = IF full THEN seq + 1 ELSE floor
             /\ last' = [o \in Objects |-> IF o \in busy \ now THEN seq + 1 ELSE last[o]]

\* A bug to catch: idle now is taken for idle all along.
QuietNow(o, since) == o \notin busy
QuietSince(o, since) ==
    /\ since >= floor /\ o \notin busy
    /\ o \in DOMAIN changed => changed[o] <= since

-----------------------------------------------------------------------------
(* The machine's flows: they hold, ask the server, commit, give free.      *)

\* An operation of the machine on a name; `time` is the server's when it did it.
Operation(op, n, m, at) == [op |-> op, name |-> n, to |-> m, at |-> at, time |-> 0]

\* A flow holds the file, and the directory too if a name is to change.
Holds(op) == CASE op.op = "upload" -> {op.name}
               [] op.op = "ls"     -> {Dir}
               [] OTHER            -> {Dir, op.name}

Begins(op) ==
    /\ flows < Flows /\ flows' = flows + 1
    /\ \A o \in Holds(op) : Free(o)
    /\ flow' = [o \in Objects |-> IF o \in Holds(op) THEN op ELSE flow[o]]
    /\ SetBusy(busy \cup Holds(op))
    /\ UNCHANGED <<server, rows, epoch, syncer>>

BeginsToCreate(n) == row[n] = Nothing /\ Begins(Operation("create", n, n, "commit"))
BeginsToUpload(n) == row[n] # Nothing /\ Begins(Operation("upload", n, n, "server"))
\* What is not on the server needs no deletion there.
BeginsToDelete(n) ==
    row[n] # Nothing /\ Begins(Operation("delete", n, n, IF row[n] = Fresh THEN "commit" ELSE "server"))
BeginsToRename(n, m) == /\ row[n] \notin {Nothing, Fresh} /\ m # n /\ Free(m)
                        /\ Begins(Operation("rename", n, m, "server"))

Turns(op, new) == flow' = [o \in Objects |-> IF flow[o] = op THEN new ELSE flow[o]]

\* The server does it, or refuses: what it has is not what the flow assumed
\* (or the model's time is up).
AsksTheServer(op) ==
    /\ op.op # "none" /\ op.at = "server"
    /\ LET n == op.name
           known == IF row[n] = Fresh THEN Nothing ELSE row[n]
           fine  == IF op.op = "upload" THEN srv[n] = known ELSE srv[n] # Nothing
           new   == CASE op.op = "upload" -> [srv EXCEPT ![n] = clock + 1]
                      [] op.op = "delete" -> [srv EXCEPT ![n] = Nothing]
                      [] op.op = "rename" -> [srv EXCEPT ![op.to] = srv[n], ![n] = Nothing]
       IN  IF fine /\ clock < Changes
           THEN /\ clock' = clock + 1 /\ srv' = new
                /\ Turns(op, [op EXCEPT !.at = "commit", !.time = clock + 1])
                /\ epoch' = IF op.op = "rename" THEN epoch + 1 ELSE epoch
           ELSE Turns(op, [op EXCEPT !.at = "end"]) /\ UNCHANGED <<server, epoch>>
    /\ UNCHANGED <<rows, activity, flows, syncer>>

\* The rows follow. That a listing judged before the flow began has been applied
\* by then is what reconcile_if_quiet relies on.
Judged == \E l \in Listers : lst[l].at = "judged"
Commits(op) ==
    /\ op.op # "none" /\ op.at = "commit"
    /\ Judged => "slow reconcile" \in Perils
    /\ LET n == op.name
           of(f, v) == CASE op.op = "rename" -> [f EXCEPT ![n] = v, ![op.to] = v]
                         [] op.time = 0      -> f
                         [] OTHER            -> [f EXCEPT ![n] = v]
       IN  /\ row' = CASE op.op = "create" -> [row EXCEPT ![n] = Fresh]
                       [] op.op = "delete" -> [row EXCEPT ![n] = Nothing]
                       [] op.op = "upload" -> [row EXCEPT ![n] = op.time]
                       [] op.op = "rename" -> [row EXCEPT ![op.to] = row[n], ![n] = Nothing]
           /\ ident' = IF op.op = "rename"
                       THEN (ident \ {n, op.to}) \cup (IF n \in ident THEN {op.to} ELSE {})
                       ELSE IF op.op = "upload" THEN ident ELSE ident \ {n}
           /\ asof' = of(asof, op.time) /\ own' = of(own, op.time)
           \* a new file's row gets its file id from a relist
           /\ Turns(op, [op EXCEPT !.at = IF op.op = "upload" /\ n \notin ident THEN "relist" ELSE "end"])
    /\ UNCHANGED <<server, dtag, activity, flows, epoch, syncer>>

Ends(op) ==
    /\ op.op # "none" /\ op.at = "end"
    /\ flow' = [o \in Objects |-> IF flow[o] = op THEN NoFlow ELSE flow[o]]
    /\ SetBusy(busy \ Holds(op))
    /\ UNCHANGED <<server, rows, flows, epoch, syncer>>

-----------------------------------------------------------------------------
(* Somebody else's changes.                                                *)

SomebodyChanges(n) == \E gone \in BOOLEAN :
    /\ clock < Changes /\ clock' = clock + 1
    /\ gone => srv[n] # Nothing
    /\ srv' = [srv EXCEPT ![n] = IF gone THEN Nothing ELSE clock + 1]
    /\ UNCHANGED <<rows, activity, machine, epoch, syncer>>

-----------------------------------------------------------------------------
(* Listings: take the activity's seq, ask, judge, apply.                   *)

At(l, at)     == l \in Listers /\ lst[l].at = at
Goes(l, r)    == lst' = [lst EXCEPT ![l] = r]
MayBegin(l)   == /\ At(l, "idle")
                 /\ Cardinality({k \in Listers : lst[k] # Idle}) < AtOnce

\* What is read before the PROPFIND (reload_dir, walk_dir); `for` is the upload
\* that a relist belongs to, `root` what the walk knows of the root.
Taken(for, root) == [at |-> "asking", since |-> seq, epoch |-> epoch, for |-> for, root |-> root,
                     tag |-> 0, entries |-> [n \in Names |-> Nothing]]
NoRoot == [tag |-> Nothing, since |-> 0, epoch |-> 0]

\* The holder of the flow that asks is not a reason to distrust the listing.
Holder(l) == CASE l = "ls" -> Dir [] l = "relist" -> lst[l].for [] OTHER -> Nobody
Quiet(l, o) == o = Holder(l) \/ QuietSince(o, lst[l].since)

\* The root's etag is vouched for if nothing has changed here during the walk.
Vouches == LET r == lst["walk"].root IN epoch = r.epoch /\ seq = r.since

\* A bug to catch: the flow ends with its relist and the tracker is not told.
FlowAfterTheRelist(l) == CASE l = "ls" -> [flow EXCEPT ![Dir] = NoFlow]
                           [] l = "relist" -> [flow EXCEPT ![lst[l].for] = NoFlow]
                           [] OTHER -> flow
\* The lister is done, and so is the step of the flow it was.
FlowAfter(l) == CASE l = "ls" -> [flow EXCEPT ![Dir] = NoFlow]
                  [] l = "relist" -> [flow EXCEPT ![lst[l].for].at = "end"]
                  [] OTHER -> flow
Finishes(l) ==
    /\ Goes(l, Idle) /\ flow' = FlowAfter(l)
    /\ walked' = IF l # "walk" THEN walked ELSE IF Vouches THEN lst[l].root.tag ELSE Nothing

\* A refresh runs beside the machine, but none begins on a directory in use.
BeginsRefresh ==
    /\ MayBegin("refresh") /\ Free(Dir)
    /\ Goes("refresh", Taken(Nobody, NoRoot))
    /\ UNCHANGED <<server, rows, activity, machine, epoch, walked>>

\* An `ls` holds the directory; it changes nothing, so nobody counts as busy.
BeginsLs ==
    /\ MayBegin("ls") /\ Free(Dir)
    /\ flow' = [flow EXCEPT ![Dir] = Operation("ls", Dir, Dir, "relist")]
    /\ Goes("ls", Taken(Dir, NoRoot))
    /\ UNCHANGED <<server, rows, activity, flows, epoch, walked>>

BeginsRelist(n) ==
    /\ MayBegin("relist") /\ flow[n].op = "upload" /\ flow[n].at = "relist"
    /\ Goes("relist", Taken(n, NoRoot))
    /\ UNCHANGED <<server, rows, activity, machine, epoch, walked>>

\* A push: the root's etag is probed, and the walk begins if it has changed.
Probes ==
    /\ MayBegin("walk") /\ clock # walked
    /\ Goes("walk", [Taken(Nobody, [tag |-> clock, since |-> seq, epoch |-> epoch])
                     EXCEPT !.at = "root"])
    /\ UNCHANGED <<server, rows, activity, machine, epoch, walked>>

\* The walk lists the root, keeps the directory's etag unless a flow holds it,
\* and goes into the directory if its etag has changed.
WalksTheRoot ==
    /\ At("walk", "root")
    /\ dtag' = IF Quiet("walk", Dir) THEN clock ELSE dtag
    /\ IF clock # dtag
       THEN Goes("walk", Taken(Nobody, lst["walk"].root)) /\ UNCHANGED <<flow, walked>>
       ELSE Finishes("walk")
    /\ UNCHANGED <<server, row, ident, asof, own, activity, flows, epoch>>

Lists(l) ==
    /\ At(l, "asking")
    /\ Goes(l, [lst[l] EXCEPT !.at = "listed", !.tag = clock, !.entries = srv])
    /\ UNCHANGED <<server, rows, activity, machine, epoch, walked>>

\* reconcile_if_quiet's check, and before it the walk's of the write epoch; a
\* listing that is not trusted is dropped.
Judges(l) ==
    /\ At(l, "listed")
    /\ IF Quiet(l, Dir) /\ (l = "walk" => epoch = lst[l].epoch)
       THEN Goes(l, [lst[l] EXCEPT !.at = "judged"]) /\ UNCHANGED <<flow, walked>>
       ELSE Finishes(l)
    /\ UNCHANGED <<server, rows, activity, flows, epoch>>

\* A bug to catch: a row the listing lacks goes, new or not.
AppliedToAll(l, e) == Names
\* A bug to catch: a row the listing lacks never goes.
AppliedToTheListed(l, e) == {n \in Names : e[n] # Nothing /\ (row[n] = Nothing \/ Quiet(l, n))}
\* The rows a listing may touch: not those of files that are being changed, and
\* none that was never on the server.
Applied(l, e) == {n \in Names :
    IF row[n] = Nothing THEN e[n] # Nothing
    ELSE Quiet(l, n) /\ (e[n] # Nothing \/ n \in ident)}

\* reconcile_children_except, one transaction.
Reconciles(l) ==
    /\ At(l, "judged")
    /\ LET e == lst[l].entries  S == Applied(l, e) IN
       /\ row' = [n \in Names |-> IF n \in S THEN e[n] ELSE row[n]]
       /\ ident' = (ident \ S) \cup {n \in S : e[n] # Nothing}
       /\ asof' = [n \in Names |-> IF n \in S THEN lst[l].tag ELSE asof[n]]
       /\ own' = [n \in Names |-> IF n \in S /\ lst[l].tag > own[n] THEN 0 ELSE own[n]]
    /\ Finishes(l)
    /\ UNCHANGED <<server, dtag, activity, flows, epoch>>

\* A PROPFIND fails; a walk that is aborted vouches for nothing.
Fails(l) ==
    /\ l \in Listers /\ lst[l].at \in {"root", "asking"}
    /\ Goes(l, Idle)
    /\ walked' = IF l = "walk" THEN Nothing ELSE walked
    /\ flow' = FlowAfter(l)
    /\ UNCHANGED <<server, rows, activity, flows, epoch>>

-----------------------------------------------------------------------------
Operations == {flow[o] : o \in Objects}

FlowStep == \E op \in Operations : AsksTheServer(op) \/ Commits(op) \/ Ends(op)
Lister(l) == Lists(l) \/ Judges(l) \/ Reconciles(l) \/ Fails(l)

Next ==
    \/ \E n \in Names : BeginsToCreate(n) \/ BeginsToUpload(n) \/ BeginsToDelete(n)
                        \/ SomebodyChanges(n) \/ BeginsRelist(n)
    \/ \E n, m \in Names : BeginsToRename(n, m)
    \/ FlowStep \/ BeginsRefresh \/ BeginsLs \/ Probes \/ WalksTheRoot
    \/ \E l \in Listers : Lister(l)

Spec == Init /\ [][Next]_vars

-----------------------------------------------------------------------------
(* Properties.                                                             *)

Etags == {Nothing} \cup 0..Changes

(* The variables hold what the code can hold, and the flows what they must: *)
(* whoever is busy is held, and an operation holds all it has to.           *)
TypeOK ==
    /\ clock \in 1..Changes /\ srv \in [Names -> Etags \ {Fresh}]
    /\ row \in [Names -> Etags] /\ ident \subseteq {n \in Names : row[n] \notin {Nothing, Fresh}}
    /\ dtag \in 1..clock /\ busy \subseteq Objects /\ Cardinality(DOMAIN changed) <= History
    /\ \A o \in Objects : Free(o) \/ (flow[o].at \in {"server", "commit", "relist", "end"}
                                      /\ \A h \in Holds(flow[o]) : flow[h] = flow[o])
    /\ busy = {o \in Objects : ~Free(o) /\ flow[o].op # "ls"}

(* What the machine has done to a name is never undone by a listing: the    *)
(* row, or its absence, tells of a time on the server no earlier than that  *)
(* of the last change committed here -- no deleted file comes back, no      *)
(* rename or upload is taken back by a listing that was under way.          *)
CommitsStand == \A n \in Names : asof[n] >= own[n]

(* A listing is trusted only if the objects it is trusted for were left     *)
(* alone for all of it: quiet_since never calls quiet what was busy at any  *)
(* time since the listing began, however much of the history is forgotten.  *)
QuietMeansQuiet == \A l \in Listers, o \in Objects :
    lst[l].at \in {"asking", "listed"} /\ QuietSince(o, lst[l].since)
    => o \notin busy /\ last[o] <= lst[l].since

(* A file that was made here and has not reached the server is never        *)
(* dropped by a listing that cannot have it.                                *)
NewFilesStay ==
    [][\A n \in Names : row[n] = Fresh /\ row'[n] = Nothing => flow[n].op = "delete"]_vars

(* A listing that nothing has overtaken settles the directory: once it is   *)
(* applied, with no flow about, the rows agree with the server -- nothing   *)
(* is left behind that no listing will ever mend. A row without a file id   *)
(* is not held to it: the code takes it for a file that was never uploaded. *)
Settles(l) ==
    /\ At(l, "judged") /\ lst'[l] = Idle /\ lst[l].tag = clock
    /\ \A o \in Objects : flow'[o].op \in {"none", "ls"}
    /\ \A n \in Names : Quiet(l, n)
InStep(n) == row[n] = srv[n] \/ row[n] = Fresh
ListingsSettle ==
    [][\A l \in Listers : Settles(l) =>
         \A n \in Names : InStep(n)' \/ (row'[n] # Nothing /\ n \notin ident')]_vars

(* Nor does it leave a row for a file that was on the server and is gone:   *)
(* only what was never uploaded is kept though the listing lacks it.        *)
NoGhosts == [][\A l \in Listers : Settles(l) => \A n \in Names : InStep(n)']_vars

(* A root etag the syncer vouches for says that the directory is in step:   *)
(* unless the root has changed again, or somebody is at it, the rows agree. *)
VouchedIsCurrent ==
    walked = clock /\ (\A o \in Objects : Free(o)) /\ (\A l \in Listers : At(l, "idle"))
    => \A n \in Names : InStep(n) \/ n \notin ident
=============================================================================
