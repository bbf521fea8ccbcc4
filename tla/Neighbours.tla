----------------------------- MODULE Neighbours -----------------------------
(***************************************************************************)
(* The processes of one account (wusel: main.rs; wusel-core: mount,        *)
(* credentials, keyring, the start of Provider).                            *)
(*                                                                         *)
(* `wusel mount` and `wusel serve` are engines over the account's state     *)
(* database and scratch directory; `pin`, `update` and `unpin` open the    *)
(* same Provider for a moment; `cache clear` and `account remove` delete   *)
(* what the others work on; `login` replaces the credentials. No lock is    *)
(* held by any of them. What keeps them apart is a look before the act: at *)
(* the kernel's mounts, and at a marker the mount leaves beside its state, *)
(* because it may be mounted anywhere. Anything can happen in between, and  *)
(* history variables say to whom it did.                                    *)
(*                                                                         *)
(* An edit is what one file holds that its server does not: open in an     *)
(* engine, or published and owed. Each process runs once.                   *)
(***************************************************************************)
EXTENDS Integers, FiniteSets

CONSTANTS
    Processes, Nobody,
    Places, Home,   \* mountpoints; Home is the configured one
    NoPlace,
    Roles,          \* bound: which commands are run
    Edits, Logins,  \* bounds
    Crashes         \* bound

NoDb    == 0
Engines == {"mount", "serve"}
Tools   == {"tool", "clear", "remove", "login"}

ASSUME NeighboursAssumption ==
    /\ Home \in Places /\ NoPlace \notin Places /\ Nobody \notin Processes
    /\ {Edits, Logins, Crashes} \subseteq Nat
    /\ Roles \subseteq Engines \cup Tools

VARIABLES
    proc,       \* [process -> what it is, where it has got to, its mountpoint, the database
                \* it has open, and its set of owed]
    kernel,     \* [place -> the process whose mount is there, alive or not]
    marker,     \* state_dir/mountpoint
    scratch,    \* buffers on disk
    base,       \* the state database that is there; one that was deleted lives on for
                \* those who have it open
    owed,       \* pending_uploads, of any database
    open,       \* [process -> edits of files that are open in it]
    made,       \* edits made
    file,       \* credentials.json: whose it is, and where the password is
    entry,      \* the keyring's entry: whose password it is
    logins, crashes,
    cut,        \* history: the last login ended between the keyring and the file
    exposed,    \* history: edits that were in somebody's way
    crossed     \* history: mounts that another one, or a removal, came across

disk  == <<marker, scratch, base, owed>>
creds == <<file, entry, logins, cut>>
vars  == <<proc, kernel, disk, open, made, creds, crashes, exposed, crossed>>

At(p, where)   == proc[p].at = where
Is(p, role)    == proc[p].role = role
Goes(p, where) == proc' = [proc EXCEPT ![p].at = where]

Init ==
    /\ proc = [p \in Processes |-> [role |-> "none", at |-> "off", place |-> NoPlace,
                                    base |-> NoDb, keep |-> {}]]
    /\ kernel = [l \in Places |-> Nobody] /\ marker = NoPlace
    /\ exposed = {} /\ crossed = {} /\ base = 1
    /\ scratch = {} /\ owed = {} /\ open = [p \in Processes |-> {}] /\ made = 0
    /\ file = [login |-> 1, where |-> "file"] /\ entry = 0 /\ logins = 1 /\ crashes = 0
    /\ cut = FALSE

-----------------------------------------------------------------------------
(* What a process sees.                                                    *)

\* The kernel's table of mounts, and what the marker says.
Mounted(place) == kernel[place] # Nobody
Marked == {marker} \ {NoPlace}

\* A bug to catch: only the configured mountpoint is looked at.
LookedAtHome == {Home}
Looked == Marked \cup {Home}
LiveMount == {l \in Looked : Mounted(l)}

\* A bug to catch: a mount goes over another.
Overmounts(place) == FALSE
Conflict(place) == Mounted(place)

\* load: the file, and the keyring where the file says so.
Loads == file.login # 0 /\ (file.where = "file" \/ entry # 0)

Live(p) == At(p, "live")

-----------------------------------------------------------------------------
Starts(p, role, place) ==
    /\ At(p, "off") /\ role \in Roles /\ (place # Home => role = "mount")
    /\ role \in {"mount", "tool"} => Loads
    /\ role = "remove" => file.login # 0
    /\ role = "login" => logins < Logins /\ \A q \in Processes : Is(q, "login") => At(q, "over")
    /\ proc' = [proc EXCEPT ![p] = [role |-> role, at |-> "starting", place |-> place,
                                    base |-> NoDb, keep |-> {}]]
    /\ UNCHANGED <<kernel, disk, open, made, creds, crashes>>

(* The start of a Provider: what is owed is read, then what is not owed is  *)
(* removed.                                                                 *)

Builds(p) == \/ proc[p].role \in {"mount", "tool"} /\ At(p, "starting")
             \/ Is(p, "serve") /\ At(p, "checked") /\ Loads

ReadsOwed(p) ==
    /\ Builds(p)
    /\ proc' = [proc EXCEPT ![p].at = "wiping", ![p].base = base,
                            ![p].keep = {r.edit : r \in {x \in owed : x.base = base}}]
    /\ UNCHANGED <<kernel, disk, open, made, creds, crashes>>

\* A bug to catch: scratch is garbage, as it was before uploads were deferred.
KeptNothing(p) == {}
Kept(p) == scratch \cap proc[p].keep

Wipes(p) ==
    /\ At(p, "wiping") /\ scratch' = Kept(p)
    /\ proc' = [proc EXCEPT ![p].at = "opened", ![p].keep = {}]
    /\ UNCHANGED <<kernel, marker, base, owed, open, made, creds, crashes>>

(* wusel mount.                                                             *)

ChecksPlace(p) ==
    /\ Is(p, "mount") /\ At(p, "opened")
    /\ IF Conflict(proc[p].place) THEN Goes(p, "over") ELSE Goes(p, "checked")
    /\ UNCHANGED <<kernel, disk, open, made, creds, crashes>>

Marks(p) ==
    /\ Is(p, "mount") /\ At(p, "checked") /\ marker' = proc[p].place /\ Goes(p, "marked")
    /\ UNCHANGED <<kernel, scratch, base, owed, open, made, creds, crashes>>

Mounts(p) ==
    /\ At(p, "marked") /\ kernel' = [kernel EXCEPT ![proc[p].place] = p] /\ Goes(p, "live")
    /\ UNCHANGED <<disk, open, made, creds, crashes>>

\* By a signal or by umount; files that are open have been closed by then.
Unmounts(p) ==
    /\ Is(p, "mount") /\ Live(p) /\ open[p] = {}
    /\ kernel' = [l \in Places |-> IF kernel[l] = p THEN Nobody ELSE kernel[l]]
    /\ Goes(p, "ending")
    /\ UNCHANGED <<disk, open, made, creds, crashes>>

Unmarks(p) ==
    /\ At(p, "ending") /\ marker' = NoPlace /\ Goes(p, "over")
    /\ UNCHANGED <<kernel, scratch, base, owed, open, made, creds, crashes>>

(* wusel serve.                                                             *)

Serves(p) ==
    /\ Is(p, "serve") /\ At(p, "starting")
    /\ IF LiveMount # {} THEN Goes(p, "over") ELSE Goes(p, "checked")
    /\ UNCHANGED <<kernel, disk, open, made, creds, crashes>>

StartsEngine(p) ==
    /\ Is(p, "serve") /\ At(p, "opened") /\ Goes(p, "live")
    /\ UNCHANGED <<kernel, disk, open, made, creds, crashes>>

\* Its credentials fail, or its parent is gone: it exits as it is.
Exits(p) ==
    /\ Is(p, "serve") /\ (Live(p) \/ (At(p, "checked") /\ ~Loads))
    /\ Goes(p, "over") /\ open' = [open EXCEPT ![p] = {}]
    /\ UNCHANGED <<kernel, disk, made, creds, crashes>>

(* wusel pin, update and unpin: a Provider is all they need here.           *)

Finishes(p) ==
    /\ Is(p, "tool") /\ At(p, "opened") /\ Goes(p, "over")
    /\ UNCHANGED <<kernel, disk, open, made, creds, crashes>>

(* wusel cache clear: the database, then the cache directory.               *)

Clears(p) ==
    /\ Is(p, "clear") /\ At(p, "starting")
    /\ IF LiveMount # {} THEN Goes(p, "over") ELSE Goes(p, "clearing")
    /\ UNCHANGED <<kernel, disk, open, made, creds, crashes>>

\* A bug to catch: the buffers go first.
BuffersFirst(p) == IF At(p, "clearing") THEN scratch' = {} /\ base' = base
                                        ELSE scratch' = scratch /\ base' = base + 1
Deletes(p) == IF At(p, "clearing") THEN base' = base + 1 /\ scratch' = scratch
                                   ELSE base' = base /\ scratch' = {}
ClearsOn(p) ==
    /\ proc[p].at \in {"clearing", "halfway"} /\ Deletes(p)
    /\ Goes(p, IF At(p, "clearing") THEN "halfway" ELSE "over")
    /\ UNCHANGED <<kernel, marker, owed, open, made, creds, crashes>>

(* wusel account remove: the keyring's entry, then the directories.         *)

Forgets == entry' = 0

Removes(p) ==
    /\ Is(p, "remove")
    /\ \/ At(p, "starting") /\ Forgets /\ Goes(p, "forgotten") /\ UNCHANGED <<file, disk>>
       \/ /\ At(p, "forgotten") /\ Goes(p, "over") /\ file' = [login |-> 0, where |-> "file"]
          /\ marker' = NoPlace /\ scratch' = {} /\ base' = base + 1 /\ entry' = entry
    /\ UNCHANGED <<kernel, owed, open, made, logins, cut, crashes>>

(* wusel login: the keyring, if wanted and if it keeps what it is given,    *)
(* then the file. A keyring that does not is left without an entry, unless  *)
(* it is locked.                                                            *)

\* A bug to catch: nobody looks whether the keyring has it.
Believed(outcome) == outcome # "file"
InKeyring(outcome) == outcome = "keeps"

\* What each kind of keyring holds after it was given a password and asked for it.
Entry(outcome) == CASE outcome = "keeps" -> logins + 1 [] outcome = "forgets" -> 0
                    [] OTHER -> entry

LogsIn(p) ==
    /\ Is(p, "login") /\ At(p, "starting") /\ logins' = logins + 1
    /\ \E outcome \in {"file", "keeps", "forgets", "locked"} :
          /\ entry' = Entry(outcome)
          /\ Goes(p, IF InKeyring(outcome) THEN "entrusted" ELSE "stored")
    /\ UNCHANGED <<kernel, disk, open, made, file, cut, crashes>>

WritesFile(p) ==
    /\ proc[p].at \in {"stored", "entrusted"} /\ Goes(p, "over")
    /\ file' = [login |-> logins, where |-> IF At(p, "stored") THEN "file" ELSE "keyring"]
    /\ cut' = FALSE
    /\ UNCHANGED <<kernel, disk, open, made, entry, logins, crashes>>

-----------------------------------------------------------------------------
(* What happens in an engine, and to a process.                            *)

Writes(p) ==
    /\ Live(p) /\ made < Edits /\ made' = made + 1
    /\ scratch' = scratch \cup {made + 1} /\ open' = [open EXCEPT ![p] = @ \cup {made + 1}]
    /\ UNCHANGED <<proc, kernel, marker, base, owed, creds, crashes>>

Publishes(p) ==
    /\ Live(p) /\ open[p] # {}
    /\ owed' = owed \cup {[edit |-> e, base |-> proc[p].base] : e \in open[p]}
    /\ open' = [open EXCEPT ![p] = {}]
    /\ UNCHANGED <<proc, kernel, marker, scratch, base, made, creds, crashes>>

Uploads(p) ==
    /\ Live(p) /\ \E r \in owed : /\ r.base = proc[p].base
                               /\ owed' = owed \ {r} /\ scratch' = scratch \ {r.edit}
    /\ UNCHANGED <<proc, kernel, marker, base, open, made, creds, crashes>>

\* Killed: a mount stays in the kernel's table, and the marker on the disk.
Crash(p) ==
    /\ proc[p].at \notin {"off", "over"} /\ crashes < Crashes /\ crashes' = crashes + 1
    /\ Goes(p, "over") /\ open' = [open EXCEPT ![p] = {}]
    /\ cut' = (cut \/ proc[p].at \in {"stored", "entrusted"})
    /\ UNCHANGED <<kernel, disk, made, file, entry, logins>>

SomebodyUnmounts(l) ==
    /\ kernel[l] # Nobody /\ At(kernel[l], "over") /\ kernel' = [kernel EXCEPT ![l] = Nobody]
    /\ UNCHANGED <<proc, disk, open, made, creds, crashes>>

-----------------------------------------------------------------------------
(* What came between: a look, or a reading of what is owed, on one side and *)
(* the act upon it on the other.                                            *)

\* Whoever holds a database goes on with it, also when it has been deleted.
Uses(p)   == proc[p].role \in Engines /\ proc[p].base # NoDb /\ ~At(p, "over")
Relied(r) == r.base = base \/ \E p \in Processes : Uses(p) /\ proc[p].base = r.base
Owed      == {r.edit : r \in {x \in owed : Relied(x)}}
Open      == UNION {open[p] : p \in Processes}

Clearing(p) == proc[p].at \in {"clearing", "halfway", "forgotten"}
Exposed ==
    {e \in Open \cup Owed :
        \/ e \in Open /\ \E p \in Processes : At(p, "wiping") \/ Clearing(p)
        \/ (\E p \in Processes : Clearing(p)) /\ \E q \in Processes : Uses(q)
        \/ \E q \in Processes : e \in open[q] /\ proc[q].base # base}
Crossed ==
    {p \in Processes : /\ Is(p, "mount") /\ proc[p].at \in {"marked", "live"}
                       /\ \E q \in Processes \ {p} : proc[q].at \in {"marked", "ending", "forgotten"}}

Acts ==
    \/ \E p \in Processes :
          \/ \E role \in Roles, place \in Places : Starts(p, role, place)
          \/ ReadsOwed(p) \/ Wipes(p)
          \/ ChecksPlace(p) \/ Marks(p) \/ Mounts(p) \/ Unmounts(p) \/ Unmarks(p)
          \/ Serves(p) \/ StartsEngine(p) \/ Exits(p) \/ Finishes(p)
          \/ Clears(p) \/ ClearsOn(p) \/ Removes(p) \/ LogsIn(p) \/ WritesFile(p)
          \/ Writes(p) \/ Publishes(p) \/ Uploads(p) \/ Crash(p)
    \/ \E l \in Places : SomebodyUnmounts(l)

Next == Acts /\ exposed' = exposed \cup Exposed' /\ crossed' = crossed \cup Crossed'
Spec == Init /\ [][Next]_vars

-----------------------------------------------------------------------------
(* Properties.                                                             *)

(* Whatever is started beside an engine or after its end, and wherever it   *)
(* stops, an edit keeps its bytes, open or owed -- but for those that were  *)
(* open while another process was between its reading of what is owed, or   *)
(* its look for mounts, and what it then deletes, and for an engine whose   *)
(* database was deleted under it.                                           *)
EditsSurviveNeighbours == (Open \cup Owed) \ exposed \subseteq scratch

(* One engine per state database; and no edit without its bytes at all.     *)
OneEngine == \A p, q \in Processes : Live(p) /\ Live(q) => p = q
NoEditIsLost == Open \cup Owed \subseteq scratch

(* A live mount of the account is found by whoever looks for it, wherever   *)
(* it is and whatever the dead have left -- unless another mount was about  *)
(* to begin or to end beside it, or the account was being removed.          *)
LiveMountsAreSeen ==
    \A p \in Processes \ crossed : Is(p, "mount") /\ Live(p) => LiveMount # {}

(* A login is kept until another one has taken its place, and its password *)
(* is its own, whatever the keyring does -- until the account is removed,   *)
(* or a login is killed half-way; and the next one that is not mends that.  *)
LoginsAreWhole ==
    \/ cut \/ \E p \in Processes : Is(p, "remove")
    \/ \E p \in Processes : proc[p].at \in {"stored", "entrusted"}
    \/ Loads /\ file.login = logins /\ (file.where = "keyring" => entry = file.login)
=============================================================================
