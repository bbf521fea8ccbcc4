----------------------------- MODULE Heartbeat -----------------------------
(***************************************************************************)
(* How the daemon learns that something has changed or that the server is  *)
(* gone while nobody uses the mount (push.rs, health.rs, the syncer of     *)
(* provider.rs): the notify_push listener with its discovery, connection,  *)
(* probe and back-off; the poller that stands in for it; the syncer that   *)
(* walks when it is told to; and Reachability, to which every request      *)
(* reports and which tells the desktop.                                    *)
(*                                                                         *)
(* The tree is one version number here (Listing has the walk); times are   *)
(* two bits: an outage is confirmed, the quiet time after one is over.     *)
(***************************************************************************)
EXTENDS Naturals, Sequences

CONSTANTS
    Changes, Outages, Drops,   \* bounds: changes, outages, connections lost
    Perils                     \* subset of {"failed walk", "overtaken"}

ASSUME HeartbeatAssumption ==
    /\ {Changes, Outages, Drops} \subseteq Nat
    /\ Perils \subseteq {"failed walk", "overtaken"}

VARIABLES
    up, offers, version, outages, drops,   \* the server
    socket, event,       \* the connection; a notify_file on its way over it
    phase, at,           \* PushStatus::phase, and where the listener is
    trigger,             \* the syncer's channel holds something
    syncer, probed, walked, rows,
    health,              \* Reachability::state, `down`, and the quiet time
    todo,                \* [reporter -> what it still has to tell the desktop]
    emblem, toasts, failed

server   == <<up, offers, version, outages, drops>>
listener == <<phase, at>>
walk     == <<syncer, probed, walked, rows, failed>>
shown    == <<health, todo, emblem, toasts>>
vars     == <<server, socket, event, listener, trigger, walk, shown>>

Reporters == {"listener", "syncer", "worker"}
None      == Changes + 1     \* no version
Well      == [outage |-> "none", marked |-> FALSE, announced |-> FALSE, quiet |-> FALSE]

Init ==
    /\ up = TRUE /\ version = 0 /\ outages = 0 /\ drops = 0
    /\ offers \in {"working endpoint", "broken endpoint", "nothing", "refusal"}
    /\ socket = "none" /\ event = FALSE
    /\ phase = "Discovering" /\ at = "discover" /\ trigger = FALSE
    /\ syncer = "idle" /\ probed = None /\ walked = None /\ rows = 0 /\ failed = FALSE
    /\ health = Well /\ todo = [r \in Reporters |-> <<>>] /\ emblem = "Idle" /\ toasts = <<>>

-----------------------------------------------------------------------------
(* The server and the network.                                             *)

ItChanges ==
    /\ version < Changes /\ version' = version + 1 /\ event' = (event \/ socket = "open")
    /\ UNCHANGED <<up, offers, outages, drops, socket, listener, trigger, walk, shown>>

GoesDown ==
    /\ up /\ outages < Outages /\ up' = FALSE /\ outages' = outages + 1
    /\ socket' = (IF socket = "open" THEN "lost" ELSE socket) /\ event' = FALSE
    /\ UNCHANGED <<offers, version, drops, listener, trigger, walk, shown>>

ComesBack == ~up /\ up' = TRUE /\ UNCHANGED <<offers, version, outages, drops, socket, event,
                                              listener, trigger, walk, shown>>

\* A connection breaks, with what was on its way; keepalive will notice it.
Breaks ==
    /\ socket = "open" /\ drops < Drops /\ drops' = drops + 1 /\ socket' = "lost" /\ event' = FALSE
    /\ UNCHANGED <<up, offers, version, outages, listener, trigger, walk, shown>>

-----------------------------------------------------------------------------
(* Reachability. What is decided under its lock is told to the desktop     *)
(* after it.                                                               *)

\* One thread may decide while another has not delivered yet.
Tells(r, news) ==
    /\ \A q \in Reporters : (q = r \/ "overtaken" \notin Perils) => todo[q] = <<>>
    /\ todo' = [todo EXCEPT ![r] = news] /\ UNCHANGED <<emblem, toasts>>

Given(c, news) == IF c THEN <<news>> ELSE <<>>

\* A bug to catch: every end of an outage is told.
EveryEnd == Given(TRUE, "restored") \o Given(health.marked, "cleared")
\* A bug to catch: the emblem goes with the toast.
EndOfToast == IF health.announced THEN <<"restored", "cleared">> ELSE <<>>
\* What the end of this outage is worth: a toast if there was one before.
End == Given(health.announced, "restored") \o Given(health.marked, "cleared")

\* Reachability::ok. An announced end begins the quiet time.
Ok(r) ==
    IF health.outage = "none" THEN todo[r] = <<>> /\ UNCHANGED shown
    ELSE /\ health' = [Well EXCEPT !.quiet = health.announced \/ health.quiet]
         /\ Tells(r, End)

Announces(confirmed) == confirmed /\ ~health.quiet /\ ~health.announced

\* A bug to catch: every failure starts the clock.
BeginsAnew == TRUE
Begins == health.outage = "none"

\* Reachability::failed. The first starts the clock; a later one may be due.
Failed(r) ==
    IF Begins THEN /\ health' = [health EXCEPT !.outage = "new"] /\ Tells(r, <<>>)
    ELSE LET confirmed == health.outage = "confirmed"
             marks     == confirmed /\ ~health.marked
         IN  /\ health' = [health EXCEPT !.marked = @ \/ marks,
                                         !.announced = @ \/ Announces(confirmed)]
             /\ Tells(r, Given(marks, "marked") \o Given(Announces(confirmed), "lost"))

\* WebDavClient::send: every request says how it went.
Reports(r) == IF up THEN Ok(r) ELSE Failed(r)

Delivers(r) ==
    /\ todo[r] # <<>> /\ todo' = [todo EXCEPT ![r] = Tail(@)]
    /\ LET news == Head(todo[r])
       IN  /\ emblem' = IF news = "marked" THEN "Error" ELSE IF news = "cleared" THEN "Idle" ELSE emblem
           /\ toasts' = IF news \in {"lost", "restored"} THEN Append(toasts, news) ELSE toasts
    /\ UNCHANGED <<server, socket, event, listener, trigger, walk, health>>

\* CONFIRM_AFTER has passed, QUIET_AFTER_RESTORE has.
Confirms  == /\ health.outage = "new" /\ health' = [health EXCEPT !.outage = "confirmed"]
             /\ UNCHANGED <<server, socket, event, listener, trigger, walk, todo, emblem, toasts>>
QuietEnds == /\ health.quiet /\ health' = [health EXCEPT !.quiet = FALSE]
             /\ UNCHANGED <<server, socket, event, listener, trigger, walk, todo, emblem, toasts>>

\* Somebody uses the mount.
Uses == Reports("worker") /\ UNCHANGED <<server, socket, event, listener, trigger, walk>>

-----------------------------------------------------------------------------
(* The listener (push::run).                                               *)

Discovers ==
    /\ at = "discover"
    /\ IF ~up THEN Failed("listener") /\ UNCHANGED listener
       ELSE /\ IF offers = "refusal" THEN UNCHANGED shown ELSE Ok("listener")
            /\ IF offers \in {"nothing", "refusal"}
               THEN phase' = "Unavailable" /\ at' = "over"
               ELSE phase' = "Connecting" /\ at' = "connect"
    /\ UNCHANGED <<server, socket, event, trigger, walk>>

\* A bug to catch: the listener catches up on the first connection only.
CatchesUpOnce == trigger \/ phase = "Connecting"
\* Authenticated: what was missed while nobody listened is caught up.
CatchesUp == TRUE

Connects ==
    /\ at = "connect" /\ up /\ offers = "working endpoint"
    /\ socket' = "open" /\ event' = FALSE /\ phase' = "Connected" /\ at' = "listen"
    /\ trigger' = CatchesUp /\ Ok("listener")
    /\ UNCHANGED <<server, walk>>

CannotConnect ==
    /\ at = "connect" /\ ~(up /\ offers = "working endpoint") /\ at' = "probe"
    /\ UNCHANGED <<server, socket, event, phase, trigger, walk, shown>>

Hears ==
    /\ at = "listen" /\ event /\ event' = FALSE /\ trigger' = TRUE
    /\ UNCHANGED <<server, socket, listener, walk, shown>>

\* The connection ends: closed, or broken, which asks for a look at the server.
ConnectionEnds ==
    /\ at = "listen" /\ socket = "lost" /\ socket' = "none"
    /\ \/ at' = "probe" /\ UNCHANGED phase
       \/ at' = "wait" /\ phase' = "Reconnecting"
    /\ UNCHANGED <<server, event, trigger, walk, shown>>

\* A bug to catch: the socket's failure is reported as the server's.
BlamesTheServer == Failed("listener")
\* A socket that fails is no verdict on the server: a request is.
JudgesTheServer == Reports("listener")

\* probe_server.
Probes ==
    /\ at = "probe" /\ at' = "wait" /\ phase' = "Reconnecting" /\ JudgesTheServer
    /\ UNCHANGED <<server, socket, event, trigger, walk>>

Wakes == /\ at = "wait" /\ at' = "connect"
         /\ UNCHANGED <<server, socket, event, phase, trigger, walk, shown>>

-----------------------------------------------------------------------------
(* The poller and the syncer.                                              *)

\* A bug to catch: it polls only where there is no endpoint at all.
MayPollLate == phase = "Unavailable"
MayPoll == phase # "Connected"

Polls == /\ MayPoll /\ ~trigger /\ trigger' = TRUE
         /\ UNCHANGED <<server, socket, event, listener, walk, shown>>

\* sync_loop asks for the root's etag; if it gets none it walks anyway.
Looks ==
    /\ syncer = "idle" /\ trigger /\ trigger' = FALSE
    /\ Reports("syncer")
    /\ probed' = IF up THEN version ELSE None
    /\ syncer' = IF up /\ version = walked THEN "idle" ELSE "walking"
    /\ UNCHANGED <<server, socket, event, listener, walked, rows, failed>>

Lists ==
    /\ syncer = "walking" /\ up /\ rows' = version /\ syncer' = "listed" /\ Ok("syncer")
    /\ UNCHANGED <<server, socket, event, listener, trigger, probed, walked, failed>>

\* A bug to catch: a walk that was aborted vouches for the root.
AfterAbortAsIf == probed
AfterAbort == None

CannotList ==
    /\ syncer = "walking" /\ (~up \/ ("failed walk" \in Perils /\ ~failed))
    /\ syncer' = "idle" /\ walked' = AfterAbort /\ Failed("syncer") /\ failed' = (failed \/ up)
    /\ UNCHANGED <<server, socket, event, listener, trigger, probed, rows>>

\* Something is saved here during the walk: a listing is left out, the walk
\* vouches for nothing, and the server tells of the change.
Interferes ==
    /\ syncer = "walking" /\ up /\ version < Changes
    /\ version' = version + 1 /\ event' = (event \/ socket = "open")
    /\ syncer' = "idle" /\ walked' = None
    /\ UNCHANGED <<up, offers, outages, drops, socket, listener, trigger, probed, rows, failed, shown>>

WalkEnds ==
    /\ syncer = "listed" /\ syncer' = "idle" /\ walked' = probed
    /\ UNCHANGED <<server, socket, event, listener, trigger, probed, rows, failed, shown>>

-----------------------------------------------------------------------------
Listens == Discovers \/ Connects \/ CannotConnect \/ Hears \/ ConnectionEnds \/ Probes \/ Wakes
Syncs   == Looks \/ Lists \/ CannotList \/ WalkEnds
Next ==
    \/ ItChanges \/ GoesDown \/ ComesBack \/ Breaks \/ Uses \/ Confirms \/ QuietEnds
    \/ Listens \/ Polls \/ Syncs \/ Interferes
    \/ \E r \in Reporters : Delivers(r)

Spec == Init /\ [][Next]_vars

\* The threads go on, the clock too.
FairSpec == /\ Spec /\ WF_vars(Listens) /\ WF_vars(Polls) /\ WF_vars(Syncs)
            /\ WF_vars(Confirms) /\ WF_vars(QuietEnds)
            /\ \A r \in Reporters : WF_vars(Delivers(r))

-----------------------------------------------------------------------------
(* Properties.                                                             *)

(* A server that has answered every request is never shown or announced as  *)
(* out of reach, however its push endpoint fails.                           *)
NoFalseAlarm == outages = 0 /\ ~failed => emblem = "Idle" /\ toasts = <<>>

(* The user hears of an outage, of its end, and so on in turn -- never twice *)
(* of one, never of the end of one they have not heard of.                  *)
ToastsAlternate ==
    \A i \in 1..Len(toasts) : toasts[i] = IF i % 2 = 1 THEN "lost" ELSE "restored"

(* A walk passes the tree by only if the rows are at the version the server *)
(* had when it was asked.                                                   *)
VouchedForIsThere == walked # None => rows >= walked

(* Every change on the server reaches the rows, whatever connections break, *)
(* without anybody opening a directory: the server stays up in the end.     *)
EveryChangeIsFound == <>[]up => \A n \in 1..Changes : (version = n) ~> (rows >= n)

(* A mount nobody touches shows that the server is gone, and that it is     *)
(* back, if it stays so.                                                    *)
OutageIsShown   == <>[]~up => <>[](emblem = "Error")
RecoveryIsShown == <>[]up => <>[](emblem = "Idle")
=============================================================================
