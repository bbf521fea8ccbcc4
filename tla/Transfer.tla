------------------------------ MODULE Transfer ------------------------------
(***************************************************************************)
(* Saving one document to the server (webdav.rs): the conditional PUT, the *)
(* chunked upload with its check up front, its collection of chunks, its   *)
(* assembling MOVE and the probes after it, downloads and deletions, by    *)
(* several clients at once; the server is the mock server of the           *)
(* repository (wusel-mock), which answers one request at a time.           *)
(*                                                                         *)
(* One action is one request, as the server handles it and the client acts *)
(* upon the answer: between two requests of a client others come in. An    *)
(* upload is told from others by its number, which is also the version its *)
(* content becomes; a chunk is a pair of its place and that number.        *)
(*                                                                         *)
(* Not here: URLs, XML, dates; ranges of a GET; what callers do with the   *)
(* answer (WriteBack); a request that takes effect after it was given up.  *)
(***************************************************************************)
EXTENDS Integers, FiniteSets

CONSTANTS
    Clients,
    Sizes,
    Parts,       \* chunks to a chunked upload
    Uploads,     \* bound: uploads
    Faults,      \* bound: requests that do not go as they should
    Sweepable    \* the server deletes collections of chunks (the mock does not)

ASSUME TransferAssumption ==
    /\ Parts \in Nat \ {0} /\ {Uploads, Faults} \subseteq Nat
    /\ Sizes # {} /\ Sweepable \in BOOLEAN

VARIABLES
    file,      \* the document on the server, or Absent
    staged,    \* [upload -> the chunks in its collection, or NoCollection]
    call,      \* [client -> what it is busy with]
    base,      \* [client -> the version it builds on: an upload, Unknown, or None]
    verdict,   \* [client -> what the last upload came to]
    faults,
    (* what was seen, for the properties *)
    owner,     \* sequence of the uploads' clients, as a function
    landed,    \* uploads that have been the document
    known,     \* [client -> versions it has written or read]
    window,    \* [client -> versions others wrote during its chunked upload]
    hurt,      \* clients whose request had its effect and not its answer, since they read
    left       \* uploads that ended without their collection being deleted

server  == <<file, staged>>
history == <<owner, landed, known, window, hurt, left>>
vars == <<server, call, base, verdict, faults, history>>

-----------------------------------------------------------------------------
Unknown == 0
None    == -1
Absent  == [ver |-> None]
NoCollection == {<<0, 0>>}
NoCall  == [at |-> "idle"]
NoVerdict == [is |-> "none"]

Whole(v)  == {<<i, v>> : i \in 1..Parts}
Begun     == Cardinality(DOMAIN owner)
Busy(c)   == call[c].at # "idle"
There     == file.ver # None

\* The version in the server's answer to a PROPFIND or a GET; None for a 404.
Listed  == file.ver
Fetched == file.ver

\* What an upload asserts about the document (Precondition).
MustNotExist  == [asks |-> "nothing there"]
Unconditional == [asks |-> "nothing"]
Match(v)      == [asks |-> "version", ver |-> v]

\* A bug to catch: a version that is not known is taken for no file.
ForUploadFromTheEtag(b) == IF b \in {None, Unknown} THEN MustNotExist ELSE Match(b)
ForUpload(b) == CASE b = None -> MustNotExist [] b = Unknown -> Unconditional [] OTHER -> Match(b)

\* The server's answer to If-Match and If-None-Match (precondition_ok).
PreconditionOk(pre) ==
    CASE pre.asks = "nothing there" -> ~There
      [] pre.asks = "version"       -> file.ver = pre.ver
      [] OTHER                      -> TRUE

\* What put_chunked makes of the etag it reads: a document that has vanished
\* meets Match.
CheckOk(pre, etag) ==
    CASE pre.asks = "nothing there" -> etag = None
      [] pre.asks = "version"       -> etag \in {pre.ver, None}
      [] OTHER                      -> TRUE

\* A bug to catch: uploads of one process meet in one collection.
CollectionOfThePid(c) == 1
CollectionOf(c) == call[c].id

Init ==
    /\ file = Absent /\ staged = [u \in 1..Uploads |-> NoCollection]
    /\ call = [c \in Clients |-> NoCall] /\ base = [c \in Clients |-> None]
    /\ verdict = [c \in Clients |-> NoVerdict] /\ faults = 0
    /\ owner = [u \in {} |-> None] /\ landed = {}
    /\ known = [c \in Clients |-> {}] /\ window = [c \in Clients |-> {}]
    /\ hurt = {} /\ left = {}

-----------------------------------------------------------------------------
(* The pieces of a step.                                                   *)

\* A request is "served" and answered; at a cost the answer is without an etag
\* ("bare"), the request is "refused" (an error, nothing done) or "garbled"
\* (done, and answered with an error or not at all).
Fates == {"served"} \cup IF faults < Faults THEN {"bare", "refused", "garbled"} ELSE {}
Good  == {"served", "bare"}

Costs(c, fate) ==
    /\ faults' = IF fate = "served" THEN faults ELSE faults + 1
    /\ hurt' = IF fate = "garbled" THEN hurt \cup {c} ELSE hurt

NoChange == UNCHANGED <<server, landed, known, window>>

\* The document becomes the upload of c; the others' chunked uploads miss it.
Replaced(c, body) ==
    /\ file' = [ver |-> call[c].id, size |-> call[c].size, body |-> body]
    /\ landed' = landed \cup {call[c].id}
    /\ known' = [known EXCEPT ![c] = @ \cup {call[c].id}]
    /\ window' = [d \in Clients |-> IF d # c /\ Busy(d) /\ call[d].chunked
                                    THEN window[d] \cup {call[c].id} ELSE window[d]]

Stage(c, chunks) == /\ staged' = [staged EXCEPT ![CollectionOf(c)] = chunks]
                    /\ UNCHANGED <<file, landed, known, window>>
Collected(c) == IF staged[CollectionOf(c)] = NoCollection THEN {} ELSE staged[CollectionOf(c)]
CanAssemble(c) == staged[CollectionOf(c)] # NoCollection

\* What the server does at a request (put, handle_upload, assemble_upload).
Effect(c) ==
    CASE call[c].at = "put" /\ PreconditionOk(call[c].pre) ->
             Replaced(c, Whole(call[c].id)) /\ UNCHANGED staged
      [] call[c].at = "collection" -> Stage(c, Collected(c))
      [] call[c].at = "chunk" -> Stage(c, Collected(c) \cup {<<call[c].part, call[c].id>>})
      [] call[c].at = "assemble" /\ CanAssemble(c) ->
             /\ Replaced(c, Collected(c))
             /\ staged' = [staged EXCEPT ![CollectionOf(c)] = NoCollection]
      [] call[c].at = "sweep" /\ Sweepable -> Stage(c, NoCollection)
      [] OTHER -> NoChange

\* One request of c: its effect, unless it is refused.
Request(c, at, fate) ==
    /\ call[c].at = at /\ fate \in Fates /\ Costs(c, fate)
    /\ IF fate = "refused" THEN NoChange ELSE Effect(c)
    /\ UNCHANGED owner

Goes(c, at) == /\ call' = [call EXCEPT ![c].at = at, ![c].tries = 1]
               /\ UNCHANGED <<base, verdict>>

\* The upload is answered; the base of the next one is the etag it was told.
Ends(c, is, etag, guessed) ==
    /\ call' = [call EXCEPT ![c] = NoCall]
    /\ verdict' = [verdict EXCEPT ![c] =
           [is |-> is, id |-> call[c].id, met |-> file.ver, guessed |-> guessed]]
    /\ base' = IF is = "uploaded" THEN [base EXCEPT ![c] = etag] ELSE base

Leaves(c, unless) == left' = IF unless THEN left ELSE left \cup {call[c].id}

-----------------------------------------------------------------------------
(* Between uploads.                                                        *)

Begins(c, size, chunked) ==
    /\ ~Busy(c) /\ Begun < Uploads
    /\ verdict[c].is # "conflict"      \* the copy on the server is read first
    /\ LET id == Begun + 1  pre == ForUpload(base[c]) IN
       /\ owner' = [u \in 1..id |-> IF u = id THEN c ELSE owner[u]]
       /\ call' = [call EXCEPT ![c] =
              [at |-> IF ~chunked THEN "put" ELSE IF pre = Unconditional THEN "collection" ELSE "check",
               id |-> id, size |-> size, chunked |-> chunked, pre |-> pre,
               part |-> 1, tries |-> 1]]
       /\ window' = [window EXCEPT ![c] = @ \cap {base[c]}]
    /\ UNCHANGED <<server, base, verdict, faults, landed, known, hurt, left>>

\* Reads the document and its etag (get_with_etag), or learns that it is gone.
Reads(c) ==
    /\ ~Busy(c) /\ (base[c] # Fetched \/ verdict[c].is = "conflict")
    /\ base' = [base EXCEPT ![c] = Fetched]
    /\ known' = [known EXCEPT ![c] = @ \cup {Fetched}]
    /\ verdict' = [verdict EXCEPT ![c] = NoVerdict] /\ hurt' = hurt \ {c}
    /\ UNCHANGED <<server, call, faults, owner, landed, window, left>>

Removed == There /\ file' = Absent

\* DELETE has no precondition.
Deletes(c) ==
    /\ ~Busy(c) /\ base[c] # None
    /\ Removed /\ base' = [base EXCEPT ![c] = None]
    /\ UNCHANGED <<staged, call, verdict, faults, history>>

-----------------------------------------------------------------------------
(* Uploads.                                                                *)

MaxAttempts == 3

\* A transport error without a response: the request goes out again, whether it
\* had its effect or not (send_retrying).
Resends(c) ==
    /\ Busy(c) /\ call[c].tries < MaxAttempts
    /\ \E fate \in {"refused", "garbled"} : Request(c, call[c].at, fate)
    /\ call' = [call EXCEPT ![c].tries = @ + 1]
    /\ UNCHANGED <<base, verdict, left>>

\* put_conditional
Puts(c) == \E fate \in Fates :
    /\ Request(c, "put", fate) /\ UNCHANGED left
    /\ IF fate \notin Good THEN Ends(c, "failed", None, FALSE)
       ELSE IF ~PreconditionOk(call[c].pre) THEN Ends(c, "conflict", None, FALSE)
       ELSE Ends(c, "uploaded", IF fate = "bare" THEN Unknown ELSE call[c].id, FALSE)

\* etag_of: no etag in the answer, or no document, is none.
EtagOf(fate) == IF fate = "bare" THEN None ELSE Listed
\* put_chunked: the precondition is checked by asking for the etag; a document
\* that is listed without one passes for none ...
Checks(c) == \E fate \in Fates :
    /\ Request(c, "check", fate) /\ UNCHANGED left
    /\ IF fate \notin Good THEN Ends(c, "failed", None, FALSE)
       ELSE IF ~CheckOk(call[c].pre, EtagOf(fate)) THEN Ends(c, "conflict", None, FALSE)
       ELSE Goes(c, "collection")

\* ... then a collection is made; nothing is cleaned up if that fails ...
MakesCollection(c) == \E fate \in Fates :
    /\ Request(c, "collection", fate)
    /\ Leaves(c, fate \in Good)
    /\ IF fate \in Good THEN Goes(c, "chunk") ELSE Ends(c, "failed", None, FALSE)

\* A bug to catch: the loop over the chunks runs once too often.
SendsOneMore(c) == \E fate \in Fates :
    /\ Request(c, "chunk", fate) /\ UNCHANGED <<base, verdict, left>>
    /\ call' = [call EXCEPT ![c].at = IF fate \notin Good THEN "sweep"
                                      ELSE IF @ = "chunk" /\ call[c].part <= Parts THEN "chunk" ELSE "assemble",
                            ![c].part = @ + 1, ![c].tries = 1]

\* A bug to catch: a chunk that fails ends the upload, and its collection stays.
SendsOrFails(c) == \E fate \in Fates :
    /\ Request(c, "chunk", fate) /\ UNCHANGED left
    /\ IF fate \notin Good THEN Ends(c, "failed", None, FALSE)
       ELSE /\ call' = [call EXCEPT ![c].at = IF call[c].part < Parts THEN "chunk" ELSE "assemble",
                                    ![c].part = @ + 1, ![c].tries = 1]
            /\ UNCHANGED <<base, verdict>>

\* ... the chunks follow ...
SendsChunk(c) == \E fate \in Fates :
    /\ Request(c, "chunk", fate) /\ UNCHANGED <<base, verdict, left>>
    /\ call' = [call EXCEPT ![c].at = IF fate \notin Good THEN "sweep"
                                      ELSE IF call[c].part < Parts THEN "chunk" ELSE "assemble",
                            ![c].part = @ + 1, ![c].tries = 1]

\* A bug to catch: an error for an answer is an answer.
AssemblesInGoodFaith(c) == \E fate \in Fates :
    /\ Request(c, "assemble", fate) /\ Goes(c, "etag") /\ UNCHANGED left

\* ... and are assembled over the document, whatever it is by then.
Assembles(c) == \E fate \in Fates :
    /\ Request(c, "assemble", fate) /\ UNCHANGED left
    /\ Goes(c, IF fate \in Good /\ CanAssemble(c) THEN "etag" ELSE "probe")

\* After an error: a document of the right size is taken for the upload.
Probes(c) == \E fate \in Fates :
    /\ Request(c, "probe", fate)
    /\ LET assembled == fate \in Good /\ There /\ file.size = call[c].size IN
       /\ Leaves(c, ~assembled \/ staged[CollectionOf(c)] = NoCollection)
       /\ IF assembled THEN Ends(c, "uploaded", IF fate = "bare" THEN Unknown ELSE Listed, TRUE)
          ELSE Goes(c, "sweep")

\* After a clean answer: the etag of what is there now becomes the base.
ReadsEtag(c) == \E fate \in Fates :
    /\ Request(c, "etag", fate) /\ UNCHANGED left
    /\ Ends(c, "uploaded", IF fate = "served" /\ There THEN Listed ELSE Unknown, FALSE)

\* delete_upload_collection; its own failure does not matter.
Sweeps(c) == \E fate \in Fates :
    /\ Request(c, "sweep", fate)
    /\ Leaves(c, Sweepable /\ fate # "refused")
    /\ Ends(c, "failed", None, FALSE)

Next == \E c \in Clients :
    \/ \E size \in Sizes, chunked \in BOOLEAN : Begins(c, size, chunked)
    \/ Reads(c) \/ Deletes(c) \/ Resends(c)
    \/ Puts(c) \/ Checks(c) \/ MakesCollection(c) \/ SendsChunk(c)
    \/ Assembles(c) \/ Probes(c) \/ ReadsEtag(c) \/ Sweeps(c)

Spec == Init /\ [][Next]_vars

-----------------------------------------------------------------------------
(* Properties.                                                             *)

Versions == {None, Unknown} \cup 1..Uploads
Chunk    == (1..Parts) \X (1..Uploads)

(* The variables hold what the code can hold: collections hold chunks of    *)
(* uploads, and a client is busy with an upload of its own.                 *)
TypeOK ==
    /\ file = Absent \/ (file.ver \in 1..Uploads /\ file.size \in Sizes /\ file.body \subseteq Chunk)
    /\ \A u \in 1..Uploads : staged[u] = NoCollection \/ staged[u] \subseteq Chunk
    /\ base \in [Clients -> Versions] /\ owner \in [1..Begun -> Clients]
    /\ \A c \in Clients : Busy(c) => owner[call[c].id] = c
    /\ faults <= Faults /\ landed \subseteq 1..Begun /\ left \subseteq 1..Begun

(* No save replaces a version its client has never seen: what a PUT or an   *)
(* assembling MOVE replaces was read or written by that client, or came in  *)
(* during its own chunked upload (the window put_chunked accepts, which     *)
(* reaches to the etag read after it), or its version was not known.        *)
SavesAreInformed ==
    [][\A c \in Clients :
         Busy(c) /\ file' # file /\ file'.ver = call[c].id
         => \/ file.ver \in known[c] \cup window[c] \cup {None}
            \/ call[c].pre = Unconditional]_vars

(* An upload that is reported after a clean answer has been the document:   *)
(* put_conditional and put_chunked never report one that did not land.      *)
AnswersAreTrue == \A c \in Clients :
    verdict[c].is = "uploaded" /\ ~verdict[c].guessed => verdict[c].id \in landed

(* The same of every upload: also of one that put_chunked finds by its size *)
(* after the MOVE failed.                                                   *)
UploadsLand == \A c \in Clients : verdict[c].is = "uploaded" => verdict[c].id \in landed

(* A conflict is another's doing: what stood in the way is not what this    *)
(* client wrote itself, unless it was not told of its own success.          *)
ConflictsAreOthers == \A c \in Clients :
    verdict[c].is = "conflict" /\ c \notin hurt
    => verdict[c].met = None \/ owner[verdict[c].met] # c

(* The document is one upload, whole: chunks of two uploads never meet in   *)
(* it, and none is missing, whatever is sent again.                         *)
FilesAreWhole == There => file.body = Whole(file.ver)

(* No collection of chunks outlives its upload, unless the request that     *)
(* deletes it, or the answer of the one that made it, was lost.             *)
NoChunksLinger == \A u \in 1..Begun :
    staged[u] # NoCollection
    => u \in left \/ (Busy(owner[u]) /\ call[owner[u]].id = u)
=============================================================================
