------------------------------ MODULE MCMachine -----------------------------
(***************************************************************************)
(* Small instances of Machine: a directory that holds a file, and for the  *)
(* chain of hand-overs a root that holds the directory.                    *)
(***************************************************************************)
EXTENDS Machine

CONSTANTS root, dir, file, range1, range2, v1

Ask(o, kind)       == [on |-> o, intent |-> [NoIntent EXCEPT !.kind = kind]]
AskWith(o, kind, asks) ==
    [on |-> o, intent |-> [NoIntent EXCEPT !.kind = kind, !.asks = asks]]
Read(o, range)     == [on |-> o, intent |-> [NoIntent EXCEPT !.kind = "Fetch", !.range = range]]

Row(o, parent, is, etag) == [id |-> o, parent |-> parent, is |-> is, etag |-> etag]

\* The parent of dir, where the instance has one.
top == IF root \in Objects THEN root ELSE NoObject

Top        == Row(root, NoObject, {"found", "dir", "children_loaded"}, v1)
Listed     == Row(dir, top, {"found", "dir", "children_loaded", "listing_stale"}, v1)
OnServer   == Row(file, dir, {"found", "writable", "nonempty", "materialised", "identified"}, v1)
Unpublished == Row(file, dir, {"found", "writable"}, NoVersion)
Ephemeral  == Row(file, dir, {"found", "writable", "ignored"}, NoVersion)

-----------------------------------------------------------------------------
(* Files: everything a caller asks of a file, in the file's two lives (on  *)
(* the server, and created but never published), while it is renamed and   *)
(* deleted.                                                                *)

FileRows == {Listed, OnServer, Unpublished, Ephemeral}
FileAsks == {Ask(file, kind) : kind \in {"Write", "Publish", "Refresh", "Stat"}}
            \cup {AskWith(file, "SetAttr", {"resize", "mtime"})}
            \cup {Read(file, range1), Read(file, range2)}
            \cup {Ask(dir, kind) : kind \in {"Move", "Remove"}}

(* Directories: listings, creations, and hand-overs that chain on the       *)
(* longest way there is: dir is moved out of root while a file is moved    *)
(* out of dir, or removed.                                                 *)

ChainRows == {Top, Listed, OnServer, Unpublished}
ChainAsks == {Ask(root, "Move"), Ask(file, "Write"), Ask(file, "Publish"),
              AskWith(dir, "Materialise", {})}
             \cup {Ask(dir, kind) : kind \in {"Lookup", "Enumerate", "Move", "Remove"}}

=============================================================================
