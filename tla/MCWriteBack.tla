---------------------------- MODULE MCWriteBack -----------------------------
(***************************************************************************)
(* Small instances of WriteBack: what callers ask of the file.             *)
(***************************************************************************)
EXTENDS WriteBack

Ask(o, kind, asks) == [on |-> o, intent |-> [NoIntent EXCEPT !.kind = kind, !.asks = asks]]

WriteAndFlush == {Ask(file, "Write", {}), Ask(file, "Publish", {})}
CreateWriteAndFlush == WriteAndFlush \cup {Ask(dir, "Materialise", {})}

=============================================================================
