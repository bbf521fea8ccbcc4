---------------------------- MODULE MCFrontends ----------------------------
(***************************************************************************)
(* Small instances of Frontends: two or three of everything, in scenes.    *)
(***************************************************************************)
EXTENDS Frontends

CONSTANTS f1, f2, d1, d2, c1, c2, p1, x, y

TheListings == {<<x, y>>, <<y>>}
TheScenes == {{f1, f2}, {f1, c1}, {d1, d2}, {c1, c2, p1}, {c1, c2, "process"}}
=============================================================================
