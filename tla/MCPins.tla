------------------------------- MODULE MCPins -------------------------------
(* Two threads of the daemon and a command line beside them.               *)
EXTENDS Pins

CONSTANTS d1, d2, cli, daemon, shell

TwoProcesses == [t \in Threads |-> IF t = cli THEN shell ELSE daemon]

a  == <<"a">>
ab == <<"a", "b">>
c  == <<"c">>

SomeChanges == {
    [kind |-> "set", path |-> ab, dir |-> FALSE],
    [kind |-> "rename", path |-> a, to |-> c],
    [kind |-> "migrate"]}
SomePaths == {a, ab}
OldPins == [p \in {a} |-> TRUE]
=============================================================================
