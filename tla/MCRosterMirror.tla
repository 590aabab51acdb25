--------------------------- MODULE MCRosterMirror ---------------------------
(* RosterMirror for TLC: three members, one of whom may be renamed.         *)
EXTENDS RosterMirror, TLC

MCKeysOf == (1 :> {1, 4}) @@ (2 :> {2}) @@ (3 :> {3})
At(u, k, o) == [uid |-> u, key |-> k, online |-> o]
MCRosters == {{At(1, 4, TRUE), At(2, 2, FALSE), At(3, 3, TRUE)}}
=============================================================================
