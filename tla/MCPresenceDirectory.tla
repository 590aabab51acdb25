------------------------ MODULE MCPresenceDirectory ------------------------
(* PresenceDirectory for TLC. *)
EXTENDS PresenceDirectory

CONSTANTS w, a, b, watcher, target, phone, laptop, tablet

\* Connection w may sign in to the watching account, or as one device too many
\* to the watched one; a and b are two connections of the watched account,
\* from one device or from two.
WatchedLogins == {<<w, watcher, phone>>, <<w, target, tablet>>, <<a, target, phone>>,
                  <<b, target, phone>>, <<b, target, laptop>>}
=============================================================================
