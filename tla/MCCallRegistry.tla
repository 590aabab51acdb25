--------------------------- MODULE MCCallRegistry ---------------------------
(***************************************************************************)
(* Instances of CallRegistry for TLC: alice calls bob, who has a phone and *)
(* a desktop; a device may sign in again on a new connection.              *)
(***************************************************************************)
EXTENDS CallRegistry

CONSTANTS alice, bob, phone, desktop, a1, a2, b1, b2, b3, c1

\* One caller connection and its device's next one, both of bob's devices and
\* the phone's next connection.
TwoDevices == {<<a1, alice, phone>>, <<a2, alice, phone>>,
               <<b1, bob, phone>>, <<b2, bob, desktop>>, <<b3, bob, phone>>}
=============================================================================
