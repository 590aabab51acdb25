----------------------------- MODULE CallPromise -----------------------------
(***************************************************************************)
(* What the call registry promises the two accounts of a direct call, with *)
(* connections, reconnects and time left out: an account calls another     *)
(* from one of its devices; some devices of the other ring, fewer and      *)
(* fewer; one of those that ring answers, and the call stays on that       *)
(* device until it is over. A call can be over at any time.                *)
(***************************************************************************)
CONSTANTS Users, Devices, CallIds

VARIABLE calls      \* by call id: none, ringing or answered

NoCall == [state |-> "none"]
Ringing == [state : {"ringing"}, from : Users \X Devices, to : Users, on : SUBSET Devices]

IsRinging(c) == c.state = "ringing"

\* What may become of one call in a step.
Placed(b, c) == b = NoCall /\ c \in Ringing /\ c.on # {} /\ c.from[1] # c.to

Silenced(b, c) ==
    IsRinging(b) /\ \E on \in SUBSET b.on : on # {} /\ c = [b EXCEPT !.on = on]

Taken(b, c) ==
    IsRinging(b) /\ \E d \in b.on :
        c = [state |-> "answered", from |-> b.from, to |-> b.to, on |-> d]

Over(b, c) == c = NoCall

Step(b, c) == c = b \/ Placed(b, c) \/ Silenced(b, c) \/ Taken(b, c) \/ Over(b, c)

Init == calls = [i \in CallIds |-> NoCall]

\* A connection that leaves and the sweep reach several calls at once.
Next == /\ DOMAIN calls' = CallIds
        /\ \A i \in CallIds : Step(calls[i], calls'[i])

Spec == Init /\ [][Next]_calls
=============================================================================
