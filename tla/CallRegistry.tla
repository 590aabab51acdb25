---------------------------- MODULE CallRegistry ----------------------------
(***************************************************************************)
(* The call registry of the central server (src/src/server/main.cpp,       *)
(* SessionManager): who is in which direct call, and which connection a    *)
(* CALL_SIGNAL of that call goes to.                                       *)
(*                                                                         *)
(* Everything here happens under SessionManager's mutex, so one action is  *)
(* one critical section: a handler of a signal (route_call), a login       *)
(* (bind), the end of a connection (leave / retire), a tick of the sweep.  *)
(* The one operation that takes the mutex twice is a login that replaces   *)
(* the previous connection of its device: Bind, then RetireReplaced.       *)
(***************************************************************************)
EXTENDS Naturals, FiniteSets

CONSTANTS
    Sessions,           \* connections (class Session); never used twice
    Users,              \* accounts, by uid
    Devices,            \* device ids
    CallIds,            \* ids callers give their calls
    Logins,             \* the sign-ins that may happen: <<session, user, device>>
    MaxDevices,         \* SessionManager::MAX_DEVICES
    MaxCallsPerCaller,  \* MAX_CALLS_PER_CALLER
    None                \* no session, user, device or call

ASSUME NoneAssumption ==
    None \notin Sessions \cup Users \cup Devices \cup CallIds
ASSUME LoginsAssumption == Logins \subseteq Sessions \X Users \X Devices
ASSUME BoundsAssumption == MaxDevices \in Nat /\ MaxCallsPerCaller \in Nat

VARIABLES
    stage,      \* a connection's life: made, in sessions_, forgotten
    uid,        \* Connection::uid (None: not signed in, or replaced)
    device,     \* Connection::device_id (set by bind, kept until forgotten)
    members,    \* Account::sessions (no connection: the account is not there)
    replacing,  \* the old connection a login has yet to retire
    call,       \* calls_ (None: no such call)
    index,      \* call_index_
    sends       \* what the last step delivered (Fanout::run)

conns == <<stage, uid, device, members, replacing>>
vars  == <<stage, uid, device, members, replacing, call, index, sends>>

-----------------------------------------------------------------------------
(* A call's clock is the one the sweep reads: time since it was placed     *)
(* while it is unanswered (Call::started), time since a side left once it  *)
(* is answered (Call::detached, "off" while both sides are there). "out"   *)
(* is a clock past RING_KEEP or DETACHED_KEEP.                             *)
Call == [ callerUid    : Users,
          calleeUid    : Users,
          caller       : Sessions \cup {None},
          callerDevice : Devices,
          ringing      : SUBSET Sessions,
          callee       : Sessions \cup {None},
          calleeDevice : Devices \cup {None},
          answered     : BOOLEAN,
          rang         : BOOLEAN,
          busy         : BOOLEAN,
          clock        : {"off", "on", "out"} ]

ASSUME NoCallAssumption == None \notin Call

\* CANCEL, REJECT and HANGUP are routed alike from each side: "END" is each
\* of them. "STREAM" is STREAM_START and STREAM_STOP.
Kinds == {"INVITE", "RINGING", "BUSY", "ACCEPT", "END", "STREAM",
          "ANSWERED_ELSEWHERE", "DECLINED_ELSEWHERE", "PEER_OFFLINE"}

Send(to, kind, id) == [to : to \ {None}, kind : {kind}, id : {id}]

Live == {i \in CallIds : call[i] # None}

Parties(c) == ({c.caller, c.callee} \ {None}) \cup c.ringing

\* The account's connection from a device, other than `except`.
DeviceSession(u, d, except) ==
    LET found == {s \in members[u] \ {except} : device[s] = d}
    IN  IF found = {} THEN None ELSE CHOOSE s \in found : TRUE

Indexed(ix, who, id)   == [s \in Sessions |-> IF s \in who THEN ix[s] \cup {id} ELSE ix[s]]
Unindexed(ix, who, id) == [s \in Sessions |-> IF s \in who THEN ix[s] \ {id} ELSE ix[s]]

ReattachedUntimed(c, except) ==
    [c EXCEPT !.caller = IF @ # None THEN @
                         ELSE DeviceSession(c.callerUid, c.callerDevice, except),
              !.callee = IF @ # None \/ ~c.answered THEN @
                         ELSE DeviceSession(c.calleeUid, c.calleeDevice, except)]

\* A side whose connection left goes to its device's other connection; the
\* clock of an answered call runs for as long as a side is missing.
Reattached(c, except) ==
    LET caller == IF c.caller = None
                    THEN DeviceSession(c.callerUid, c.callerDevice, except)
                    ELSE c.caller
        callee == IF c.answered /\ c.callee = None
                    THEN DeviceSession(c.calleeUid, c.calleeDevice, except)
                    ELSE c.callee
        both   == caller # None /\ callee # None
    IN  [c EXCEPT !.caller = caller,
                  !.callee = callee,
                  !.clock  = IF ~c.answered THEN @
                             ELSE IF both THEN "off"
                             ELSE IF @ = "off" THEN "on" ELSE @]

TakenByCaller(c, d) == IF c.caller = None THEN {d.caller} ELSE {}

\* The connections a reattached call newly took.
Taken(c, d) == (IF c.caller = None THEN {d.caller} ELSE {})
                 \cup (IF c.callee = None THEN {d.callee} ELSE {})

\* What a signal to a side does first: a missing side is looked for.
Reached(c, side) == IF side = None THEN Reattached(c, None) ELSE c

\* How route_call leaves a call that still stands.
Settled(c) == IF c.answered /\ c.caller # None /\ c.callee # None
                THEN [c EXCEPT !.clock = "off"] ELSE c

-----------------------------------------------------------------------------
(* What is left of call c when session s signs out of it.                  *)

WithoutSide(c, s) ==
    Reattached([c EXCEPT !.caller = IF @ = s THEN None ELSE @,
                         !.callee = IF @ = s THEN None ELSE @], s)

RingsOnItself(c, s) == {DeviceSession(c.calleeUid, device[s], None)} \ {None}

\* A ringing device that already has another connection rings on there.
RingsOn(c, s) == {DeviceSession(c.calleeUid, device[s], s)} \ {None}

WithoutRinger(c, s) ==
    IF s \in c.ringing
      THEN [c EXCEPT !.ringing = (@ \ {s}) \cup RingsOn(c, s)]
      ELSE c

Left(c, s) == WithoutRinger(WithoutSide(c, s), s)

\* No device of the callee can ring any more, or both sides are gone.
RungOut(c, s)  == s \in c.ringing /\ ~c.answered /\ Left(c, s).ringing = {}
Abandoned(c, s) ==
    LET d == Left(c, s) IN d.answered /\ d.caller = None /\ d.callee = None

\* What call_leave_locked does to calls_, to call_index_ and on the wire.
CallsAfterLeave(s) ==
    [i \in CallIds |->
        IF i \in index[s] /\ i \in Live
          THEN IF RungOut(call[i], s) \/ Abandoned(call[i], s)
                 THEN None ELSE Left(call[i], s)
          ELSE call[i]]

\* The connections that take s's place in the call.
Joins(c, s) ==
    LET d == [c EXCEPT !.caller = IF @ = s THEN None ELSE @,
                       !.callee = IF @ = s THEN None ELSE @]
    IN  Taken(d, Left(c, s)) \cup (IF s \in c.ringing THEN RingsOn(c, s) ELSE {})

IndexAfterLeave(s) ==
    LET touched == index[s] \cap Live
        erased  == {i \in touched : CallsAfterLeave(s)[i] = None}
    IN  [t \in Sessions |->
            IF t = s THEN {}
            ELSE (index[t] \cup {i \in touched : t \in Joins(call[i], s)})
                   \ {i \in erased : t \in Parties(Left(call[i], s))}]

SendsAfterLeave(s) ==
    UNION {Send({Left(call[i], s).caller}, "BUSY", i) :
              i \in {j \in index[s] \cap Live : RungOut(call[j], s) /\ call[j].busy}}

\* sign_out_locked, then the connection is dropped from sessions_.
Forget(s) ==
    /\ call'    = CallsAfterLeave(s)
    /\ index'   = IndexAfterLeave(s)
    /\ sends'   = SendsAfterLeave(s)
    /\ stage'   = [stage EXCEPT ![s] = "gone"]
    /\ members' = [u \in Users |-> IF u = uid[s] THEN members[u] \ {s} ELSE members[u]]
    /\ uid'     = [uid EXCEPT ![s] = None]
    /\ device'  = [device EXCEPT ![s] = None]

-----------------------------------------------------------------------------
(* Connections.                                                            *)

Init ==
    /\ stage     = [s \in Sessions |-> "made"]
    /\ uid       = [s \in Sessions |-> None]
    /\ device    = [s \in Sessions |-> None]
    /\ members   = [u \in Users |-> {}]
    /\ replacing = [s \in Sessions |-> None]
    /\ call      = [i \in CallIds |-> None]
    /\ index     = [s \in Sessions |-> {}]
    /\ sends     = {}

Join(s) ==
    /\ stage[s] = "made"
    /\ stage' = [stage EXCEPT ![s] = "open"]
    /\ sends' = {}
    /\ UNCHANGED <<uid, device, members, replacing, call, index>>

BindReplacing(s, u, d, old) ==
    /\ <<s, u, d>> \in Logins
    /\ stage[s] = "open" /\ device[s] = None
    /\ old # None \/ Cardinality(members[u]) < MaxDevices
    /\ uid'       = [t \in Sessions |-> IF t = s THEN u ELSE IF t = old THEN None ELSE uid[t]]
    /\ device'    = [device EXCEPT ![s] = d]
    /\ members'   = [members EXCEPT ![u] = (@ \ {old}) \cup {s}]
    /\ replacing' = [replacing EXCEPT ![s] = old]
    /\ sends'     = {}
    /\ UNCHANGED <<stage, call, index>>

\* A login. The device's previous connection gives up its place in the
\* account, but keeps its calls until RetireReplaced.
Bind(s, u, d) == BindReplacing(s, u, d, DeviceSession(u, d, None))

\* The login handler of s goes on (whether or not s is still there).
RetireReplaced(s) ==
    /\ replacing[s] # None
    /\ replacing' = [replacing EXCEPT ![s] = None]
    /\ IF stage[replacing[s]] = "open"
         THEN Forget(replacing[s])
         ELSE sends' = {} /\ UNCHANGED <<stage, uid, device, members, call, index>>

\* leave() or retire(): the connection failed, went stale, was signed out
\* from another device or signed itself out.
Leave(s) ==
    /\ stage[s] = "open"
    /\ Forget(s)
    /\ UNCHANGED replacing

-----------------------------------------------------------------------------
(* Signals. A connection's handlers do not overlap, so it sends nothing    *)
(* before its own login is through. A signal that route_call drops before  *)
(* it changes anything is not a step.                                      *)

CanSignal(s) == stage[s] = "open" /\ uid[s] # None /\ replacing[s] = None

Placing(s) == {i \in index[s] \cap Live : call[i].caller = s}

Put(id, c) == call' = [call EXCEPT ![id] = c]

Erase(id, c) ==
    /\ Put(id, None)
    /\ index' = Unindexed(index, Parties(c), id)

Invite(s, to, id) ==
    /\ CanSignal(s) /\ to # uid[s]
    /\ call[id] = None
    /\ Cardinality(Placing(s)) < MaxCallsPerCaller
    /\ members[to] # {}
    /\ Put(id, [callerUid |-> uid[s], calleeUid |-> to,
                caller |-> s, callerDevice |-> device[s],
                ringing |-> members[to], callee |-> None, calleeDevice |-> None,
                answered |-> FALSE, rang |-> FALSE, busy |-> FALSE, clock |-> "on"])
    /\ index' = Indexed(index, {s} \cup members[to], id)
    /\ sends' = Send(members[to], "INVITE", id)
    /\ UNCHANGED conns

\* An INVITE to an account that is not there.
InviteOffline(s, to, id) ==
    /\ CanSignal(s) /\ to # uid[s]
    /\ call[id] = None
    /\ Cardinality(Placing(s)) < MaxCallsPerCaller
    /\ members[to] = {}
    /\ sends' = Send({s}, "PEER_OFFLINE", id)
    /\ UNCHANGED <<conns, call, index>>

\* The connection that placed the call, or the one its device signed back in
\* on after that one left.
IsCaller(s, c) ==
    /\ uid[s] = c.callerUid
    /\ c.caller = s \/ (c.caller = None /\ device[s] = c.callerDevice)

AsCaller(s, c) == [c EXCEPT !.caller = s]

\* CANCEL or HANGUP from the caller.
CallerEnds(s, id) ==
    /\ CanSignal(s) /\ id \in Live /\ IsCaller(s, call[id])
    /\ LET c == AsCaller(s, call[id])
           d == IF c.answered THEN Reached(c, c.callee) ELSE c
       IN  /\ Erase(id, d)
           /\ sends' = Send(IF c.answered THEN {d.callee} ELSE c.ringing, "END", id)
    /\ UNCHANGED conns

\* STREAM_START or STREAM_STOP from the caller.
CallerStreams(s, id) ==
    /\ CanSignal(s) /\ id \in Live /\ IsCaller(s, call[id])
    /\ call[id].answered
    /\ LET c == AsCaller(s, call[id])
           d == Reached(c, c.callee)
       IN  /\ Put(id, Settled(d))
           /\ index' = Indexed(index, {s, d.callee}, id)
           /\ sends' = Send({d.callee}, "STREAM", id)
    /\ UNCHANGED conns

\* Any other signal from the caller is dropped, after it took its place.
CallerTakesPlace(s, id) ==
    /\ CanSignal(s) /\ id \in Live /\ IsCaller(s, call[id])
    /\ call[id].caller = None
    /\ Put(id, AsCaller(s, call[id]))
    /\ index' = Indexed(index, {s}, id)
    /\ sends' = {}
    /\ UNCHANGED conns

RingsOrRang(s, id) ==
    CanSignal(s) /\ id \in Live /\ ~call[id].answered /\ uid[s] = call[id].calleeUid

\* An unanswered call is for the connections it rings on.
Rings(s, id) == RingsOrRang(s, id) /\ s \in call[id].ringing

NoRivals(s, c) == {}

Rivals(s, c) == c.ringing \ {s}

\* RINGING: the first one goes to the caller.
Ringing(s, id) ==
    /\ Rings(s, id) /\ ~call[id].rang
    /\ LET d == Reached(call[id], call[id].caller)
       IN  /\ Put(id, [d EXCEPT !.rang = TRUE])
           /\ index' = Indexed(index, Taken(call[id], d), id)
           /\ sends' = Send({d.caller}, "RINGING", id)
    /\ UNCHANGED conns

\* BUSY: heard by the caller once no device of the callee can ring.
Busy(s, id) ==
    /\ Rings(s, id)
    /\ LET c == [call[id] EXCEPT !.busy = TRUE, !.ringing = @ \ {s}]
           d == Reached(c, c.caller)
       IN  IF c.ringing # {}
             THEN /\ Put(id, c)
                  /\ index' = Unindexed(index, {s}, id)
                  /\ sends' = {}
             ELSE /\ Put(id, None)
                  /\ index' = Unindexed(index, {s} \cup Parties(d), id)
                  /\ sends' = Send({d.caller}, "BUSY", id)
    /\ UNCHANGED conns

\* ACCEPT: the first to answer takes the call, the others are told.
Accept(s, id) ==
    /\ Rings(s, id)
    /\ LET others == Rivals(s, call[id])
           c == [call[id] EXCEPT !.answered = TRUE, !.callee = s,
                                 !.calleeDevice = device[s], !.clock = "off"]
           d == Reattached(c, None)
       IN  /\ Put(id, [d EXCEPT !.ringing = {}])
           /\ index' = Unindexed(Indexed(index, Taken(c, d), id), others, id)
           /\ sends' = Send(others, "ANSWERED_ELSEWHERE", id)
                         \cup Send({d.caller}, "ACCEPT", id)
    /\ UNCHANGED conns

\* REJECT or HANGUP from a ringing device.
Decline(s, id) ==
    /\ Rings(s, id)
    /\ LET d == Reached(call[id], call[id].caller)
       IN  /\ Erase(id, d)
           /\ sends' = Send({d.caller}, "END", id)
                         \cup Send(Rivals(s, d), "DECLINED_ELSEWHERE", id)
    /\ UNCHANGED conns

IsCalleeAccount(s, c) == uid[s] = c.calleeUid /\ c.answered /\ c.callee \in {s, None}

\* The connection that answered, or the one its device signed back in on.
IsCallee(s, c) ==
    /\ uid[s] = c.calleeUid /\ c.answered
    /\ c.callee = s \/ (c.callee = None /\ device[s] = c.calleeDevice)

AsCallee(s, c) == [c EXCEPT !.callee = s]

\* ACCEPT from a device that lost the race to answer.
LateAccept(s, id) ==
    /\ CanSignal(s) /\ id \in Live /\ call[id].answered
    /\ uid[s] = call[id].calleeUid /\ ~IsCallee(s, call[id])
    /\ Put(id, Settled(call[id]))
    /\ sends' = Send({s}, "ANSWERED_ELSEWHERE", id)
    /\ UNCHANGED <<conns, index>>

\* HANGUP or REJECT from the callee of an answered call.
CalleeEnds(s, id) ==
    /\ CanSignal(s) /\ id \in Live /\ IsCallee(s, call[id])
    /\ LET c == AsCallee(s, call[id])
           d == Reached(c, c.caller)
       IN  /\ Erase(id, d)
           /\ sends' = Send({d.caller}, "END", id)
    /\ UNCHANGED conns

CalleeStreams(s, id) ==
    /\ CanSignal(s) /\ id \in Live /\ IsCallee(s, call[id])
    /\ LET c == AsCallee(s, call[id])
           d == Reached(c, c.caller)
       IN  /\ Put(id, Settled(d))
           /\ index' = Indexed(index, {s, d.caller}, id)
           /\ sends' = Send({d.caller}, "STREAM", id)
    /\ UNCHANGED conns

\* Any other signal from the callee is dropped, after it took its place.
CalleeTakesPlace(s, id) ==
    /\ CanSignal(s) /\ id \in Live /\ IsCallee(s, call[id])
    /\ call[id].callee = None
    /\ Put(id, AsCallee(s, call[id]))
    /\ index' = Indexed(index, {s}, id)
    /\ sends' = {}
    /\ UNCHANGED conns

-----------------------------------------------------------------------------
(* Time, and the sweep.                                                    *)

\* A running clock reaches RING_KEEP or DETACHED_KEEP.
TimeRunsOut(id) ==
    /\ id \in Live /\ call[id].clock = "on"
    /\ Put(id, [call[id] EXCEPT !.clock = "out"])
    /\ sends' = {}
    /\ UNCHANGED <<conns, index>>

\* sweep_calls: sides that came back are found, then stale calls forgotten.
SweptAsIs(i) == call[i]

SweptCall(i) ==
    IF call[i].answered /\ call[i].clock # "off"
      THEN Reattached(call[i], None) ELSE call[i]

StaleDetached(i) == call[i].answered /\ SweptCall(i).clock = "out"

Stale(i) == SweptCall(i).clock = "out"

SweepCalls ==
    LET stale == {i \in Live : Stale(i)} IN
    /\ Live # {}
    /\ call'  = [i \in CallIds |->
                    IF i \in stale \/ i \notin Live THEN None ELSE SweptCall(i)]
    /\ index' = [s \in Sessions |->
                    (index[s] \cup {i \in Live : s \in Taken(call[i], SweptCall(i))})
                      \ {i \in stale : s \in Parties(SweptCall(i))}]
    /\ sends' = {}
    /\ UNCHANGED conns

-----------------------------------------------------------------------------
Signal(s, id) ==
    \/ \E to \in Users : Invite(s, to, id) \/ InviteOffline(s, to, id)
    \/ CallerEnds(s, id)
    \/ CallerStreams(s, id)
    \/ CallerTakesPlace(s, id)
    \/ Ringing(s, id)
    \/ Busy(s, id)
    \/ Accept(s, id)
    \/ Decline(s, id)
    \/ LateAccept(s, id)
    \/ CalleeEnds(s, id)
    \/ CalleeStreams(s, id)
    \/ CalleeTakesPlace(s, id)

Next ==
    \/ \E s \in Sessions : Join(s) \/ RetireReplaced(s) \/ Leave(s)
    \/ \E s \in Sessions, u \in Users, d \in Devices : Bind(s, u, d)
    \/ \E s \in Sessions, id \in CallIds : Signal(s, id)
    \/ \E id \in CallIds : TimeRunsOut(id)
    \/ SweepCalls

Spec == Init /\ [][Next]_vars

\* The sweep is a repeating timer, clocks run, and a login handler that has
\* bound goes on to retire the connection it replaced.
Fairness ==
    /\ \A s \in Sessions : WF_vars(RetireReplaced(s))
    /\ \A id \in CallIds : WF_vars(TimeRunsOut(id))
    /\ WF_vars(SweepCalls)

FairSpec == Spec /\ Fairness

-----------------------------------------------------------------------------
(* Properties.                                                             *)

TypeOK ==
    /\ stage     \in [Sessions -> {"made", "open", "gone"}]
    /\ uid       \in [Sessions -> Users \cup {None}]
    /\ device    \in [Sessions -> Devices \cup {None}]
    /\ members   \in [Users -> SUBSET Sessions]
    /\ replacing \in [Sessions -> Sessions \cup {None}]
    /\ call      \in [CallIds -> Call \cup {None}]
    /\ index     \in [Sessions -> SUBSET CallIds]
    /\ sends     \subseteq [to : Sessions, kind : Kinds, id : CallIds]

\* call_index_ holds raw pointers: it names exactly the calls a connection
\* is in, so that a connection that goes away leaves every one of them.
IndexMatchesCalls ==
    \A s \in Sessions, i \in CallIds :
        i \in index[s] <=> (i \in Live /\ s \in Parties(call[i]))

\* accounts_ and sessions_ agree. A device id names one connection of its
\* account, so "the device's connection" is one connection; a connection that
\* is signed in nowhere, but once was, is one some login is about to retire.
OneConnectionPerDevice ==
    \A u \in Users : \A s, t \in members[u] : device[s] = device[t] => s = t

BeingReplaced(s) == \E t \in Sessions : replacing[t] = s

ConnectionsOK ==
    /\ \A s \in Sessions, u \in Users : s \in members[u] <=> uid[s] = u
    /\ \A s \in Sessions : uid[s] # None => device[s] # None
    /\ \A s \in Sessions : device[s] # None => stage[s] = "open"
    /\ \A s \in Sessions : device[s] # None /\ uid[s] = None => BeingReplaced(s)
    /\ \A s \in Sessions : replacing[s] # None =>
          /\ uid[replacing[s]] = None
          /\ device[replacing[s]] # None \/ stage[replacing[s]] = "gone"
          /\ device[s] # None \/ stage[s] = "gone"
    /\ OneConnectionPerDevice

\* A connection is in a call for the account it is signed in to, on the
\* device the call remembers; or its device signed in again and that login is
\* about to retire it. Nothing in a call is a forgotten connection.
StandsFor(s, u, d) ==
    /\ stage[s] = "open"
    /\ device[s] \in d
    /\ uid[s] = u \/ (uid[s] = None /\ BeingReplaced(s))

SidesStand(c) ==
    /\ c.caller # None => StandsFor(c.caller, c.callerUid, {c.callerDevice})
    /\ c.callee # None => StandsFor(c.callee, c.calleeUid, {c.calleeDevice})
    /\ \A s \in c.ringing : StandsFor(s, c.calleeUid, Devices)
    /\ c.caller \notin c.ringing

PartiesStandForTheirSides == \A i \in Live : SidesStand(call[i])

\* No call is kept for ever: an unanswered one still rings and its clock
\* runs, and so does the clock of an answered one that lacks a side.
WellFormed(c) ==
    /\ c.callerUid # c.calleeUid
    /\ c.answered <=> c.ringing = {}
    /\ ~c.answered => c.callee = None
    /\ ~c.answered \/ c.caller = None \/ c.callee = None => c.clock # "off"

EveryCallCanEnd == \A i \in Live : WellFormed(call[i])

\* What the two accounts see of a call, and that this is what CallPromise
\* allows: whatever reconnects, is replaced or is swept, the call stays
\* between two devices, and on the first of the callee's to answer.
Seen(c) ==
    IF c = None THEN [state |-> "none"]
    ELSE [state |-> IF c.answered THEN "answered" ELSE "ringing",
          from  |-> <<c.callerUid, c.callerDevice>>,
          to    |-> c.calleeUid,
          on    |-> IF c.answered THEN c.calleeDevice ELSE {device[s] : s \in c.ringing}]

Promise == INSTANCE CallPromise WITH calls <- [i \in CallIds |-> Seen(call[i])]

KeepsThePromise == Promise!Spec

\* A device that stops ringing hears why, unless it said so itself or the
\* call was forgotten after RING_KEEP (its own 45 s are long over).
NobodyLeftRinging ==
    [][\A i \in CallIds, s \in Sessions :
          (call[i] # None /\ s \in call[i].ringing /\ uid'[s] = call[i].calleeUid
             /\ (call'[i] = None \/ s \notin call'[i].ringing))
             => \/ \E f \in sends' : f.to = s /\ f.id = i
                \/ Accept(s, i) \/ Decline(s, i) \/ Busy(s, i)
                \/ call[i].clock = "out"]_vars

\* An answered call whose two devices are both connected ends only when one
\* of them ends it: no reconnect, replaced login or sweep takes it away.
TalkersAreNotCutOff ==
    [][\A i \in CallIds :
          (/\ call[i] # None /\ call[i].answered /\ call'[i] = None
           /\ \E s \in members'[call[i].callerUid] : device'[s] = call[i].callerDevice
           /\ \E s \in members'[call[i].calleeUid] : device'[s] = call[i].calleeDevice)
             => \E s \in Sessions : CallerEnds(s, i) \/ CalleeEnds(s, i)]_vars

\* Once a call is answered its signals go to the two devices in it, and to no
\* other connection of either account (but the loser of the race to answer).
SignalsStayInTheCall ==
    [][\A f \in sends' : LET c == call[f.id] IN
          (c # None /\ c.answered /\ f.kind # "ANSWERED_ELSEWHERE")
             => \/ device[f.to] = c.callerDevice /\ f.to \in members[c.callerUid] \cup {c.caller}
                \/ device[f.to] = c.calleeDevice /\ f.to \in members[c.calleeUid] \cup {c.callee}]_vars

\* A call nobody answers is over in the end.
RingingEnds ==
    \A i \in CallIds :
        (call[i] # None /\ ~call[i].answered) ~> (call[i] = None \/ call[i].answered)

\* An answered call that a side left is over in the end, or that side's
\* device is back and has its place again.
AbandonedCallEnds ==
    \A i \in CallIds :
        (call[i] # None /\ call[i].answered /\ (call[i].caller = None \/ call[i].callee = None))
           ~> (call[i] = None \/ (call[i].caller # None /\ call[i].callee # None))
=============================================================================
