---------------------------- MODULE CallHandshake ----------------------------
(***************************************************************************)
(* A direct call as its clients see it: callStore.ts (the renderer's call),*)
(* callActions.ts and useCallEvents.ts (what the user, the signals and the *)
(* native outcomes do to it) and native commands/call.rs (the sockets a    *)
(* call is prepared with, and its engine).  The central server is reduced  *)
(* to route_call for devices that stay connected; CallRegistry has the     *)
(* rest of it.                                                             *)
(*                                                                         *)
(* The renderer runs one event at a time.  What it asks of native runs     *)
(* beside it, and beside everything else it asked for: a command is a      *)
(* record in `jobs` that native takes further and whose result the         *)
(* renderer picks up later, when the call may be another one.  A signal    *)
(* reaches the registry when its command does; `down` is the connection    *)
(* back, in order, up to the renderer's event.                             *)
(*                                                                         *)
(* Left out: RINGING (it only turns "Calling" into "Ringing"), the refusals*)
(* PEER_OFFLINE and NOT_ALLOWED, screen sharing in a call, sounds, and the *)
(* voice channel a call takes the engine from.                             *)
(***************************************************************************)
EXTENDS Naturals, Sequences, FiniteSets

CONSTANTS
  Devices, Accounts,  \* accounts are uids: naturals
  Owner,              \* device -> its account
  Calls,              \* call ids
  Placer,             \* call id -> the device that may place it
  None,
  MaxTroubles         \* bound: how often something fails or a user hangs up

ASSUME HandshakeAssumption ==
  /\ Accounts \subseteq Nat /\ Cardinality(Accounts) = 2
  /\ Owner \in [Devices -> Accounts] /\ Placer \in [Calls -> Devices]
  /\ None \notin Devices \cup Calls
  /\ MaxTroubles \in Nat

VARIABLES
  call,     \* device -> callStore: status, call id, isCaller
  ring,     \* device -> the call its ring timer (callActions) is armed for
  missed,   \* device -> the call its incoming timer (useCallEvents) is armed for
  placed,   \* the calls placed so far
  jobs,     \* device -> native commands under way
  pending,  \* device -> the call AppState::pending_call is prepared for
  active,   \* device -> AppState::active_call and its engine
  events,   \* device -> call_connected, call_failed, call_dropped on their way
  reg,      \* the registry: call id -> its call
  down,     \* device -> signals on their way to its renderer
  mishaps,  \* sends, gatherings, keys and punches that have failed
  hangups   \* how often the users have hung up, cancelled or declined

vars == <<call, ring, missed, placed, jobs, pending, active, events, reg, down, mishaps, hangups>>
renderer == <<call, ring, missed, placed>>
native == <<pending, active>>
server == <<reg, down>>

Idle == [status |-> "idle", id |-> None, caller |-> FALSE]
NoCall == [id |-> None, with |-> None, phase |-> "none"]

\* A command: op on behalf of call id; `by` is what awaits it, `dev` the device
\* whose answer a connect is for, `at` how far native is.
Job(op, id, by, dev) == [op |-> op, id |-> id, by |-> by, dev |-> dev, at |-> "begin"]
Sends(kind, id) == Job("send", id, kind, None)
EndJob(id, by) == Job("end", id, by, None)
Signal(kind, id, dev) == [kind |-> kind, id |-> id, dev |-> dev]

Init ==
  /\ call = [d \in Devices |-> Idle]
  /\ ring = [d \in Devices |-> None] /\ missed = [d \in Devices |-> None]
  /\ placed = {} /\ mishaps = 0 /\ hangups = 0
  /\ jobs = [d \in Devices |-> {}]
  /\ pending = [d \in Devices |-> None] /\ active = [d \in Devices |-> NoCall]
  /\ events = [d \in Devices |-> {}]
  /\ reg = [i \in Calls |-> [ringing |-> {}, callee |-> None, up |-> FALSE]]
  /\ down = [d \in Devices |-> <<>>]

-----------------------------------------------------------------------------
(* The renderer.  Its part of a step: the call, the two timers, the        *)
(* commands it gives (`new`) and the one whose result it picked up.        *)

Becomes(d, status, id, caller) ==
  call' = [call EXCEPT ![d] = [status |-> status, id |-> id, caller |-> caller]]
Resets(d) == call' = [call EXCEPT ![d] = Idle]
Gives(d, gone, new) == jobs' = [jobs EXCEPT ![d] = (@ \ gone) \cup new]
Arms(timer, d, id) == timer' = [timer EXCEPT ![d] = id]

EndKind(status) == CASE status = "outgoing" -> "CANCEL"
                     [] status = "incoming" -> "REJECT"
                     [] OTHER -> "HANGUP"

(* A mutant: the peer is told and the engine left running.                 *)
HangsUpOnly(d, gone, notify) ==
  /\ Resets(d) /\ Arms(ring, d, None)
  /\ Gives(d, gone, IF call[d].status = "idle" THEN {}
                    ELSE {Sends(EndKind(call[d].status), call[d].id)})

(* endCall(): whatever call the renderer is in now.                        *)
EndsCall(d, gone, notify) ==
  IF call[d].status = "idle"
    THEN Gives(d, gone, {}) /\ UNCHANGED <<call, ring>>
    ELSE /\ Resets(d) /\ Arms(ring, d, None)
         /\ Gives(d, gone, {EndJob(call[d].id, "ended")} \cup
              IF notify THEN {Sends(EndKind(call[d].status), call[d].id)} ELSE {})

(* send_call_signal(): INVITE and ACCEPT are awaited, the others are not.  *)
Awaited(j) == j.by \in {"INVITE", "ACCEPT"}

(* startCall() up to call_prepare.                                         *)
StartCall(d, i) ==
  /\ call[d].status = "idle" /\ Placer[i] = d /\ i \notin placed
  /\ placed' = placed \cup {i}
  /\ Becomes(d, "outgoing", i, TRUE)
  /\ Gives(d, {}, {Job("prepare", i, "start", None)})
  /\ UNCHANGED <<ring, missed, pending, active, events, reg, down, mishaps, hangups>>

(* acceptCall() up to call_prepare.                                        *)
Accepts(d, i, new) ==
  /\ Becomes(d, "connecting", i, FALSE) /\ Arms(ring, d, None)
  /\ Gives(d, {}, {Job("prepare", i, "accept", None)} \cup new)

AcceptCall(d) ==
  /\ call[d].status = "incoming" /\ Accepts(d, call[d].id, {})
  /\ UNCHANGED <<missed, placed, pending, active, events, reg, down, mishaps, hangups>>

(* The user hangs up, cancels or declines.                                 *)
HangUp(d) ==
  /\ call[d].status # "idle" /\ EndsCall(d, {}, TRUE)
  /\ mishaps + hangups < MaxTroubles /\ hangups' = hangups + 1
  /\ UNCHANGED <<missed, placed, pending, active, events, reg, down, mishaps>>

(* The caller's RING_TIMEOUT_MS; a timer that finds another call, or none, *)
(* does nothing.                                                           *)
RingTimeout(d) ==
  /\ call[d].status = "outgoing" /\ ring[d] = call[d].id /\ EndsCall(d, {}, TRUE)
  /\ UNCHANGED <<missed, placed, pending, active, events, reg, down, mishaps, hangups>>

(* The callee's: a missed call, of which nobody is told.                   *)
MissedTimeout(d) ==
  /\ call[d].status = "incoming" /\ missed[d] = call[d].id
  /\ Resets(d) /\ Arms(missed, d, None)
  /\ UNCHANGED <<ring, placed, jobs, pending, active, events, reg, down, mishaps, hangups>>

-----------------------------------------------------------------------------
(* Signals: onSignal().                                                    *)

(* A mutant: an unanswered call rings until it is withdrawn.               *)
RingsOn(d, s) ==
  CASE call[d].status = "outgoing" ->
         /\ IF Owner[d] < Owner[s.dev] THEN UNCHANGED <<call, ring, jobs>>
            ELSE Accepts(d, s.id, {Sends("CANCEL", call[d].id), EndJob(call[d].id, "glare")})
         /\ UNCHANGED missed
    [] call[d].status = "idle" ->
         Becomes(d, "incoming", s.id, FALSE) /\ UNCHANGED <<ring, missed, jobs>>
    [] OTHER ->
         Gives(d, {}, {Sends("BUSY", s.id)}) /\ UNCHANGED <<call, ring, missed>>

(* Glare: the lower uid keeps its own call, the higher answers the other's.*)
OnInvite(d, s) ==
  CASE call[d].status = "outgoing" ->
         /\ IF Owner[d] < Owner[s.dev] THEN UNCHANGED <<call, ring, jobs>>
            ELSE Accepts(d, s.id, {Sends("CANCEL", call[d].id), EndJob(call[d].id, "glare")})
         /\ UNCHANGED missed
    [] call[d].status = "idle" ->
         /\ Becomes(d, "incoming", s.id, FALSE)
         /\ Arms(missed, d, s.id) /\ UNCHANGED <<ring, jobs>>
    [] OTHER ->
         Gives(d, {}, {Sends("BUSY", s.id)}) /\ UNCHANGED <<call, ring, missed>>

(* connectAfterAccept().                                                   *)
OnAccept(d, s) ==
  IF call[d].status = "outgoing"
    THEN /\ Becomes(d, "connecting", s.id, TRUE) /\ Arms(ring, d, None)
         /\ Gives(d, {}, {Job("connect", s.id, "accepted", s.dev)})
    ELSE UNCHANGED <<call, ring, jobs>>

(* The prompt of a call that is over goes away.                            *)
Withdrawn(d) == Resets(d) /\ Arms(missed, d, None) /\ UNCHANGED <<ring, jobs>>

OnElsewhere(d) ==
  CASE call[d].status = "incoming" -> Withdrawn(d)
    [] call[d].status = "connecting" /\ ~call[d].caller ->
         EndsCall(d, {}, FALSE) /\ UNCHANGED missed
    [] OTHER -> UNCHANGED <<call, ring, missed, jobs>>

OnSignal(d) ==
  /\ down[d] # <<>> /\ down' = [down EXCEPT ![d] = Tail(@)]
  /\ LET s == Head(down[d])  mine == call[d].id = s.id IN
       CASE s.kind = "INVITE" -> OnInvite(d, s)
         [] s.kind = "ACCEPT" /\ mine -> OnAccept(d, s) /\ UNCHANGED missed
         [] s.kind \in {"REJECT", "BUSY"} /\ mine /\ call[d].status = "outgoing" ->
              EndsCall(d, {}, FALSE) /\ UNCHANGED missed
         [] s.kind = "CANCEL" /\ mine /\ call[d].status = "incoming" -> Withdrawn(d)
         [] s.kind = "HANGUP" /\ mine -> EndsCall(d, {}, FALSE) /\ UNCHANGED missed
         [] s.kind = "ELSEWHERE" /\ mine -> OnElsewhere(d)
         [] OTHER -> UNCHANGED <<call, ring, missed, jobs>>
  /\ UNCHANGED <<placed, pending, active, events, reg, mishaps, hangups>>

(* A mutant: an outcome is taken for the current call's.                   *)
AnyOutcome(d, e) ==
  /\ e \in events[d] /\ events' = [events EXCEPT ![d] = @ \ {e}]
  /\ IF e.kind = "connected"
       THEN Becomes(d, "active", e.id, call[d].caller) /\ UNCHANGED <<ring, jobs>>
     ELSE EndsCall(d, {}, TRUE)
  /\ UNCHANGED <<missed, placed, pending, active, reg, down, mishaps, hangups>>

(* call_connected, call_failed, call_dropped.                              *)
OnOutcome(d, e) ==
  /\ e \in events[d] /\ events' = [events EXCEPT ![d] = @ \ {e}]
  /\ IF call[d].id # e.id THEN UNCHANGED <<call, ring, jobs>>
     ELSE IF e.kind = "connected"
       THEN Becomes(d, "active", e.id, call[d].caller) /\ UNCHANGED <<ring, jobs>>
     ELSE EndsCall(d, {}, TRUE)
  /\ UNCHANGED <<missed, placed, pending, active, reg, down, mishaps, hangups>>

-----------------------------------------------------------------------------
(* Native: commands/call.rs.                                               *)

Step(d, j, at) == jobs' = [jobs EXCEPT ![d] = (@ \ {j}) \cup {[j EXCEPT !.at = at]}]
Held(f, d, v) == f' = [f EXCEPT ![d] = v]

Mishap == mishaps + hangups < MaxTroubles /\ mishaps' = mishaps + 1

(* call_prepare(): the slot is emptied, the sockets are bound and the STUN *)
(* servers asked, and the slot is filled, whoever has filled it meanwhile. *)
PrepareBegins(d, j) ==
  /\ j \in jobs[d] /\ j.op = "prepare" /\ j.at = "begin"
  /\ IF active[d] # NoCall THEN Step(d, j, "failed") /\ UNCHANGED pending
     ELSE Step(d, j, "gathering") /\ Held(pending, d, None)
  /\ UNCHANGED <<renderer, active, events, server, mishaps, hangups>>

PrepareEnds(d, j) ==
  /\ j \in jobs[d] /\ j.op = "prepare" /\ j.at = "gathering"
  /\ \/ /\ active[d] = NoCall /\ Step(d, j, "done") /\ Held(pending, d, j.id)
        /\ UNCHANGED mishaps
     \/ /\ active[d] # NoCall /\ Step(d, j, "failed") /\ UNCHANGED <<pending, mishaps>>
     \/ Mishap /\ Step(d, j, "failed") /\ UNCHANGED pending
  /\ UNCHANGED <<renderer, active, events, server, hangups>>

(* What startCall() and acceptCall() do with it.                           *)
PrepareReturns(d, j) ==
  /\ j \in jobs[d] /\ j.op = "prepare" /\ j.at \in {"done", "failed"}
  /\ CASE j.at = "failed" -> EndsCall(d, {j}, j.by = "accept")
       [] j.at = "done" /\ call[d].id # j.id ->
            Gives(d, {j}, {EndJob(j.id, "stale")}) /\ UNCHANGED <<call, ring>>
       [] OTHER ->
            /\ Gives(d, {j}, {Sends(IF j.by = "start" THEN "INVITE" ELSE "ACCEPT", j.id)})
            /\ UNCHANGED <<call, ring>>
  /\ UNCHANGED <<missed, placed, native, events, server, mishaps, hangups>>

(* call_connect() up to its result: the peer's key is verified, the slot   *)
(* taken, and only then looked at.                                         *)
Connect(d, j) ==
  /\ j \in jobs[d] /\ j.op = "connect" /\ j.at = "begin"
  /\ \/ /\ active[d] = NoCall /\ pending[d] = j.id
        /\ Gives(d, {j}, {}) /\ Held(pending, d, None)
        /\ Held(active, d, [id |-> j.id, with |-> j.dev, phase |-> "punching"])
        /\ UNCHANGED mishaps
     \/ /\ active[d] = NoCall /\ pending[d] # j.id
        /\ Step(d, j, "failed") /\ Held(pending, d, None) /\ UNCHANGED <<active, mishaps>>
     \/ active[d] # NoCall /\ Step(d, j, "failed") /\ UNCHANGED <<native, mishaps>>
     \/ Mishap /\ Step(d, j, "failed") /\ Held(pending, d, None) /\ UNCHANGED active
  /\ UNCHANGED <<renderer, events, server, hangups>>

ConnectFails(d, j) ==
  /\ j \in jobs[d] /\ j.op = "connect" /\ j.at = "failed" /\ EndsCall(d, {j}, TRUE)
  /\ UNCHANGED <<missed, placed, native, events, server, mishaps, hangups>>

(* call_end(): whatever is prepared or active.                             *)
CallEnd(d, j) ==
  /\ j \in jobs[d] /\ j.op = "end" /\ Gives(d, {j}, {})
  /\ Held(pending, d, None) /\ Held(active, d, NoCall)
  /\ UNCHANGED <<renderer, events, server, mishaps, hangups>>

Reaches(d, e, i) == active[e].id = i /\ active[e].with = d

Happens(d, kind) == events' = [events EXCEPT ![d] = @ \cup {[kind |-> kind, id |-> active[d].id]}]

(* The punch succeeds when both ends punch, with each other's keys.        *)
PunchSucceeds(d) ==
  /\ active[d].phase = "punching" /\ Reaches(d, active[d].with, active[d].id)
  /\ Happens(d, "connected") /\ active' = [active EXCEPT ![d].phase = "up"]
  /\ UNCHANGED <<renderer, jobs, pending, server, mishaps, hangups>>

(* PUNCH_DEADLINE, or no engine.                                           *)
PunchFails(d) ==
  /\ active[d].phase = "punching"
  /\ IF Reaches(d, active[d].with, active[d].id) THEN Mishap ELSE UNCHANGED mishaps
  /\ Happens(d, "failed") /\ Held(active, d, NoCall)
  /\ UNCHANGED <<renderer, jobs, pending, server, hangups>>

(* The watchdog: PEER_LOST_AFTER without a datagram.                       *)
PeerLost(d) ==
  /\ active[d].phase = "up" /\ ~Reaches(d, active[d].with, active[d].id)
  /\ Happens(d, "dropped") /\ active' = [active EXCEPT ![d].phase = "lost"]
  /\ UNCHANGED <<renderer, jobs, pending, server, mishaps, hangups>>

-----------------------------------------------------------------------------
(* The registry: route_call() of the central server.                       *)

To(ds, s) == down' = [e \in Devices |-> IF e \in ds THEN Append(down[e], s) ELSE down[e]]
Drops == UNCHANGED <<reg, down>>
Devs(account) == {e \in Devices : Owner[e] = account}
Gone(i) == reg' = [reg EXCEPT ![i] = [ringing |-> {}, callee |-> None, up |-> FALSE]]

ByCaller(d, kind, i) ==
  IF kind \in {"CANCEL", "HANGUP"} /\ reg[i].up
    THEN /\ To(IF reg[i].callee # None THEN {reg[i].callee} ELSE reg[i].ringing,
               Signal(kind, i, d))
         /\ Gone(i)
    ELSE Drops

ByRinging(d, kind, i) ==
  LET others == reg[i].ringing \ {d}
      Both(k) == down' = [e \in Devices |->
                   IF e = Placer[i] THEN Append(down[e], Signal(k, i, d))
                   ELSE IF e \in others THEN Append(down[e], Signal("ELSEWHERE", i, d))
                   ELSE down[e]]
  IN CASE kind = "BUSY" ->
            IF others = {} THEN To({Placer[i]}, Signal("BUSY", i, d)) /\ Gone(i)
            ELSE reg' = [reg EXCEPT ![i].ringing = others] /\ UNCHANGED down
       [] kind = "ACCEPT" ->
            Both("ACCEPT") /\ reg' = [reg EXCEPT ![i].callee = d, ![i].ringing = {}]
       [] kind \in {"REJECT", "HANGUP"} -> Both(kind) /\ Gone(i)
       [] OTHER -> Drops

ByCallee(d, kind, i) ==
  IF kind \in {"REJECT", "HANGUP"}
    THEN To({Placer[i]}, Signal(kind, i, d)) /\ Gone(i) ELSE Drops

Rings(d, i) ==
  IF reg[i].up THEN Drops
  ELSE LET ds == Devices \ Devs(Owner[d]) IN
         /\ To(ds, Signal("INVITE", i, d))
         /\ reg' = [reg EXCEPT ![i] = [ringing |-> ds, callee |-> None, up |-> TRUE]]

(* A mutant: any device of the callee may end the call.                    *)
RoutesAnyDevice(d, kind, i) ==
  IF kind = "INVITE" THEN Rings(d, i)
  ELSE IF ~reg[i].up THEN Drops
  ELSE IF d = Placer[i] THEN ByCaller(d, kind, i)
  ELSE IF d \in reg[i].ringing THEN ByRinging(d, kind, i)
  ELSE IF kind = "ACCEPT" THEN To({d}, Signal("ELSEWHERE", i, d)) /\ UNCHANGED reg
  ELSE ByCallee(d, kind, i)

Route(d, kind, i) ==
  IF kind = "INVITE" THEN Rings(d, i)
  ELSE IF ~reg[i].up THEN Drops
  ELSE IF d = Placer[i] THEN ByCaller(d, kind, i)
  ELSE IF d \in reg[i].ringing THEN ByRinging(d, kind, i)
  ELSE IF d = reg[i].callee THEN ByCallee(d, kind, i)
  ELSE IF kind = "ACCEPT" /\ reg[i].callee # None
    THEN To({d}, Signal("ELSEWHERE", i, d)) /\ UNCHANGED reg
  ELSE Drops

SignalSent(d, j) ==
  /\ j \in jobs[d] /\ j.op = "send" /\ j.at = "begin" /\ Route(d, j.by, j.id)
  /\ IF Awaited(j) THEN Step(d, j, "done") ELSE Gives(d, {j}, {})
  /\ UNCHANGED <<renderer, native, events, mishaps, hangups>>

SignalLost(d, j) ==
  /\ j \in jobs[d] /\ j.op = "send" /\ j.at = "begin"
  /\ Mishap
  /\ IF Awaited(j) THEN Step(d, j, "failed") ELSE Gives(d, {j}, {})
  /\ UNCHANGED <<renderer, native, events, server, hangups>>

(* What startCall() and acceptCall() do once it is out: the ring timer is  *)
(* armed, or the connection is started, for the call they were about.      *)
SendReturns(d, j) ==
  /\ j \in jobs[d] /\ j.op = "send" /\ j.at \in {"done", "failed"}
  /\ CASE j.at = "failed" -> EndsCall(d, {j}, j.by = "ACCEPT")
       [] j.at = "done" /\ j.by = "INVITE" ->
            Arms(ring, d, j.id) /\ Gives(d, {j}, {}) /\ UNCHANGED call
       [] j.at = "done" /\ j.by = "ACCEPT" ->
            Gives(d, {j}, {Job("connect", j.id, "accept", Placer[j.id])})
            /\ UNCHANGED <<call, ring>>
  /\ UNCHANGED <<missed, placed, native, events, server, mishaps, hangups>>

-----------------------------------------------------------------------------
User(d) == AcceptCall(d) \/ HangUp(d) \/ \E i \in Calls : StartCall(d, i)
Timers(d) == RingTimeout(d) \/ MissedTimeout(d) \/ PunchFails(d) \/ PeerLost(d)
Runs(d) ==
  \/ OnSignal(d) \/ PunchSucceeds(d)
  \/ \E e \in events[d] : OnOutcome(d, e)
  \/ \E j \in jobs[d] :
       \/ PrepareBegins(d, j) \/ PrepareEnds(d, j) \/ PrepareReturns(d, j)
       \/ Connect(d, j) \/ ConnectFails(d, j) \/ CallEnd(d, j)
       \/ SignalSent(d, j) \/ SendReturns(d, j)
Loses(d) == \E j \in jobs[d] : SignalLost(d, j)

Next == \E d \in Devices : User(d) \/ Timers(d) \/ Runs(d) \/ Loses(d)

Spec == Init /\ [][Next]_vars

(* Commands end, signals and outcomes are handed over, timers run out; no  *)
(* user is assumed to do anything.                                         *)
Progress == \E d \in Devices : Timers(d) \/ Runs(d)
FairSpec == Spec /\ WF_vars(Progress)

-----------------------------------------------------------------------------
(* A device in no call, with nothing under way, holds no sockets and no    *)
(* engine: every way out of a call stops the microphone (endCall, the      *)
(* stale continuations of startCall and acceptCall, and the glare).        *)
IdleMeansFree ==
  \A d \in Devices : call[d].status = "idle" /\ jobs[d] = {} =>
    pending[d] = None /\ active[d] = NoCall

(* A call that is being connected finds the sockets it was prepared with.  *)
CurrentCallIsPrepared ==
  \A d \in Devices : \A j \in jobs[d] :
    j.op = "connect" /\ j.at = "begin" /\ j.id = call[d].id => pending[d] = j.id

(* Devices d and e hear each other in call i.                              *)
Talking(i, d, e) ==
  /\ active[d].id = i /\ active[d].phase = "up" /\ active[d].with = e
  /\ active[e].id = i /\ active[e].phase = "up" /\ active[e].with = d

(* While the two talk and neither has left, the server holds their call    *)
(* with the device that answered first as its callee: what the other       *)
(* devices of the callee still send (late answers, refusals, the hang-up   *)
(* of one whose punch failed) does not end it, and the end of either side  *)
(* will reach the other (route_call, endCall).                             *)
TalkersAreRegistered ==
  \A i \in Calls : \A e \in Devices :
    LET d == Placer[i] IN
    Talking(i, d, e) /\ call[d].id = i /\ call[e].id = i
      => reg[i].up /\ reg[i].callee = e

(* Nobody waits for ever: a call that is placed, rings or connects becomes *)
(* one that is talked in, or ends.                                         *)
Waiting(d) == call[d].status \in {"outgoing", "incoming", "connecting"}
HandshakeEnds == (\E d \in Devices : Waiting(d)) ~> (\A d \in Devices : ~Waiting(d))

(* Nobody stays alone in a call the other end has left.                    *)
Alone(d) ==
  call[d].status = "active" /\
    ~\E e \in Devices : Owner[e] # Owner[d] /\ call[e].id = call[d].id
AloneEnds == (\E d \in Devices : Alone(d)) ~> (\A d \in Devices : ~Alone(d))
=============================================================================
