------------------------ MODULE CallHandshakeProofs ------------------------
(***************************************************************************)
(* What holds of CallHandshake for any number of devices, calls, hang-ups  *)
(* and mishaps, in whatever order native commands, signals and outcomes    *)
(* come.                                                                   *)
(***************************************************************************)
EXTENDS CallHandshake, TLAPS

USE HandshakeAssumption

-----------------------------------------------------------------------------
(* The types of what the devices and the server hold.                      *)

Statuses == {"idle", "outgoing", "incoming", "connecting", "active"}
Kinds == {"INVITE", "ACCEPT", "REJECT", "BUSY", "CANCEL", "HANGUP", "ELSEWHERE"}
Reasons == Kinds \cup {"start", "accept", "accepted", "ended", "glare", "stale"}
JobSet ==
  {j \in [op : {"prepare", "send", "connect", "end"}, id : Calls, by : Reasons,
          dev : Devices \cup {None}, at : {"begin", "gathering", "done", "failed"}] :
     /\ j.op = "send" /\ j.at # "begin" => Awaited(j)
     /\ j.op = "prepare" => j.by \in {"start", "accept"}}
SignalSet == [kind : Kinds, id : Calls, dev : Devices]
EventSet == [kind : {"connected", "failed", "dropped"}, id : Calls]
Engines == {NoCall} \cup [id : Calls, with : Devices \cup {None}, phase : {"punching", "up", "lost"}]
Entries == [ringing : SUBSET Devices, callee : Devices \cup {None}, up : BOOLEAN]

Typed ==
  /\ call \in [Devices -> {Idle} \cup [status : Statuses \ {"idle"}, id : Calls, caller : BOOLEAN]]
  /\ placed \in SUBSET Calls
  /\ jobs \in [Devices -> SUBSET JobSet]
  /\ pending \in [Devices -> Calls \cup {None}]
  /\ active \in [Devices -> Engines]
  /\ events \in [Devices -> SUBSET EventSet]
  /\ reg \in [Calls -> Entries]
  /\ down \in [Devices -> Seq(SignalSet)]

-----------------------------------------------------------------------------
(* No sockets and no engine but for a call one is in, or there is an end   *)
(* still to be carried out.                                                *)

ToBeEnded(j) == j.op = "end" \/ (j.op = "prepare" /\ j.at = "done")

Released(d) ==
  pending[d] # None \/ active[d] # NoCall =>
    \/ call[d].status \in {"outgoing", "connecting", "active"}
    \/ \E j \in jobs[d] : ToBeEnded(j)

-----------------------------------------------------------------------------
(* How far a call has come.  It is fresh until its INVITE has reached the  *)
(* server: the one command that leads there is its token.                  *)

IsToken(j) ==
  \/ j.op = "prepare" /\ j.by = "start"
  \/ j.op = "send" /\ j.by = "INVITE" /\ j.at = "begin"
Fresh(i) == i \notin placed \/ \E j \in jobs[Placer[i]] : IsToken(j) /\ j.id = i

Tokens ==
  \A d \in Devices : \A j \in jobs[d] :
    IsToken(j) =>
      /\ Placer[j.id] = d /\ j.id \in placed
      /\ \A k \in jobs[d] : IsToken(k) /\ k.id = j.id => k = j

OnWire(e, s) == \E k \in 1..Len(down[e]) : down[e][k] = s
Invites(e, i) == {k \in 1..Len(down[e]) : down[e][k].kind = "INVITE" /\ down[e][k].id = i}

FreshIsUntouched ==
  \A i \in Calls : Fresh(i) =>
    /\ reg[i] = [ringing |-> {}, callee |-> None, up |-> FALSE]
    /\ \A e \in Devices : \A k \in 1..Len(down[e]) : down[e][k].id # i

Answering(j) == (j.op = "prepare" /\ j.by = "accept") \/ (j.op = "send" /\ j.by = "ACCEPT")

Sides ==
  /\ \A d \in Devices : \A i \in Calls : call[d].id = i =>
       /\ i \in placed /\ (d # Placer[i] => ~Fresh(i))
       /\ call[d].status = "incoming" => d # Placer[i]
       /\ call[d].status = "outgoing" => d = Placer[i]
  /\ \A d \in Devices : \A j \in jobs[d] : Answering(j) => d # Placer[j.id]

InvitedOnce ==
  \A d \in Devices : \A i \in Calls : \A k \in Invites(d, i) :
    d # Placer[i] /\ call[d].id # i /\ Invites(d, i) = {k}

Ending == {"CANCEL", "HANGUP", "REJECT", "BUSY"}
EndsAreFinal ==
  \A d \in Devices : \A j \in jobs[d] : j.op = "send" /\ j.by \in Ending =>
    /\ j.id \in placed /\ call[d].id # j.id /\ Invites(d, j.id) = {}
    /\ d # Placer[j.id] => ~Fresh(j.id)

AnsweredOnce == \A i \in Calls : reg[i].callee # None => reg[i].ringing = {}

\* The caller has heard, or acted on, that device e answered call i.
AnsweredBy(i, e) ==
  \/ OnWire(Placer[i], Signal("ACCEPT", i, e))
  \/ \E j \in jobs[Placer[i]] : j.op = "connect" /\ j.id = i /\ j.dev = e
  \/ active[Placer[i]].id = i /\ active[Placer[i]].with = e

Answers ==
  \A i \in Calls : \A e \in Devices : AnsweredBy(i, e) =>
    /\ ~Fresh(i)
    /\ reg[i].up => reg[i].callee = e
    /\ ~reg[i].up => call[Placer[i]].id # i \/ (call[e].id # i /\ Invites(e, i) = {})

Engaged(d, i) ==
  \/ \E j \in jobs[d] : j.id = i /\ (Answering(j) \/ j.op = "connect")
  \/ active[d].id = i \/ \E v \in events[d] : v.id = i

EngagedOnce ==
  \A d \in Devices : \A i \in Calls : Engaged(d, i) =>
    ~Fresh(i) /\ Invites(d, i) = {} /\ ~(call[d].status = "incoming" /\ call[d].id = i)

Registered ==
  Typed /\ Tokens /\ FreshIsUntouched /\ Sides /\ InvitedOnce /\ EndsAreFinal
        /\ AnsweredOnce /\ Answers /\ EngagedOnce

-----------------------------------------------------------------------------
(* Types.                                                                  *)

LEMMA Constants ==
  /\ None \notin Devices /\ None \notin Calls
  /\ Placer \in [Calls -> Devices] /\ Owner \in [Devices -> Accounts]
OBVIOUS

LEMMA EndKinds ==
  \A status \in Statuses : EndKind(status) \in {"CANCEL", "REJECT", "HANGUP"}
BY DEF EndKind, Statuses

LEMMA InitTyped == Init => Typed
BY Constants DEF Init, Typed, Engines, Entries, JobSet, SignalSet, EventSet

Calling == [status : Statuses \ {"idle"}, id : Calls, caller : BOOLEAN]

\* The parts of the state a step of device d has types to keep.
LEMMA CallType ==
  ASSUME Typed, NEW d \in Devices
  PROVE  /\ call[d] \in {Idle} \cup Calling
         /\ call[d].status # "idle" => call[d] \in Calling
         /\ call[d].status # "idle" <=> call[d].id \in Calls
         /\ call[d].id \in Calls \cup {None}
BY Constants DEF Typed, Calling, Idle, Statuses

LEMMA BecomesType ==
  ASSUME Typed, NEW d \in Devices, NEW status \in Statuses \ {"idle"}, NEW i \in Calls,
         NEW caller \in BOOLEAN, Becomes(d, status, i, caller)
  PROVE  call' \in [Devices -> {Idle} \cup Calling]
BY DEF Becomes, Typed, Calling

LEMMA ResetsType ==
  ASSUME Typed, NEW d \in Devices, Resets(d)
  PROVE  call' \in [Devices -> {Idle} \cup Calling]
BY DEF Resets, Typed, Calling

LEMMA GivesType ==
  ASSUME Typed, NEW d \in Devices, NEW gone, NEW new \in SUBSET JobSet, Gives(d, gone, new)
  PROVE  jobs' \in [Devices -> SUBSET JobSet]
BY DEF Gives, Typed

LEMMA EndsCallType ==
  ASSUME Typed, NEW d \in Devices, NEW gone, NEW notify, EndsCall(d, gone, notify)
  PROVE  call' \in [Devices -> {Idle} \cup Calling] /\ jobs' \in [Devices -> SUBSET JobSet]
<1>1. CASE call[d].status = "idle"
  <2>1. Gives(d, gone, {}) /\ call' = call
    BY <1>1 DEF EndsCall
  <2> QED
    BY <2>1, GivesType DEF Typed, Calling
<1>2. CASE call[d].status # "idle"
  <2>1. call[d].id \in Calls /\ EndKind(call[d].status) \in {"CANCEL", "REJECT", "HANGUP"}
    BY <1>2, CallType, EndKinds DEF Calling
  <2>2. EndJob(call[d].id, "ended") \in JobSet /\ Sends(EndKind(call[d].status), call[d].id) \in JobSet
    BY <2>1 DEF EndJob, Sends, Job, JobSet, Reasons, Kinds
  <2>3. Resets(d) /\ Gives(d, gone, {EndJob(call[d].id, "ended")} \cup
              IF notify THEN {Sends(EndKind(call[d].status), call[d].id)} ELSE {})
    BY <1>2 DEF EndsCall
  <2>4. ({EndJob(call[d].id, "ended")} \cup
              IF notify THEN {Sends(EndKind(call[d].status), call[d].id)} ELSE {}) \in SUBSET JobSet
    BY <2>2
  <2> QED
    BY <2>3, <2>4, ResetsType, GivesType
<1> QED
  BY <1>1, <1>2

LEMMA AcceptsType ==
  ASSUME Typed, NEW d \in Devices, NEW i \in Calls, NEW new \in SUBSET JobSet, Accepts(d, i, new)
  PROVE  call' \in [Devices -> {Idle} \cup Calling] /\ jobs' \in [Devices -> SUBSET JobSet]
<1>1. Job("prepare", i, "accept", None) \in JobSet
  BY DEF Job, JobSet, Reasons, Kinds
<1>2. Becomes(d, "connecting", i, FALSE) /\ Gives(d, {}, {Job("prepare", i, "accept", None)} \cup new)
  BY DEF Accepts
<1> QED
  BY <1>1, <1>2, BecomesType, GivesType DEF Statuses

LEMMA OnSignalTyped ==
  ASSUME Typed, NEW d \in Devices, OnSignal(d)
  PROVE  Typed'
<1> DEFINE s == Head(down[d])
<1>1. down[d] # <<>> /\ down' = [down EXCEPT ![d] = Tail(@)] /\ down[d] \in Seq(SignalSet)
      /\ UNCHANGED <<placed, pending, active, events, reg>>
  BY DEF OnSignal, Typed
<1>2. down' \in [Devices -> Seq(SignalSet)]
  <2>1. Tail(down[d]) \in Seq(SignalSet)
    BY <1>1
  <2> QED
    BY <1>1, <2>1 DEF Typed
<1>3. s \in SignalSet
  BY <1>1
<1>4. s.id \in Calls /\ s.dev \in Devices
  BY <1>3 DEF SignalSet
<1> HIDE DEF s
<1> DEFINE Good == call' \in [Devices -> {Idle} \cup Calling] /\ jobs' \in [Devices -> SUBSET JobSet]
<1>5. ASSUME UNCHANGED <<call, jobs>> PROVE Good
  BY <1>5 DEF Typed, Calling
<1>6. ASSUME OnInvite(d, s) PROVE Good
  <2>1. CASE call[d].status = "outgoing" /\ Owner[d] < Owner[s.dev]
    BY <1>5, <1>6, <2>1 DEF OnInvite
  <2>2. CASE call[d].status = "outgoing" /\ ~(Owner[d] < Owner[s.dev])
    <3>1. Accepts(d, s.id, {Sends("CANCEL", call[d].id), EndJob(call[d].id, "glare")})
      BY <1>6, <2>2 DEF OnInvite
    <3>2. {Sends("CANCEL", call[d].id), EndJob(call[d].id, "glare")} \in SUBSET JobSet
      BY <2>2, CallType DEF EndJob, Sends, Job, JobSet, Reasons, Kinds
    <3> QED
      BY <1>4, <3>1, <3>2, AcceptsType
  <2>3. CASE call[d].status = "idle"
    <3>1. Becomes(d, "incoming", s.id, FALSE) /\ jobs' = jobs
      BY <1>6, <2>3 DEF OnInvite
    <3> QED
      BY <1>4, <3>1, BecomesType DEF Typed, Statuses
  <2>4. CASE call[d].status \notin {"outgoing", "idle"}
    <3>1. Gives(d, {}, {Sends("BUSY", s.id)}) /\ call' = call
      BY <1>6, <2>4 DEF OnInvite
    <3>2. {Sends("BUSY", s.id)} \in SUBSET JobSet
      BY <1>4 DEF Sends, Job, JobSet, Reasons, Kinds
    <3> QED
      BY <3>1, <3>2, GivesType DEF Typed, Calling
  <2> QED
    BY <2>1, <2>2, <2>3, <2>4
<1>7. ASSUME OnAccept(d, s) PROVE Good
  <2>1. CASE call[d].status = "outgoing"
    <3>1. Becomes(d, "connecting", s.id, TRUE) /\ Gives(d, {}, {Job("connect", s.id, "accepted", s.dev)})
      BY <1>7, <2>1 DEF OnAccept
    <3>2. {Job("connect", s.id, "accepted", s.dev)} \in SUBSET JobSet
      BY <1>4 DEF Job, JobSet, Reasons, Kinds
    <3> QED
      BY <1>4, <3>1, <3>2, BecomesType, GivesType DEF Statuses
  <2> QED
    BY <1>5, <1>7, <2>1 DEF OnAccept
<1>8. ASSUME NEW notify, EndsCall(d, {}, notify) PROVE Good
  BY <1>8, EndsCallType
<1>9. ASSUME Withdrawn(d) PROVE Good
  BY <1>9, ResetsType DEF Withdrawn, Typed
<1>10. Good
  <2>1. CASE s.kind = "INVITE"
    BY <1>6, <2>1 DEF OnSignal, s
  <2>2. CASE s.kind = "ACCEPT"
    BY <1>5, <1>7, <2>2 DEF OnSignal, s
  <2>3. CASE s.kind \in {"REJECT", "BUSY", "HANGUP"}
    BY <1>5, <1>8, <2>3 DEF OnSignal, s
  <2>4. CASE s.kind = "CANCEL"
    BY <1>5, <1>9, <2>4 DEF OnSignal, s
  <2>5. CASE s.kind = "ELSEWHERE"
    BY <1>5, <1>8, <1>9, <2>5 DEF OnSignal, OnElsewhere, s
  <2>6. CASE s.kind \notin {"INVITE", "ACCEPT", "REJECT", "BUSY", "HANGUP", "CANCEL", "ELSEWHERE"}
    BY <1>5, <2>6 DEF OnSignal, s
  <2> QED
    BY <2>1, <2>2, <2>3, <2>4, <2>5, <2>6
<1> QED
  BY <1>1, <1>2, <1>10 DEF Typed, Calling

LEMMA RendererTyped ==
  ASSUME Typed, NEW d \in Devices,
         \/ AcceptCall(d) \/ HangUp(d) \/ \E i \in Calls : StartCall(d, i)
         \/ RingTimeout(d) \/ MissedTimeout(d) \/ \E e \in events[d] : OnOutcome(d, e)
         \/ \E j \in jobs[d] : PrepareReturns(d, j) \/ ConnectFails(d, j) \/ SendReturns(d, j)
  PROVE  Typed'
<1> DEFINE Good == call' \in [Devices -> {Idle} \cup Calling] /\ jobs' \in [Devices -> SUBSET JobSet]
<1>1. /\ placed' \in SUBSET Calls /\ UNCHANGED <<pending, active, reg, down>>
      /\ events' \in [Devices -> SUBSET EventSet]
  <2>1. CASE \E e \in events[d] : OnOutcome(d, e)
    BY <2>1 DEF OnOutcome, Typed
  <2>2. CASE \E i \in Calls : StartCall(d, i)
    BY <2>2 DEF StartCall, Typed
  <2>3. CASE \E j \in jobs[d] : PrepareReturns(d, j) \/ ConnectFails(d, j) \/ SendReturns(d, j)
    BY <2>3 DEF PrepareReturns, ConnectFails, SendReturns, native, server, Typed
  <2>4. CASE AcceptCall(d) \/ HangUp(d) \/ RingTimeout(d) \/ MissedTimeout(d)
    BY <2>4 DEF AcceptCall, HangUp, RingTimeout, MissedTimeout, Typed
  <2> QED
    BY <2>1, <2>2, <2>3, <2>4
<1>2. ASSUME NEW gone, NEW notify, EndsCall(d, gone, notify) PROVE Good
  BY <1>2, EndsCallType
<1>3. ASSUME NEW gone, NEW new \in SUBSET JobSet, Gives(d, gone, new), UNCHANGED call PROVE Good
  BY <1>3, GivesType DEF Typed, Calling
<1>4. CASE AcceptCall(d)
  <2>1. Accepts(d, call[d].id, {}) /\ call[d].status = "incoming"
    BY <1>4 DEF AcceptCall
  <2>2. Good
    BY <2>1, CallType, AcceptsType
  <2> QED
    BY <1>1, <2>2 DEF Typed, Calling
<1>5. CASE HangUp(d) \/ RingTimeout(d)
  <2>1. Good
    BY <1>2, <1>5 DEF HangUp, RingTimeout
  <2> QED
    BY <1>1, <2>1 DEF Typed, Calling
<1>6. CASE \E i \in Calls : StartCall(d, i)
  <2>1. PICK i \in Calls : StartCall(d, i)
    BY <1>6
  <2>2. Becomes(d, "outgoing", i, TRUE) /\ Gives(d, {}, {Job("prepare", i, "start", None)})
    BY <2>1 DEF StartCall
  <2>3. {Job("prepare", i, "start", None)} \in SUBSET JobSet
    BY DEF Job, JobSet, Reasons, Kinds
  <2>4. Good
    BY <2>2, <2>3, BecomesType, GivesType DEF Statuses
  <2> QED
    BY <1>1, <2>4 DEF Typed, Calling
<1>7. CASE MissedTimeout(d)
  <2>1. Good
    BY <1>7, ResetsType DEF MissedTimeout, Typed
  <2> QED
    BY <1>1, <2>1 DEF Typed, Calling
<1>8. CASE \E e \in events[d] : OnOutcome(d, e)
  <2>1. PICK e \in events[d] : OnOutcome(d, e)
    BY <1>8
  <2>2. e.id \in Calls
    BY DEF Typed, EventSet
  <2>3. CASE UNCHANGED <<call, jobs>>
    BY <1>1, <2>3 DEF Typed
  <2>4. CASE call[d].id = e.id /\ Becomes(d, "active", e.id, call[d].caller) /\ jobs' = jobs
    <3>1. call[d].caller \in BOOLEAN
      BY <2>2, <2>4, CallType DEF Calling
    <3>2. Good
      BY <2>2, <2>4, <3>1, BecomesType DEF Statuses, Typed
    <3> QED
      BY <1>1, <3>2 DEF Typed, Calling
  <2>5. CASE EndsCall(d, {}, TRUE)
    <3>1. Good
      BY <1>2, <2>5
    <3> QED
      BY <1>1, <3>1 DEF Typed, Calling
  <2> QED
    BY <2>1, <2>3, <2>4, <2>5 DEF OnOutcome
<1>9. CASE \E j \in jobs[d] : PrepareReturns(d, j) \/ ConnectFails(d, j) \/ SendReturns(d, j)
  <2>1. PICK j \in jobs[d] : PrepareReturns(d, j) \/ ConnectFails(d, j) \/ SendReturns(d, j)
    BY <1>9
  <2>2. j.id \in Calls /\ Placer[j.id] \in Devices
    BY Constants DEF Typed, JobSet
  <2>3. /\ {EndJob(j.id, "stale")} \in SUBSET JobSet
        /\ {Sends(IF j.by = "start" THEN "INVITE" ELSE "ACCEPT", j.id)} \in SUBSET JobSet
        /\ {Job("connect", j.id, "accept", Placer[j.id])} \in SUBSET JobSet
    BY <2>2 DEF EndJob, Sends, Job, JobSet, Reasons, Kinds
  <2>4. Good
    <3>1. CASE PrepareReturns(d, j)
      BY <1>2, <1>3, <2>3, <3>1 DEF PrepareReturns
    <3>2. CASE ConnectFails(d, j)
      BY <1>2, <3>2 DEF ConnectFails
    <3>3. CASE SendReturns(d, j)
      <4>1. j.op = "send" /\ j.at \in {"done", "failed"} /\ j.by \in {"INVITE", "ACCEPT"}
        BY <3>3 DEF SendReturns, Typed, JobSet, Awaited
      <4>2. CASE j.at = "failed"
        <5>1. EndsCall(d, {j}, j.by = "ACCEPT")
          BY <3>3, <4>2 DEF SendReturns
        <5> QED
          BY <1>2, <5>1
      <4>3. CASE j.at = "done" /\ j.by = "INVITE"
        <5>1. Gives(d, {j}, {}) /\ call' = call
          BY <3>3, <4>3 DEF SendReturns
        <5> QED
          BY <1>3, <5>1
      <4>4. CASE j.at = "done" /\ j.by = "ACCEPT"
        <5>1. Gives(d, {j}, {Job("connect", j.id, "accept", Placer[j.id])}) /\ call' = call
          BY <3>3, <4>4 DEF SendReturns
        <5> QED
          BY <1>3, <2>3, <5>1
      <4> QED
        BY <4>1, <4>2, <4>3, <4>4
    <3> QED
      BY <2>1, <3>1, <3>2, <3>3
  <2> QED
    BY <1>1, <2>4 DEF Typed, Calling
<1> QED
  BY <1>4, <1>5, <1>6, <1>7, <1>8, <1>9

LEMMA NativeTyped ==
  ASSUME Typed, NEW d \in Devices,
         \/ PunchSucceeds(d) \/ PunchFails(d) \/ PeerLost(d)
         \/ \E j \in jobs[d] : \/ PrepareBegins(d, j) \/ PrepareEnds(d, j) \/ Connect(d, j)
                               \/ CallEnd(d, j) \/ SignalLost(d, j)
  PROVE  Typed'
<1>1. UNCHANGED <<call, placed, reg, down>>
  BY DEF PunchSucceeds, PunchFails, PeerLost, PrepareBegins, PrepareEnds, Connect, CallEnd, SignalLost,
         renderer, server
<1>2. CASE PunchSucceeds(d) \/ PunchFails(d) \/ PeerLost(d)
  <2>1. active[d].phase # "none" /\ active[d] # NoCall
    BY <1>2 DEF PunchSucceeds, PunchFails, PeerLost, NoCall
  <2>2. active[d] \in [id : Calls, with : Devices \cup {None}, phase : {"punching", "up", "lost"}]
    BY <2>1 DEF Typed, Engines
  <2>3. jobs' = jobs /\ pending' = pending
    BY <1>2 DEF PunchSucceeds, PunchFails, PeerLost
  <2>4. events' \in [Devices -> SUBSET EventSet]
    <3>1. \E kind \in {"connected", "failed", "dropped"} : Happens(d, kind)
      BY <1>2 DEF PunchSucceeds, PunchFails, PeerLost
    <3>2. active[d].id \in Calls
      BY <2>2
    <3> QED
      BY <3>1, <3>2 DEF Happens, Typed, EventSet
  <2>5. active' \in [Devices -> Engines]
    <3>1. CASE PunchFails(d)
      BY <3>1 DEF PunchFails, Held, Typed, Engines
    <3>2. CASE PunchSucceeds(d)
      <4>1. active' = [active EXCEPT ![d] = [active[d] EXCEPT !.phase = "up"]]
        BY <3>2 DEF PunchSucceeds
      <4>2. [active[d] EXCEPT !.phase = "up"] \in Engines
        BY <2>2 DEF Engines
      <4> QED
        BY <4>1, <4>2 DEF Typed
    <3>3. CASE PeerLost(d)
      <4>1. active' = [active EXCEPT ![d] = [active[d] EXCEPT !.phase = "lost"]]
        BY <3>3 DEF PeerLost
      <4>2. [active[d] EXCEPT !.phase = "lost"] \in Engines
        BY <2>2 DEF Engines
      <4> QED
        BY <4>1, <4>2 DEF Typed
    <3> QED
      BY <1>2, <3>1, <3>2, <3>3
  <2> QED
    BY <1>1, <2>3, <2>4, <2>5 DEF Typed
<1>3. CASE \E j \in jobs[d] : \/ PrepareBegins(d, j) \/ PrepareEnds(d, j) \/ Connect(d, j)
                              \/ CallEnd(d, j) \/ SignalLost(d, j)
  <2>1. PICK j \in jobs[d] : \/ PrepareBegins(d, j) \/ PrepareEnds(d, j) \/ Connect(d, j)
                             \/ CallEnd(d, j) \/ SignalLost(d, j)
    BY <1>3
  <2>2. j \in JobSet
    BY DEF Typed
  <2>3. \/ \E at \in {"begin", "gathering", "done", "failed"} : Step(d, j, at) /\ (j.op = "send" => Awaited(j))
        \/ Gives(d, {j}, {})
    BY <2>1 DEF PrepareBegins, PrepareEnds, Connect, CallEnd, SignalLost
  <2>4. jobs' \in [Devices -> SUBSET JobSet]
    <3>1. CASE Gives(d, {j}, {})
      BY <3>1, GivesType
    <3>2. ASSUME NEW at \in {"begin", "gathering", "done", "failed"}, Step(d, j, at), j.op = "send" => Awaited(j)
          PROVE  jobs' \in [Devices -> SUBSET JobSet]
      <4>1. [j EXCEPT !.at = at] \in JobSet
        BY <2>2, <3>2 DEF JobSet, Awaited
      <4> QED
        BY <3>2, <4>1 DEF Step, Typed
    <3> QED
      BY <2>3, <3>1, <3>2
  <2>5. events' = events
    BY <2>1 DEF PrepareBegins, PrepareEnds, Connect, CallEnd, SignalLost
  <2>6. pending' \in [Devices -> Calls \cup {None}]
    <3>1. \/ pending' = pending \/ Held(pending, d, None) \/ Held(pending, d, j.id)
      BY <2>1 DEF PrepareBegins, PrepareEnds, Connect, CallEnd, SignalLost, native
    <3> QED
      BY <2>2, <3>1 DEF Held, Typed, JobSet
  <2>7. active' \in [Devices -> Engines]
    <3>1. \/ active' = active \/ Held(active, d, NoCall)
          \/ Held(active, d, [id |-> j.id, with |-> j.dev, phase |-> "punching"])
      BY <2>1 DEF PrepareBegins, PrepareEnds, Connect, CallEnd, SignalLost, native
    <3>2. NoCall \in Engines /\ [id |-> j.id, with |-> j.dev, phase |-> "punching"] \in Engines
      BY <2>2 DEF JobSet, Engines
    <3>3. active \in [Devices -> Engines]
      BY DEF Typed
    <3> QED
      BY <3>1, <3>2, <3>3 DEF Held
  <2> QED
    BY <1>1, <2>4, <2>5, <2>6, <2>7 DEF Typed
<1> QED
  BY <1>2, <1>3

\* What route_call does with a signal: it is dropped, or the call's entry
\* changes and some devices get a signal of that call.
LEMMA RouteTyped ==
  ASSUME Typed, NEW d \in Devices, NEW kind \in Kinds, NEW i \in Calls, Route(d, kind, i)
  PROVE  reg' \in [Calls -> Entries] /\ down' \in [Devices -> Seq(SignalSet)]
<1>1. \A k \in Kinds : Signal(k, i, d) \in SignalSet
  BY DEF Signal, SignalSet
<1>2. \A e \in Devices : down[e] \in Seq(SignalSet)
      /\ \A k \in Kinds : Append(down[e], Signal(k, i, d)) \in Seq(SignalSet)
  BY <1>1 DEF Typed
<1>3. reg[i] \in Entries /\ reg[i].ringing \in SUBSET Devices
  BY DEF Typed, Entries
<1>4. ASSUME UNCHANGED <<reg, down>> PROVE reg' \in [Calls -> Entries] /\ down' \in [Devices -> Seq(SignalSet)]
  BY <1>4 DEF Typed
<1>5. ASSUME Gone(i) PROVE reg' \in [Calls -> Entries]
  BY <1>5 DEF Gone, Typed, Entries
<1>6. ASSUME NEW ds, NEW k \in Kinds, To(ds, Signal(k, i, d)) PROVE down' \in [Devices -> Seq(SignalSet)]
  BY <1>2, <1>6 DEF To
<1>7. CASE kind = "INVITE" /\ ~reg[i].up
  <2>1. /\ To(Devices \ Devs(Owner[d]), Signal("INVITE", i, d))
        /\ reg' = [reg EXCEPT ![i] = [ringing |-> Devices \ Devs(Owner[d]), callee |-> None, up |-> TRUE]]
    BY <1>7 DEF Route, Rings
  <2>2. [ringing |-> Devices \ Devs(Owner[d]), callee |-> None, up |-> TRUE] \in Entries
    BY DEF Entries, Devs
  <2> QED
    BY <1>6, <2>1, <2>2 DEF Typed, Kinds
<1>8. CASE kind # "INVITE" /\ ByCaller(d, kind, i)
  <2>1. CASE UNCHANGED <<reg, down>>
    BY <1>4, <2>1
  <2>2. CASE Gone(i) /\ \E ds : To(ds, Signal(kind, i, d))
    BY <1>5, <1>6, <2>2
  <2> QED
    BY <1>8, <2>1, <2>2 DEF ByCaller, Drops
<1>9. CASE kind # "INVITE" /\ ByCallee(d, kind, i)
  <2>1. CASE UNCHANGED <<reg, down>>
    BY <1>4, <2>1
  <2>2. CASE Gone(i) /\ \E ds : To(ds, Signal(kind, i, d))
    BY <1>5, <1>6, <2>2
  <2> QED
    BY <1>9, <2>1, <2>2 DEF ByCallee, Drops
<1>10. CASE kind # "INVITE" /\ ByRinging(d, kind, i)
  <2> DEFINE others == reg[i].ringing \ {d}
             Both(k) == down' = [e \in Devices |->
                          IF e = Placer[i] THEN Append(down[e], Signal(k, i, d))
                          ELSE IF e \in others THEN Append(down[e], Signal("ELSEWHERE", i, d))
                          ELSE down[e]]
  <2>1. ASSUME NEW k \in Kinds, Both(k) PROVE down' \in [Devices -> Seq(SignalSet)]
    <3>1. "ELSEWHERE" \in Kinds
      BY DEF Kinds
    <3> QED
      BY <1>2, <2>1, <3>1
  <2>2. CASE kind = "BUSY"
    <3>1. CASE others = {}
      <4>1. To({Placer[i]}, Signal("BUSY", i, d)) /\ Gone(i)
        BY <1>10, <2>2, <3>1 DEF ByRinging
      <4> QED
        BY <1>5, <1>6, <4>1 DEF Kinds
    <3>2. CASE others # {}
      <4>1. reg' = [reg EXCEPT ![i].ringing = others] /\ down' = down
        BY <1>10, <2>2, <3>2 DEF ByRinging
      <4>2. [reg[i] EXCEPT !.ringing = others] \in Entries
        BY <1>3 DEF Entries
      <4>3. reg' = [reg EXCEPT ![i] = [reg[i] EXCEPT !.ringing = others]]
        BY <4>1
      <4> QED
        BY <4>1, <4>2, <4>3 DEF Typed
    <3> QED
      BY <3>1, <3>2
  <2>3. CASE kind = "ACCEPT"
    <3>1. Both("ACCEPT") /\ reg' = [reg EXCEPT ![i].callee = d, ![i].ringing = {}]
      BY <1>10, <2>3 DEF ByRinging
    <3>2. down' \in [Devices -> Seq(SignalSet)]
      BY <2>1, <3>1 DEF Kinds
    <3>3. reg' \in [Calls -> Entries]
      <4>1. reg' = [reg EXCEPT ![i] = [reg[i] EXCEPT !.callee = d, !.ringing = {}]]
        BY <3>1
      <4>2. [reg[i] EXCEPT !.callee = d, !.ringing = {}] \in Entries
        BY <1>3 DEF Entries
      <4> QED
        BY <4>1, <4>2 DEF Typed
    <3> QED
      BY <3>2, <3>3
  <2>4. CASE kind \in {"REJECT", "HANGUP"}
    <3>1. Both(kind) /\ Gone(i)
      BY <1>10, <2>4 DEF ByRinging
    <3> QED
      BY <1>5, <2>1, <3>1
  <2>5. CASE kind \notin {"BUSY", "ACCEPT", "REJECT", "HANGUP"}
    BY <1>4, <1>10, <2>5 DEF ByRinging, Drops
  <2> QED
    BY <2>2, <2>3, <2>4, <2>5
<1>11. CASE To({d}, Signal("ELSEWHERE", i, d)) /\ UNCHANGED reg
  BY <1>6, <1>11 DEF Typed, Kinds
<1>12. CASE UNCHANGED <<reg, down>>
  BY <1>4, <1>12
<1> QED
  BY <1>7, <1>8, <1>9, <1>10, <1>11, <1>12 DEF Route, Rings, Drops

LEMMA SignalSentTyped ==
  ASSUME Typed, NEW d \in Devices, NEW j \in jobs[d], SignalSent(d, j)
  PROVE  Typed'
<1>1. j \in JobSet /\ Route(d, j.by, j.id) /\ j.op = "send" /\ j.at = "begin"
      /\ UNCHANGED <<call, placed, pending, active, events>>
  BY DEF SignalSent, Typed, renderer, native
<1>2. jobs' \in [Devices -> SUBSET JobSet]
  <2>1. CASE Awaited(j)
    <3>1. Step(d, j, "done")
      BY <2>1 DEF SignalSent
    <3>2. [j EXCEPT !.at = "done"] \in JobSet
      BY <1>1, <2>1 DEF JobSet, Awaited
    <3> QED
      BY <3>1, <3>2 DEF Step, Typed
  <2>2. CASE ~Awaited(j)
    BY <2>2, GivesType DEF SignalSent
  <2> QED
    BY <2>1, <2>2
<1>3. j.id \in Calls /\ j.by \in Reasons
  BY <1>1 DEF JobSet
<1>4. reg' \in [Calls -> Entries] /\ down' \in [Devices -> Seq(SignalSet)]
  <2>1. CASE j.by \in Kinds
    BY <1>1, <1>3, <2>1, RouteTyped
  <2>2. CASE j.by \notin Kinds
    <3>1. UNCHANGED <<reg, down>>
      BY <1>1, <2>2 DEF Route, Rings, ByCaller, ByRinging, ByCallee, Drops, Kinds
    <3> QED
      BY <3>1 DEF Typed
  <2> QED
    BY <2>1, <2>2
<1> QED
  BY <1>1, <1>2, <1>4 DEF Typed

LEMMA NextTyped == Typed /\ [Next]_vars => Typed'
<1> SUFFICES ASSUME Typed, [Next]_vars PROVE Typed'
  OBVIOUS
<1>1. CASE UNCHANGED vars
  BY <1>1 DEF vars, Typed
<1>2. CASE Next
  <2>1. PICK d \in Devices : User(d) \/ Timers(d) \/ Runs(d) \/ Loses(d)
    BY <1>2 DEF Next
  <2>2. CASE User(d)
    BY <2>2, RendererTyped DEF User
  <2>3. CASE Timers(d)
    BY <2>3, RendererTyped, NativeTyped DEF Timers
  <2>4. CASE Runs(d)
    BY <2>4, RendererTyped, NativeTyped, SignalSentTyped, OnSignalTyped DEF Runs
  <2>5. CASE Loses(d)
    BY <2>5, NativeTyped DEF Loses
  <2> QED
    BY <2>1, <2>2, <2>3, <2>4, <2>5
<1> QED
  BY <1>1, <1>2

-----------------------------------------------------------------------------
(* A step is one device's: what the others hold stays.                     *)

Alike(e) ==
  /\ call'[e] = call[e] /\ jobs'[e] = jobs[e] /\ pending'[e] = pending[e]
  /\ active'[e] = active[e] /\ events'[e] = events[e]

LEMMA EndsCallAlone ==
  ASSUME Typed, NEW d \in Devices, NEW gone, NEW notify, EndsCall(d, gone, notify), NEW e \in Devices \ {d}
  PROVE  call'[e] = call[e] /\ jobs'[e] = jobs[e]
BY DEF EndsCall, Resets, Gives, Typed

LEMMA OnSignalAlone ==
  ASSUME Typed, NEW d \in Devices, OnSignal(d), NEW e \in Devices \ {d}
  PROVE  Alike(e) /\ down'[e] = down[e]
<1>1. UNCHANGED <<pending, active, events>> /\ down' = [down EXCEPT ![d] = Tail(@)]
  BY DEF OnSignal
<1>2. down'[e] = down[e]
  BY <1>1 DEF Typed
<1> DEFINE Good == call'[e] = call[e] /\ jobs'[e] = jobs[e]
           s == Head(down[d])
<1> HIDE DEF s
<1>3. ASSUME NEW notify, EndsCall(d, {}, notify) PROVE Good
  BY <1>3, EndsCallAlone
<1>4. ASSUME OnInvite(d, s) PROVE Good
  BY <1>4 DEF OnInvite, Accepts, Becomes, Gives, Typed
<1>5. ASSUME OnAccept(d, s) PROVE Good
  BY <1>5 DEF OnAccept, Becomes, Gives, Typed
<1>6. ASSUME Withdrawn(d) PROVE Good
  BY <1>6 DEF Withdrawn, Resets, Typed
<1>7. ASSUME UNCHANGED <<call, jobs>> PROVE Good
  BY <1>7
<1>8. OnInvite(d, s) \/ OnAccept(d, s) \/ Withdrawn(d) \/ UNCHANGED <<call, jobs>>
      \/ \E notify \in BOOLEAN : EndsCall(d, {}, notify)
  BY DEF OnSignal, OnElsewhere, s
<1> QED
  BY <1>1, <1>2, <1>3, <1>4, <1>5, <1>6, <1>7, <1>8 DEF Alike

LEMMA StepAlone ==
  ASSUME Typed, NEW d \in Devices, User(d) \/ Timers(d) \/ Runs(d) \/ Loses(d), NEW e \in Devices \ {d}
  PROVE  Alike(e)
<1>1. ASSUME NEW gone, NEW notify, EndsCall(d, gone, notify)
      PROVE call'[e] = call[e] /\ jobs'[e] = jobs[e]
  BY <1>1, EndsCallAlone
<1>2. CASE AcceptCall(d)
  BY <1>2 DEF AcceptCall, Accepts, Becomes, Gives, Typed, Alike
<1>3. CASE HangUp(d) \/ RingTimeout(d)
  BY <1>1, <1>3 DEF HangUp, RingTimeout, Alike
<1>4. CASE \E i \in Calls : StartCall(d, i)
  BY <1>4 DEF StartCall, Becomes, Gives, Typed, Alike
<1>5. CASE MissedTimeout(d)
  BY <1>5 DEF MissedTimeout, Resets, Typed, Alike
<1>6. CASE PunchSucceeds(d) \/ PunchFails(d) \/ PeerLost(d)
  <2>1. UNCHANGED <<call, jobs, pending>>
    BY <1>6 DEF PunchSucceeds, PunchFails, PeerLost, renderer
  <2>2. active'[e] = active[e] /\ events'[e] = events[e]
    BY <1>6 DEF PunchSucceeds, PunchFails, PeerLost, Happens, Held, Typed
  <2> QED
    BY <2>1, <2>2 DEF Alike
<1>7. CASE OnSignal(d)
  BY <1>7, OnSignalAlone
<1>8. CASE \E v \in events[d] : OnOutcome(d, v)
  <2>1. PICK v \in events[d] : OnOutcome(d, v)
    BY <1>8
  <2>2. events'[e] = events[e] /\ UNCHANGED <<pending, active>>
    BY <2>1 DEF OnOutcome, Typed
  <2>3. call'[e] = call[e] /\ jobs'[e] = jobs[e]
    BY <1>1, <2>1 DEF OnOutcome, Becomes, Typed
  <2> QED
    BY <2>2, <2>3 DEF Alike
<1>9. ASSUME NEW j \in jobs[d], PrepareReturns(d, j) \/ ConnectFails(d, j) \/ SendReturns(d, j)
      PROVE Alike(e)
  <2>1. UNCHANGED <<pending, active, events>>
    BY <1>9 DEF PrepareReturns, ConnectFails, SendReturns, native
  <2>2. \/ \E gone, notify : EndsCall(d, gone, notify)
        \/ call' = call /\ \E gone, new : Gives(d, gone, new)
    <3>1. CASE PrepareReturns(d, j)
      BY <3>1 DEF PrepareReturns
    <3>2. CASE ConnectFails(d, j)
      BY <3>2 DEF ConnectFails
    <3>3. CASE SendReturns(d, j)
      <4>1. j.op = "send" /\ j.at \in {"done", "failed"} /\ j.by \in {"INVITE", "ACCEPT"}
        BY <3>3 DEF SendReturns, Typed, JobSet, Awaited
      <4> QED
        BY <3>3, <4>1 DEF SendReturns
    <3> QED
      BY <1>9, <3>1, <3>2, <3>3
  <2>3. call'[e] = call[e] /\ jobs'[e] = jobs[e]
    BY <1>1, <2>2 DEF Gives, Typed
  <2> QED
    BY <2>1, <2>3 DEF Alike
<1>10. ASSUME NEW j \in jobs[d], \/ PrepareBegins(d, j) \/ PrepareEnds(d, j) \/ Connect(d, j)
                                 \/ CallEnd(d, j) \/ SignalLost(d, j) \/ SignalSent(d, j)
       PROVE Alike(e)
  <2>1. UNCHANGED <<call, events>>
    BY <1>10 DEF PrepareBegins, PrepareEnds, Connect, CallEnd, SignalLost, SignalSent, renderer
  <2>2. jobs'[e] = jobs[e]
    BY <1>10 DEF PrepareBegins, PrepareEnds, Connect, CallEnd, SignalLost, SignalSent, Step, Gives, Typed
  <2>3. pending'[e] = pending[e] /\ active'[e] = active[e]
    BY <1>10 DEF PrepareBegins, PrepareEnds, Connect, CallEnd, SignalLost, SignalSent, Held, native, Typed
  <2> QED
    BY <2>1, <2>2, <2>3 DEF Alike
<1>11. CASE User(d)
  BY <1>2, <1>3, <1>4, <1>11 DEF User
<1>12. CASE Timers(d)
  BY <1>3, <1>5, <1>6, <1>12 DEF Timers
<1>13. CASE Runs(d)
  BY <1>6, <1>7, <1>8, <1>9, <1>10, <1>13 DEF Runs
<1>14. CASE Loses(d)
  BY <1>10, <1>14 DEF Loses
<1> QED
  BY <1>11, <1>12, <1>13, <1>14

-----------------------------------------------------------------------------
(* A quiet step of device d: no call is placed and the server is not asked *)
(* for anything.                                                           *)

Heard(d, i) ==
  /\ down[d] # <<>> /\ down'[d] = Tail(down[d])
  /\ Head(down[d]).kind = "INVITE" /\ Head(down[d]).id = i

Hears(d) ==
  /\ \A e \in Devices \ {d} : down'[e] = down[e]
  /\ down'[d] = down[d] \/ (down[d] # <<>> /\ down'[d] = Tail(down[d]))

QuietCall(d) ==
  \A i \in Calls : call'[d].id = i =>
    /\ call[d].id = i \/ Heard(d, i)
    /\ call'[d].status = "incoming" => call'[d] = call[d] \/ Heard(d, i)
    /\ call'[d].status = "outgoing" => call'[d] = call[d]

QuietJobs(d) ==
  \A j \in jobs'[d] :
    /\ IsToken(j) =>
         /\ \E k \in jobs[d] : IsToken(k) /\ k.id = j.id
         /\ \A k \in jobs'[d] : IsToken(k) /\ k.id = j.id => k = j
    /\ Answering(j) => d # Placer[j.id]
    /\ j.op = "send" /\ j.by \in Ending =>
         \/ j \in jobs[d] /\ call'[d].id # j.id
         \/ /\ j.id \in placed /\ call'[d].id # j.id /\ Invites(d, j.id)' = {}
            /\ d # Placer[j.id] => ~Fresh(j.id)
    /\ j.op = "connect" /\ Placer[j.id] = d => AnsweredBy(j.id, j.dev)

QuietEngine(d) ==
  \A i \in Calls :
    /\ active'[d].id = i /\ Placer[i] = d => AnsweredBy(i, active'[d].with)
    /\ Engaged(d, i)' =>
         \/ Engaged(d, i)
         \/ /\ call'[d].status = "connecting"
            /\ (call[d].status = "incoming" /\ call[d].id = i) \/ Heard(d, i)
         \/ d = Placer[i] /\ \E e \in Devices : AnsweredBy(i, e)

Quiet(d) ==
  /\ UNCHANGED <<reg, placed>>
  /\ Hears(d) /\ \A e \in Devices \ {d} : Alike(e)
  /\ QuietCall(d) /\ QuietJobs(d) /\ QuietEngine(d)

LEMMA TailFact ==
  ASSUME NEW q \in Seq(SignalSet), q # <<>>
  PROVE  /\ Head(q) = q[1] /\ Len(Tail(q)) = Len(q) - 1 /\ Len(q) \in Nat \ {0}
         /\ \A k \in 1..Len(Tail(q)) : Tail(q)[k] = q[k + 1] /\ k + 1 \in 1..Len(q)
OBVIOUS

\* What is on its way after a quiet step was before.
LEMMA QuietWire ==
  ASSUME Registered, NEW d \in Devices, Hears(d), NEW e \in Devices
  PROVE  /\ \A s : OnWire(e, s)' => OnWire(e, s)
         /\ \A i \in Calls : Invites(e, i) = {} => Invites(e, i)' = {}
         /\ \A i \in Calls : \A k \in Invites(e, i)' :
              Invites(e, i)' = {k} /\ e # Placer[i] /\ call[e].id # i /\ (e = d => ~Heard(d, i))
         /\ \A k \in 1..Len(down'[e]) : \E m \in 1..Len(down[e]) : down'[e][k] = down[e][m]
<1>1. CASE down'[e] = down[e]
  <2>1. \A i \in Calls : Invites(e, i)' = Invites(e, i)
    BY <1>1 DEF Invites
  <2>2. e = d => \A i \in Calls : Invites(e, i) # {} => ~Heard(d, i)
    <3>1. down[e] # <<>> => down[e] # Tail(down[e])
      <4>1. down[e] \in Seq(SignalSet)
        BY DEF Registered, Typed
      <4>2. ASSUME down[e] # <<>> PROVE Len(Tail(down[e])) = Len(down[e]) - 1 /\ Len(down[e]) \in Nat
        BY <4>1, <4>2, TailFact
      <4>3. ASSUME down[e] # <<>>, down[e] = Tail(down[e]) PROVE FALSE
        <5>1. Len(down[e]) = Len(down[e]) - 1 /\ Len(down[e]) \in Nat
          BY <4>2, <4>3
        <5> QED
          BY <5>1
      <4> QED
        BY <4>3
    <3> QED
      BY <1>1, <3>1 DEF Heard
  <2> QED
    BY <1>1, <2>1, <2>2 DEF Registered, InvitedOnce, OnWire
<1>2. CASE e = d /\ down[d] # <<>> /\ down'[d] = Tail(down[d])
  <2> DEFINE q == down[d]
  <2>1. q \in Seq(SignalSet)
    BY DEF Registered, Typed
  <2>2. /\ Head(q) = q[1] /\ Len(Tail(q)) = Len(q) - 1 /\ Len(q) \in Nat \ {0}
        /\ \A k \in 1..Len(Tail(q)) : Tail(q)[k] = q[k + 1] /\ k + 1 \in 1..Len(q)
    BY <1>2, <2>1, TailFact
  <2>3. \A i \in Calls : \A k \in Invites(d, i)' : k \in Nat /\ k + 1 \in Invites(d, i) /\ k # 0
    BY <1>2, <2>2 DEF Invites
  <2>4. \A i \in Calls : Invites(d, i)' # {} => ~Heard(d, i)
    <3>1. ASSUME NEW i \in Calls, NEW k \in Invites(d, i)', Heard(d, i) PROVE FALSE
      <4>1. 1 \in Invites(d, i) /\ k + 1 \in Invites(d, i) /\ k + 1 # 1
        BY <2>2, <2>3, <3>1 DEF Heard, Invites
      <4>2. Invites(d, i) = {1}
        BY <4>1 DEF Registered, InvitedOnce
      <4> QED
        BY <4>1, <4>2
    <3> QED
      BY <3>1
  <2>5. ASSUME NEW i \in Calls, NEW k \in Invites(d, i)'
        PROVE  Invites(d, i)' = {k} /\ d # Placer[i] /\ call[d].id # i
    <3>1. Invites(d, i) = {k + 1} /\ d # Placer[i] /\ call[d].id # i
      BY <2>3, <2>5 DEF Registered, InvitedOnce
    <3>2. \A m \in Invites(d, i)' : m = k
      <4>1. ASSUME NEW m \in Invites(d, i)' PROVE m = k
        <5>1. m \in Nat /\ k \in Nat /\ m + 1 \in {k + 1}
          BY <2>3, <2>5, <3>1, <4>1
        <5> QED
          BY <5>1
      <4> QED
        BY <4>1
    <3> QED
      BY <2>5, <3>1, <3>2
  <2>6. \A k \in 1..Len(down'[d]) : \E m \in 1..Len(down[d]) : down'[d][k] = down[d][m]
    BY <1>2, <2>2
  <2>7. \A i \in Calls : Invites(d, i) = {} => Invites(d, i)' = {}
    BY <2>3
  <2>8. \A s : OnWire(d, s)' => OnWire(d, s)
    BY <2>6 DEF OnWire
  <2> QED
    BY <1>2, <2>4, <2>5, <2>6, <2>7, <2>8
<1> QED
  BY <1>1, <1>2 DEF Hears

LEMMA QuietFresh ==
  ASSUME Registered, NEW d \in Devices, Quiet(d), NEW i \in Calls, Fresh(i)'
  PROVE  Fresh(i)
<1>1. CASE i \notin placed'
  BY <1>1 DEF Quiet, Fresh
<1>2. CASE \E j \in jobs'[Placer[i]] : IsToken(j) /\ j.id = i
  <2>1. PICK j \in jobs'[Placer[i]] : IsToken(j) /\ j.id = i
    BY <1>2
  <2>2. CASE Placer[i] = d
    <3>1. \E k \in jobs[d] : IsToken(k) /\ k.id = j.id
      BY <2>1, <2>2 DEF Quiet, QuietJobs
    <3> QED
      BY <2>1, <2>2, <3>1 DEF Fresh
  <2>3. CASE Placer[i] # d
    <3>1. jobs'[Placer[i]] = jobs[Placer[i]]
      BY <2>3, Constants DEF Quiet, Alike
    <3> QED
      BY <2>1, <3>1 DEF Fresh
  <2> QED
    BY <2>2, <2>3
<1> QED
  BY <1>1, <1>2 DEF Fresh

LEMMA QuietAnswers ==
  ASSUME Registered, NEW d \in Devices, Quiet(d), NEW i \in Calls, NEW e, AnsweredBy(i, e)'
  PROVE  AnsweredBy(i, e)
<1> DEFINE p == Placer[i]
<1>0. p \in Devices
  BY Constants
<1>1. CASE OnWire(p, Signal("ACCEPT", i, e))'
  <2>1. OnWire(p, Signal("ACCEPT", i, e))
    BY <1>0, <1>1, QuietWire DEF Quiet
  <2> QED
    BY <2>1 DEF AnsweredBy
<1>2. CASE p = d /\ \E j \in jobs'[d] : j.op = "connect" /\ j.id = i /\ j.dev = e
  BY <1>2 DEF Quiet, QuietJobs
<1>3. CASE p = d /\ active'[d].id = i /\ active'[d].with = e
  BY <1>3 DEF Quiet, QuietEngine
<1>4. CASE p # d
  <2>1. jobs'[p] = jobs[p] /\ active'[p] = active[p]
    BY <1>0, <1>4 DEF Quiet, Alike
  <2> QED
    BY <1>1, <2>1 DEF AnsweredBy
<1> QED
  BY <1>1, <1>2, <1>3, <1>4 DEF AnsweredBy

\* A call is entered on the INVITE heard, by a device it does not come from.
LEMMA HeardFact ==
  ASSUME Registered, NEW d \in Devices, NEW i \in Calls, Heard(d, i)
  PROVE  d # Placer[i] /\ call[d].id # i /\ ~Fresh(i) /\ Invites(d, i) # {}
<1>1. down[d] \in Seq(SignalSet) /\ down[d] # <<>>
  BY DEF Registered, Typed, Heard
<1>2. Head(down[d]) = down[d][1] /\ 1 \in 1..Len(down[d])
  BY <1>1, TailFact
<1>3. 1 \in Invites(d, i) /\ down[d][1].id = i
  BY <1>2 DEF Heard, Invites
<1>4. ~Fresh(i)
  BY <1>2, <1>3 DEF Registered, FreshIsUntouched
<1> QED
  BY <1>3, <1>4 DEF Registered, InvitedOnce

LEMMA QuietKeeps ==
  ASSUME Registered, Typed', NEW d \in Devices, Quiet(d)
  PROVE  Registered'
<1>0. \A i \in Calls : Fresh(i)' => Fresh(i)
  BY QuietFresh
<1>1. Tokens'
  <2>1. ASSUME NEW e \in Devices, NEW j \in jobs'[e], IsToken(j)
        PROVE  /\ Placer[j.id] = e /\ j.id \in placed'
               /\ \A k \in jobs'[e] : IsToken(k) /\ k.id = j.id => k = j
    <3>1. CASE e = d
      <4>1. PICK k \in jobs[d] : IsToken(k) /\ k.id = j.id
        BY <2>1, <3>1 DEF Quiet, QuietJobs
      <4>2. Placer[k.id] = d /\ k.id \in placed
        BY <4>1 DEF Registered, Tokens
      <4> QED
        BY <2>1, <3>1, <4>1, <4>2 DEF Quiet, QuietJobs
    <3>2. CASE e # d
      <4>1. jobs'[e] = jobs[e] /\ placed' = placed
        BY <3>2 DEF Quiet, Alike
      <4> QED
        BY <2>1, <4>1 DEF Registered, Tokens
    <3> QED
      BY <3>1, <3>2
  <2> QED
    BY <2>1 DEF Tokens
<1>2. FreshIsUntouched'
  <2>1. ASSUME NEW i \in Calls, Fresh(i)'
        PROVE  /\ reg'[i] = [ringing |-> {}, callee |-> None, up |-> FALSE]
               /\ \A e \in Devices : \A k \in 1..Len(down'[e]) : down'[e][k].id # i
    <3>1. /\ reg[i] = [ringing |-> {}, callee |-> None, up |-> FALSE]
          /\ \A e \in Devices : \A k \in 1..Len(down[e]) : down[e][k].id # i
      BY <1>0, <2>1 DEF Registered, FreshIsUntouched
    <3>2. \A e \in Devices : \A k \in 1..Len(down'[e]) :
            \E m \in 1..Len(down[e]) : down'[e][k] = down[e][m]
      BY QuietWire DEF Quiet
    <3>3. ASSUME NEW e \in Devices, NEW k \in 1..Len(down'[e])
          PROVE  down'[e][k].id # i
      <4>1. PICK m \in 1..Len(down[e]) : down'[e][k] = down[e][m]
        BY <3>2
      <4>2. down[e][m].id # i
        BY <3>1
      <4> QED
        BY <4>1, <4>2
    <3>4. reg'[i] = reg[i]
      BY DEF Quiet
    <3> QED
      BY <3>1, <3>3, <3>4
  <2> QED
    BY <2>1 DEF FreshIsUntouched
<1>3. Sides'
  <2>1. ASSUME NEW e \in Devices, NEW i \in Calls, call'[e].id = i
        PROVE  /\ i \in placed' /\ (e # Placer[i] => ~Fresh(i)')
               /\ call'[e].status = "incoming" => e # Placer[i]
               /\ call'[e].status = "outgoing" => e = Placer[i]
    <3>1. CASE call'[e] = call[e]
      BY <1>0, <2>1, <3>1 DEF Registered, Sides, Quiet
    <3>2. CASE e = d /\ Heard(d, i)
      <4>1. d # Placer[i] /\ call[d].id # i /\ ~Fresh(i)
        BY <3>2, HeardFact
      <4>2. i \in placed /\ call'[d] # call[d]
        BY <2>1, <3>2, <4>1 DEF Fresh
      <4>3. call'[d].status # "outgoing"
        BY <2>1, <3>2, <4>2 DEF Quiet, QuietCall
      <4> QED
        BY <1>0, <3>2, <4>1, <4>2, <4>3 DEF Quiet
    <3>3. CASE e = d /\ call[d].id = i /\ call'[d] # call[d] /\ ~Heard(d, i)
      <4>1. call'[d].status # "incoming" /\ call'[d].status # "outgoing"
        BY <2>1, <3>3 DEF Quiet, QuietCall
      <4> QED
        BY <1>0, <3>3, <4>1 DEF Registered, Sides, Quiet
    <3> QED
      BY <2>1, <3>1, <3>2, <3>3 DEF Quiet, QuietCall, Alike
  <2>2. ASSUME NEW e \in Devices, NEW j \in jobs'[e],
               Answering(j)
        PROVE  e # Placer[j.id]
    <3>1. CASE e = d
      BY <2>2, <3>1 DEF Quiet, QuietJobs
    <3>2. CASE e # d
      <4>1. jobs'[e] = jobs[e]
        BY <3>2 DEF Quiet, Alike
      <4> QED
        BY <2>2, <4>1 DEF Registered, Sides
    <3> QED
      BY <3>1, <3>2
  <2> QED
    BY <2>1, <2>2 DEF Sides
<1>4. InvitedOnce'
  <2>1. ASSUME NEW e \in Devices, NEW i \in Calls, NEW k \in Invites(e, i)'
        PROVE  e # Placer[i] /\ call'[e].id # i /\ Invites(e, i)' = {k}
    <3>1. Invites(e, i)' = {k} /\ e # Placer[i] /\ call[e].id # i /\ (e = d => ~Heard(d, i))
      BY <2>1, QuietWire DEF Quiet
    <3>2. call'[e].id # i
      BY <3>1 DEF Quiet, QuietCall, Alike
    <3> QED
      BY <3>1, <3>2
  <2> QED
    BY <2>1 DEF InvitedOnce
<1>5. EndsAreFinal'
  <2>1. ASSUME NEW e \in Devices, NEW j \in jobs'[e], j.op = "send", j.by \in Ending
        PROVE  /\ j.id \in placed' /\ call'[e].id # j.id /\ Invites(e, j.id)' = {}
               /\ e # Placer[j.id] => ~Fresh(j.id)'
    <3>0. j.id \in Calls /\ placed' = placed
      BY <2>1 DEF Typed, JobSet, Quiet
    <3>1. /\ j.id \in placed /\ call'[e].id # j.id
          /\ Invites(e, j.id) = {} \/ Invites(e, j.id)' = {}
          /\ e # Placer[j.id] => ~Fresh(j.id)
      <4>1. CASE e = d
        BY <2>1, <4>1 DEF Quiet, QuietJobs, Registered, EndsAreFinal
      <4>2. CASE e # d
        <5>1. jobs'[e] = jobs[e] /\ call'[e] = call[e]
          BY <4>2 DEF Quiet, Alike
        <5> QED
          BY <2>1, <5>1 DEF Registered, EndsAreFinal
      <4> QED
        BY <4>1, <4>2
    <3>2. Invites(e, j.id)' = {}
      BY <3>0, <3>1, QuietWire DEF Quiet
    <3> QED
      BY <1>0, <3>0, <3>1, <3>2
  <2> QED
    BY <2>1 DEF EndsAreFinal
<1>6. AnsweredOnce'
  BY DEF Registered, AnsweredOnce, Quiet
<1>7. Answers'
  <2>1. ASSUME NEW i \in Calls, NEW e \in Devices, AnsweredBy(i, e)'
        PROVE  /\ ~Fresh(i)'
               /\ reg'[i].up => reg'[i].callee = e
               /\ ~reg'[i].up => call'[Placer[i]].id # i \/ (call'[e].id # i /\ Invites(e, i)' = {})
    <3>1. AnsweredBy(i, e) /\ reg' = reg
      BY <2>1, QuietAnswers DEF Quiet
    <3>2. /\ ~Fresh(i) /\ (reg[i].up => reg[i].callee = e)
          /\ ~reg[i].up => call[Placer[i]].id # i \/ (call[e].id # i /\ Invites(e, i) = {})
      BY <3>1 DEF Registered, Answers
    <3>3. call[Placer[i]].id # i => call'[Placer[i]].id # i
      <4>1. ~Heard(Placer[i], i)
        BY HeardFact, Constants
      <4> QED
        BY <4>1, Constants DEF Quiet, QuietCall, Alike
    <3>4. call[e].id # i /\ Invites(e, i) = {} => call'[e].id # i /\ Invites(e, i)' = {}
      <4>1. Invites(e, i) = {} => ~Heard(e, i) /\ Invites(e, i)' = {}
        BY HeardFact, QuietWire DEF Quiet
      <4> QED
        BY <4>1 DEF Quiet, QuietCall, Alike
    <3> QED
      BY <1>0, <3>1, <3>2, <3>3, <3>4
  <2> QED
    BY <2>1 DEF Answers
<1>8. EngagedOnce'
  <2>1. ASSUME NEW e \in Devices, NEW i \in Calls, Engaged(e, i)'
        PROVE  ~Fresh(i)' /\ Invites(e, i)' = {} /\ ~(call'[e].status = "incoming" /\ call'[e].id = i)
    <3>1. CASE Engaged(e, i)
      <4>1. ~Fresh(i) /\ Invites(e, i) = {} /\ ~(call[e].status = "incoming" /\ call[e].id = i)
        BY <3>1 DEF Registered, EngagedOnce
      <4>2. ~Heard(e, i) /\ Invites(e, i)' = {}
        BY <4>1, HeardFact, QuietWire DEF Quiet
      <4>3. ~(call'[e].status = "incoming" /\ call'[e].id = i)
        BY <4>1, <4>2 DEF Quiet, QuietCall, Alike
      <4> QED
        BY <1>0, <4>1, <4>2, <4>3
    <3>2. CASE e = d /\ call'[d].status = "connecting" /\ call[d].id = i /\ call[d].status = "incoming"
      <4>1. ~Fresh(i)
        BY <3>2 DEF Registered, Sides
      <4>2. Invites(d, i) = {}
        BY <3>2 DEF Registered, InvitedOnce
      <4> QED
        BY <1>0, <3>2, <4>1, <4>2, QuietWire DEF Quiet
    <3>3. CASE e = d /\ call'[d].status = "connecting" /\ Heard(d, i)
      <4>1. ~Fresh(i)
        BY <3>3, HeardFact
      <4>2. Invites(d, i)' = {}
        BY <3>3, QuietWire DEF Quiet
      <4> QED
        BY <1>0, <3>3, <4>1, <4>2
    <3>4. CASE e = d /\ d = Placer[i] /\ \E f \in Devices : AnsweredBy(i, f)
      <4>1. ~Fresh(i)
        BY <3>4 DEF Registered, Answers
      <4>2. Invites(d, i)' = {}
        BY <3>4, QuietWire DEF Quiet
      <4>3. ~(call'[d].status = "incoming" /\ call'[d].id = i)
        BY <1>3, <3>4 DEF Sides
      <4> QED
        BY <1>0, <3>4, <4>1, <4>2, <4>3
    <3>5. CASE e # d
      <4>1. Engaged(e, i)
        <5>1. jobs'[e] = jobs[e] /\ active'[e] = active[e] /\ events'[e] = events[e]
          BY <3>5 DEF Quiet, Alike
        <5> QED
          BY <2>1, <5>1 DEF Engaged
      <4> QED
        BY <3>1, <4>1
    <3> QED
      BY <2>1, <3>1, <3>2, <3>3, <3>4, <3>5 DEF Quiet, QuietEngine
  <2> QED
    BY <2>1 DEF EngagedOnce
<1> QED
  BY <1>1, <1>2, <1>3, <1>4, <1>5, <1>6, <1>7, <1>8 DEF Registered

-----------------------------------------------------------------------------
(* The quiet steps.                                                        *)

LEMMA KeptEnding ==
  ASSUME Registered, NEW d \in Devices, QuietCall(d), NEW j \in jobs[d], j.op = "send", j.by \in Ending
  PROVE  call'[d].id # j.id
<1>1. j.id \in Calls
  BY DEF Registered, Typed, JobSet
<1>2. call[d].id # j.id /\ Invites(d, j.id) = {}
  BY DEF Registered, EndsAreFinal
<1>3. ~Heard(d, j.id)
  BY <1>1, <1>2, HeardFact
<1> QED
  BY <1>1, <1>2, <1>3 DEF QuietCall

\* Commands that are no token are given, and some are done with.
LEMMA GivenQuietly ==
  ASSUME Registered, NEW d \in Devices, QuietCall(d), NEW new, jobs'[d] \subseteq jobs[d] \cup new,
         \A j \in new :
           /\ ~IsToken(j) /\ (Answering(j) => d # Placer[j.id])
           /\ j.op = "send" /\ j.by \in Ending =>
                /\ j.id \in placed /\ call'[d].id # j.id /\ Invites(d, j.id)' = {}
                /\ d # Placer[j.id] => ~Fresh(j.id)
           /\ j.op = "connect" /\ Placer[j.id] = d => AnsweredBy(j.id, j.dev)
  PROVE  QuietJobs(d)
<1>1. ASSUME NEW j \in jobs'[d], IsToken(j)
      PROVE  /\ \E k \in jobs[d] : IsToken(k) /\ k.id = j.id
             /\ \A k \in jobs'[d] : IsToken(k) /\ k.id = j.id => k = j
  <2>1. \A k \in jobs'[d] : IsToken(k) => k \in jobs[d]
    OBVIOUS
  <2> QED
    BY <1>1, <2>1 DEF Registered, Tokens
<1>2. ASSUME NEW j \in jobs[d]
      PROVE  /\ Answering(j) => d # Placer[j.id]
             /\ j.op = "send" /\ j.by \in Ending => call'[d].id # j.id
             /\ j.op = "connect" /\ Placer[j.id] = d => AnsweredBy(j.id, j.dev)
  BY <1>2, KeptEnding DEF Registered, Sides, AnsweredBy
<1> QED
  BY <1>1, <1>2 DEF QuietJobs

\* A command is taken further, or another takes its place.
LEMMA MovedQuietly ==
  ASSUME Registered, NEW d \in Devices, QuietCall(d), NEW j \in jobs[d], NEW n,
         jobs'[d] = (jobs[d] \ {j}) \cup {n}, n.id = j.id,
         IsToken(n) => IsToken(j),
         Answering(n) => d # Placer[n.id],
         n.op = "send" => n.by \notin Ending,
         n.op = "connect" /\ Placer[n.id] = d => AnsweredBy(n.id, n.dev)
  PROVE  QuietJobs(d)
<1>1. ASSUME NEW k \in jobs'[d], IsToken(k)
      PROVE  /\ \E m \in jobs[d] : IsToken(m) /\ m.id = k.id
             /\ \A m \in jobs'[d] : IsToken(m) /\ m.id = k.id => m = k
  <2>1. \A x \in jobs[d], y \in jobs[d] : IsToken(x) /\ IsToken(y) /\ x.id = y.id => x = y
    BY DEF Registered, Tokens
  <2> QED
    BY <1>1, <2>1
<1>2. ASSUME NEW k \in jobs[d]
      PROVE  /\ Answering(k) => d # Placer[k.id]
             /\ k.op = "send" /\ k.by \in Ending => call'[d].id # k.id
             /\ k.op = "connect" /\ Placer[k.id] = d => AnsweredBy(k.id, k.dev)
  BY <1>2, KeptEnding DEF Registered, Sides, AnsweredBy
<1> QED
  BY <1>1, <1>2 DEF QuietJobs

\* The engine stays, and nothing more is engaged than was.
LEMMA EngineQuietly ==
  ASSUME NEW d \in Devices, active'[d] = active[d], events'[d] \subseteq events[d],
         \A j \in jobs'[d] : Answering(j) \/ j.op = "connect" =>
            \/ Engaged(d, j.id)
            \/ /\ call'[d].status = "connecting"
               /\ (call[d].status = "incoming" /\ call[d].id = j.id) \/ Heard(d, j.id)
            \/ d = Placer[j.id] /\ \E e \in Devices : AnsweredBy(j.id, e)
  PROVE  QuietEngine(d)
<1>1. ASSUME NEW i \in Calls, Engaged(d, i)'
      PROVE  \/ Engaged(d, i)
             \/ /\ call'[d].status = "connecting"
                /\ (call[d].status = "incoming" /\ call[d].id = i) \/ Heard(d, i)
             \/ d = Placer[i] /\ \E e \in Devices : AnsweredBy(i, e)
  <2>1. CASE active[d].id = i \/ \E v \in events[d] : v.id = i
    BY <2>1 DEF Engaged
  <2>2. CASE \E j \in jobs'[d] : j.id = i /\ (Answering(j) \/ j.op = "connect")
    BY <2>2
  <2> QED
    BY <1>1, <2>1, <2>2 DEF Engaged
<1>2. \A i \in Calls : active'[d].id = i /\ Placer[i] = d => AnsweredBy(i, active'[d].with)
  BY DEF AnsweredBy
<1> QED
  BY <1>1, <1>2 DEF QuietEngine

LEMMA EndsCallQuietly ==
  ASSUME Registered, NEW d \in Devices, Hears(d), NEW gone, NEW notify, EndsCall(d, gone, notify)
  PROVE  /\ QuietCall(d) /\ QuietJobs(d)
         /\ \A j \in jobs'[d] : Answering(j) \/ j.op = "connect" => j \in jobs[d]
<1>1. CASE call[d].status = "idle"
  <2>1. call' = call /\ jobs'[d] = jobs[d] \ gone
    BY <1>1 DEF EndsCall, Gives, Registered, Typed
  <2>2. QuietCall(d)
    BY <2>1 DEF QuietCall
  <2> DEFINE no == {}
  <2>3. jobs'[d] \subseteq jobs[d] \cup no
    BY <2>1
  <2>4. \A j \in no : FALSE
    OBVIOUS
  <2> HIDE DEF no
  <2>5. QuietJobs(d)
    BY <2>2, <2>3, <2>4, GivenQuietly
  <2> QED
    BY <2>1, <2>2, <2>5
<1>2. CASE call[d].status # "idle"
  <2>0. PICK i \in Calls : i = call[d].id
    BY <1>2, CallType DEF Registered, Calling
  <2> DEFINE s == Sends(EndKind(call[d].status), i)
             new == {EndJob(i, "ended"), s}
  <2>1. EndKind(call[d].status) \in {"CANCEL", "REJECT", "HANGUP"}
    BY <1>2, CallType, EndKinds DEF Registered, Calling
  <2>2. call'[d] = Idle
    BY <1>2 DEF EndsCall, Resets, Registered, Typed
  <2>3. jobs'[d] \subseteq jobs[d] \cup new
    BY <1>2, <2>0 DEF EndsCall, Gives, Registered, Typed
  <2>4. QuietCall(d)
    BY <2>2, Constants DEF QuietCall, Idle
  <2>5. /\ i \in placed /\ call'[d].id # i /\ Invites(d, i)' = {}
        /\ d # Placer[i] => ~Fresh(i)
    <3>1. Invites(d, i) = {}
      BY <2>0 DEF Registered, InvitedOnce
    <3>2. i \in placed /\ (d # Placer[i] => ~Fresh(i))
      BY <2>0 DEF Registered, Sides
    <3>3. Invites(d, i)' = {}
      BY <3>1, QuietWire
    <3>4. call'[d].id # i
      BY <2>2, Constants DEF Idle
    <3> QED
      BY <3>2, <3>3, <3>4
  <2>6. s.op = "send" /\ s.id = i /\ s.by \in {"CANCEL", "REJECT", "HANGUP"}
    BY <2>1 DEF Sends, Job
  <2>7. EndJob(i, "ended").op = "end"
    BY DEF EndJob, Job
  <2> HIDE DEF s
  <2>8. \A j \in new : ~IsToken(j) /\ ~Answering(j) /\ j.op # "connect" /\ (j.op = "send" => j.id = i)
    BY <2>6, <2>7 DEF IsToken, Answering
  <2> HIDE DEF new
  <2>10. ASSUME NEW j \in new
         PROVE  /\ ~IsToken(j) /\ (Answering(j) => d # Placer[j.id])
                /\ j.op = "send" /\ j.by \in Ending =>
                     /\ j.id \in placed /\ call'[d].id # j.id /\ Invites(d, j.id)' = {}
                     /\ d # Placer[j.id] => ~Fresh(j.id)
                /\ j.op = "connect" /\ Placer[j.id] = d => AnsweredBy(j.id, j.dev)
    <3>1. CASE j.op = "send"
      <4>1. j.id = i
        BY <2>8, <2>10, <3>1
      <4> QED
        BY <2>5, <2>8, <2>10, <4>1
    <3> QED
      BY <2>8, <2>10, <3>1
  <2>9. QuietJobs(d)
    BY <2>3, <2>4, <2>10, GivenQuietly
  <2> QED
    BY <2>3, <2>4, <2>8, <2>9
<1> QED
  BY <1>1, <1>2

LEMMA EndsCallIsQuiet ==
  ASSUME Registered, NEW d \in Devices, Hears(d), NEW gone, NEW notify, EndsCall(d, gone, notify),
         active'[d] = active[d], events'[d] \subseteq events[d]
  PROVE  QuietCall(d) /\ QuietJobs(d) /\ QuietEngine(d)
<1>1. /\ QuietCall(d) /\ QuietJobs(d)
      /\ \A j \in jobs'[d] : Answering(j) \/ j.op = "connect" => j \in jobs[d]
  BY EndsCallQuietly
<1>2. \A j \in jobs[d] : Answering(j) \/ j.op = "connect" => Engaged(d, j.id)
  BY DEF Engaged
<1>3. QuietEngine(d)
  BY <1>1, <1>2, EngineQuietly
<1> QED
  BY <1>1, <1>3

\* The call and the commands stay.
LEMMA NothingIsQuiet ==
  ASSUME Registered, NEW d \in Devices, Hears(d), jobs'[d] = jobs[d],
         active'[d] = active[d], events'[d] \subseteq events[d], QuietCall(d)
  PROVE  QuietJobs(d) /\ QuietEngine(d)
<1>1. QuietJobs(d)
  <2> DEFINE no == {}
  <2>1. jobs'[d] \subseteq jobs[d] \cup no /\ \A j \in no : FALSE
    OBVIOUS
  <2> HIDE DEF no
  <2> QED
    BY <2>1, GivenQuietly
<1>2. \A j \in jobs[d] : Answering(j) \/ j.op = "connect" => Engaged(d, j.id)
  BY DEF Engaged
<1>3. QuietEngine(d)
  BY <1>2, EngineQuietly
<1> QED
  BY <1>1, <1>3

LEMMA OnInviteQuiet ==
  ASSUME Registered, NEW d \in Devices, Hears(d), UNCHANGED <<active, events>>, NEW s \in SignalSet,
         s = Head(down[d]), s.kind = "INVITE", down[d] # <<>>, down'[d] = Tail(down[d]), OnInvite(d, s)
  PROVE  QuietCall(d) /\ QuietJobs(d) /\ QuietEngine(d)
<1>0. PICK i \in Calls : i = s.id
  BY DEF SignalSet
<1>1. Heard(d, i) /\ d # Placer[i] /\ call[d].id # i /\ ~Fresh(i) /\ i \in placed
  <2>1. Heard(d, i)
    BY <1>0 DEF Heard
  <2> QED
    BY <2>1, HeardFact DEF Fresh
<1>2. Invites(d, i)' = {}
  BY <1>1, QuietWire
<1>3. \A j \in jobs[d] : Answering(j) \/ j.op = "connect" => Engaged(d, j.id)
  BY DEF Engaged
<1>4. CASE call[d].status = "outgoing" /\ Owner[d] < Owner[s.dev]
  <2>1. call' = call /\ jobs' = jobs
    BY <1>4 DEF OnInvite
  <2>2. QuietCall(d)
    BY <2>1 DEF QuietCall
  <2> QED
    BY <2>1, <2>2, NothingIsQuiet
<1>5. CASE call[d].status = "outgoing" /\ ~(Owner[d] < Owner[s.dev])
  <2>0. PICK c \in Calls : c = call[d].id
    BY <1>5, CallType DEF Registered, Calling
  <2> DEFINE p == Job("prepare", i, "accept", None)
             x == Sends("CANCEL", c)
             z == EndJob(c, "glare")
             new == {p, x, z}
  <2>1. /\ call'[d] = [status |-> "connecting", id |-> i, caller |-> FALSE]
        /\ jobs'[d] = jobs[d] \cup new
    <3>1. Accepts(d, i, {x, z})
      BY <1>0, <1>5, <2>0 DEF OnInvite
    <3>2. call'[d] = [status |-> "connecting", id |-> i, caller |-> FALSE]
      BY <3>1 DEF Accepts, Becomes, Registered, Typed
    <3>3. jobs' = [jobs EXCEPT ![d] = (@ \ {}) \cup ({p} \cup {x, z})]
      BY <3>1 DEF Accepts, Gives
    <3>4. jobs'[d] = (jobs[d] \ {}) \cup ({p} \cup {x, z})
      BY <3>3 DEF Registered, Typed
    <3> QED
      BY <3>2, <3>4
  <2>2. QuietCall(d)
    BY <1>1, <2>1 DEF QuietCall
  <2>3. c \in placed /\ (d # Placer[c] => ~Fresh(c)) /\ Invites(d, c) = {}
    <3>1. c \in placed /\ (d # Placer[c] => ~Fresh(c))
      BY <2>0 DEF Registered, Sides
    <3>2. Invites(d, c) = {}
      BY <2>0 DEF Registered, InvitedOnce
    <3> QED
      BY <3>1, <3>2
  <2>4. Invites(d, c)' = {} /\ call'[d].id # c
    BY <1>1, <2>0, <2>1, <2>3, QuietWire
  <2>5. /\ p.op = "prepare" /\ p.by = "accept" /\ p.id = i
        /\ x.op = "send" /\ x.by = "CANCEL" /\ x.id = c /\ z.op = "end"
    BY DEF Job, Sends, EndJob
  <2> HIDE DEF p, x, z
  <2>6. QuietJobs(d)
    <3>1. ASSUME NEW j \in new
          PROVE  /\ ~IsToken(j) /\ (Answering(j) => d # Placer[j.id])
                 /\ j.op = "send" /\ j.by \in Ending =>
                      /\ j.id \in placed /\ call'[d].id # j.id /\ Invites(d, j.id)' = {}
                      /\ d # Placer[j.id] => ~Fresh(j.id)
                 /\ j.op = "connect" /\ Placer[j.id] = d => AnsweredBy(j.id, j.dev)
      <4>1. CASE j = p
        BY <1>1, <2>5, <4>1 DEF IsToken, Answering
      <4>2. CASE j = x
        <5>1. j.id = c /\ j.op = "send" /\ j.by = "CANCEL"
          BY <2>5, <4>2
        <5> QED
          BY <2>3, <2>4, <5>1 DEF IsToken, Answering
      <4>3. CASE j = z
        BY <2>5, <4>3 DEF IsToken, Answering
      <4> QED
        BY <3>1, <4>1, <4>2, <4>3
    <3>2. jobs'[d] \subseteq jobs[d] \cup new
      BY <2>1
    <3> HIDE DEF new
    <3> QED
      BY <2>2, <3>1, <3>2, GivenQuietly
  <2>7. ASSUME NEW j \in jobs'[d], Answering(j) \/ j.op = "connect"
        PROVE  \/ Engaged(d, j.id)
               \/ /\ call'[d].status = "connecting"
                  /\ (call[d].status = "incoming" /\ call[d].id = j.id) \/ Heard(d, j.id)
               \/ d = Placer[j.id] /\ \E e \in Devices : AnsweredBy(j.id, e)
    <3>1. CASE j \in jobs[d]
      BY <1>3, <2>7, <3>1
    <3>2. CASE j = p
      BY <1>1, <2>1, <2>5, <3>2
    <3>3. CASE j = x \/ j = z
      BY <2>5, <2>7, <3>3 DEF Answering
    <3> QED
      BY <2>1, <2>7, <3>1, <3>2, <3>3
  <2> QED
    BY <2>2, <2>6, <2>7, EngineQuietly
<1>6. CASE call[d].status = "idle"
  <2>1. call'[d] = [status |-> "incoming", id |-> i, caller |-> FALSE] /\ jobs' = jobs
    BY <1>0, <1>6 DEF OnInvite, Becomes, Registered, Typed
  <2>2. QuietCall(d)
    BY <1>1, <2>1 DEF QuietCall
  <2> QED
    BY <2>1, <2>2, NothingIsQuiet
<1>7. CASE call[d].status \notin {"outgoing", "idle"}
  <2> DEFINE x == Sends("BUSY", i)
             new == {x}
  <2>1. call' = call /\ jobs'[d] \subseteq jobs[d] \cup new
    <3>1. call' = call /\ Gives(d, {}, {Sends("BUSY", s.id)})
      BY <1>7 DEF OnInvite
    <3>2. jobs' = [jobs EXCEPT ![d] = (@ \ {}) \cup new]
      BY <1>0, <3>1 DEF Gives
    <3>3. jobs'[d] = (jobs[d] \ {}) \cup new
      BY <3>2 DEF Registered, Typed
    <3> QED
      BY <3>1, <3>3
  <2>2. QuietCall(d)
    BY <2>1 DEF QuietCall
  <2>3. x.op = "send" /\ x.by = "BUSY" /\ x.id = i
    BY DEF Sends, Job
  <2> HIDE DEF x
  <2>4. ASSUME NEW j \in new
        PROVE  /\ ~IsToken(j) /\ ~Answering(j) /\ j.op # "connect"
               /\ j.op = "send" /\ j.by \in Ending =>
                    /\ j.id \in placed /\ call'[d].id # j.id /\ Invites(d, j.id)' = {}
                    /\ d # Placer[j.id] => ~Fresh(j.id)
    <3>1. j.id = i /\ j.op = "send" /\ j.by = "BUSY"
      BY <2>3
    <3> QED
      BY <1>1, <1>2, <2>1, <3>1 DEF IsToken, Answering
  <2> HIDE DEF new
  <2>5. QuietJobs(d)
    BY <2>1, <2>2, <2>4, GivenQuietly
  <2>6. \A j \in jobs'[d] : Answering(j) \/ j.op = "connect" => Engaged(d, j.id)
    BY <1>3, <2>1, <2>4
  <2>7. QuietEngine(d)
    BY <2>6, EngineQuietly
  <2> QED
    BY <2>2, <2>5, <2>7
<1> QED
  BY <1>4, <1>5, <1>6, <1>7

LEMMA OnSignalQuiet ==
  ASSUME Registered, NEW d \in Devices, OnSignal(d)
  PROVE  Quiet(d)
<1> DEFINE s == Head(down[d])
<1>1. /\ down[d] # <<>> /\ UNCHANGED <<placed, reg, active, events>>
      /\ down' = [down EXCEPT ![d] = Tail(@)]
  BY DEF OnSignal
<1>2. Hears(d) /\ down'[d] = Tail(down[d])
  BY <1>1 DEF Hears, Registered, Typed
<1>3. \A e \in Devices \ {d} : Alike(e)
  BY OnSignalAlone DEF Registered
<1>4. s \in SignalSet /\ s = down[d][1] /\ 1 \in 1..Len(down[d])
  <2>1. down[d] \in Seq(SignalSet)
    BY DEF Registered, Typed
  <2> QED
    BY <1>1, <2>1, TailFact
<1> HIDE DEF s
<1> DEFINE Good == QuietCall(d) /\ QuietJobs(d) /\ QuietEngine(d)
<1>5. ASSUME UNCHANGED <<call, jobs>> PROVE Good
  <2>1. QuietCall(d)
    BY <1>5 DEF QuietCall
  <2> QED
    BY <1>1, <1>2, <1>5, <2>1, NothingIsQuiet
<1>6. ASSUME s.kind = "INVITE", OnInvite(d, s) PROVE Good
  <2>1. PICK t \in SignalSet : t = s
    BY <1>4
  <2>2. t = Head(down[d]) /\ t.kind = "INVITE"
    BY <1>6, <2>1 DEF s
  <2>3. OnInvite(d, t)
    BY <1>6, <2>1 DEF OnInvite, Accepts, Becomes, Gives, Arms
  <2> QED
    BY <1>1, <1>2, <2>2, <2>3, OnInviteQuiet
<1>7. ASSUME s.kind = "ACCEPT", call[d].id = s.id, OnAccept(d, s) PROVE Good
  <2>1. CASE call[d].status = "outgoing"
    <3>0. PICK i \in Calls : i = s.id
      BY <1>4 DEF SignalSet
    <3> DEFINE n == Job("connect", i, "accepted", s.dev)
               new == {n}
    <3>1. call'[d] = [status |-> "connecting", id |-> i, caller |-> TRUE] /\ jobs'[d] \subseteq jobs[d] \cup new
      BY <1>7, <2>1, <3>0 DEF OnAccept, Becomes, Gives, Registered, Typed
    <3>2. QuietCall(d)
      BY <1>7, <3>0, <3>1 DEF QuietCall
    <3>3. d = Placer[i] /\ AnsweredBy(i, s.dev) /\ s.dev \in Devices
      <4>1. d = Placer[i]
        BY <1>7, <2>1, <3>0 DEF Registered, Sides
      <4>2. s = Signal("ACCEPT", i, s.dev) /\ s.dev \in Devices
        BY <1>4, <1>7, <3>0 DEF SignalSet, Signal
      <4>3. OnWire(d, s)
        BY <1>4 DEF OnWire
      <4> QED
        BY <4>1, <4>2, <4>3 DEF AnsweredBy
    <3>4. n.op = "connect" /\ n.id = i /\ n.dev = s.dev
      BY DEF Job
    <3> HIDE DEF n
    <3>5. \A j \in new : /\ ~IsToken(j) /\ ~Answering(j) /\ j.op = "connect" /\ j.id = i
                         /\ AnsweredBy(j.id, j.dev)
      BY <3>3, <3>4 DEF IsToken, Answering
    <3> HIDE DEF new
    <3>6. QuietJobs(d)
      BY <3>1, <3>2, <3>5, GivenQuietly
    <3>7. \A j \in jobs[d] : Answering(j) \/ j.op = "connect" => Engaged(d, j.id)
      BY DEF Engaged
    <3>8. \A j \in jobs'[d] : Answering(j) \/ j.op = "connect" =>
            Engaged(d, j.id) \/ (d = Placer[j.id] /\ \E e \in Devices : AnsweredBy(j.id, e))
      BY <3>1, <3>3, <3>5, <3>7
    <3>9. QuietEngine(d)
      BY <1>1, <3>8, EngineQuietly
    <3> QED
      BY <3>2, <3>6, <3>9
  <2> QED
    BY <1>5, <1>7, <2>1 DEF OnAccept
<1>8. ASSUME NEW notify, EndsCall(d, {}, notify) PROVE Good
  <2> DEFINE no == {}
  <2>1. EndsCall(d, no, notify)
    BY <1>8
  <2> HIDE DEF no
  <2> QED
    BY <1>1, <1>2, <2>1, EndsCallIsQuiet
<1>9. ASSUME Withdrawn(d) PROVE Good
  <2>1. call'[d] = Idle /\ jobs' = jobs
    BY <1>9 DEF Withdrawn, Resets, Registered, Typed
  <2>2. QuietCall(d)
    BY <2>1, Constants DEF QuietCall, Idle
  <2> QED
    BY <1>1, <1>2, <2>1, <2>2, NothingIsQuiet
<1>10. Good
  <2>1. CASE s.kind = "INVITE"
    BY <1>6, <2>1 DEF OnSignal, s
  <2>2. CASE s.kind = "ACCEPT"
    BY <1>5, <1>7, <2>2 DEF OnSignal, s
  <2>3. CASE s.kind \in {"REJECT", "BUSY", "HANGUP"}
    BY <1>5, <1>8, <2>3 DEF OnSignal, s
  <2>4. CASE s.kind = "CANCEL"
    BY <1>5, <1>9, <2>4 DEF OnSignal, s
  <2>5. CASE s.kind = "ELSEWHERE"
    BY <1>5, <1>8, <1>9, <2>5 DEF OnSignal, OnElsewhere, s
  <2> QED
    BY <1>4, <2>1, <2>2, <2>3, <2>4, <2>5 DEF SignalSet, Kinds
<1> QED
  BY <1>1, <1>2, <1>3, <1>10 DEF Quiet

\* The renderer's other steps, and what it picks up from native.
LEMMA RendererQuiet ==
  ASSUME Registered, NEW d \in Devices,
         \/ AcceptCall(d) \/ HangUp(d) \/ RingTimeout(d) \/ MissedTimeout(d)
         \/ \E v \in events[d] : OnOutcome(d, v)
         \/ \E j \in jobs[d] : PrepareReturns(d, j) \/ ConnectFails(d, j) \/ SendReturns(d, j)
  PROVE  Quiet(d)
<1>1. User(d) \/ Timers(d) \/ Runs(d) \/ Loses(d)
  BY DEF User, Timers, Runs
<1>2. \A e \in Devices \ {d} : Alike(e)
  BY <1>1, StepAlone DEF Registered
<1>3. UNCHANGED <<placed, reg, down, active>> /\ events'[d] \subseteq events[d] /\ Hears(d)
  <2>1. UNCHANGED <<placed, reg, down, active>>
    BY DEF AcceptCall, HangUp, RingTimeout, MissedTimeout, OnOutcome, PrepareReturns, ConnectFails, SendReturns,
           native, server
  <2>2. CASE \E v \in events[d] : OnOutcome(d, v)
    BY <2>1, <2>2 DEF OnOutcome, Registered, Typed, Hears
  <2>3. CASE events' = events
    BY <2>1, <2>3 DEF Hears
  <2> QED
    BY <2>2, <2>3 DEF AcceptCall, HangUp, RingTimeout, MissedTimeout, PrepareReturns, ConnectFails, SendReturns
<1> DEFINE Good == QuietCall(d) /\ QuietJobs(d) /\ QuietEngine(d)
<1>4. ASSUME NEW gone, NEW notify, EndsCall(d, gone, notify) PROVE Good
  BY <1>3, <1>4, EndsCallIsQuiet
<1>5. ASSUME jobs'[d] = jobs[d], QuietCall(d) PROVE Good
  BY <1>3, <1>5, NothingIsQuiet
<1>6. \A j \in jobs[d] : Answering(j) \/ j.op = "connect" => Engaged(d, j.id)
  BY DEF Engaged
\* One command takes the place of another.
<1>7. ASSUME call' = call, NEW j \in jobs[d], NEW n, Gives(d, {j}, {n}), n.id = j.id,
             IsToken(n) => IsToken(j), Answering(n) => Answering(j), n.op = "send" => n.by \notin Ending,
             n.op = "connect" => Answering(j)
      PROVE  Good
  <2>1. QuietCall(d)
    BY <1>7 DEF QuietCall
  <2>2. jobs'[d] = (jobs[d] \ {j}) \cup {n}
    BY <1>7 DEF Gives, Registered, Typed
  <2>3. Answering(j) => d # Placer[j.id]
    BY <1>7 DEF Registered, Sides
  <2>4. QuietJobs(d)
    BY <1>7, <2>1, <2>2, <2>3, MovedQuietly
  <2>5. \A k \in jobs'[d] : Answering(k) \/ k.op = "connect" => Engaged(d, k.id)
    BY <1>6, <1>7, <2>2
  <2>6. QuietEngine(d)
    BY <1>3, <2>5, EngineQuietly
  <2> QED
    BY <2>1, <2>4, <2>6
<1>8. ASSUME call' = call, NEW j \in jobs[d], Gives(d, {j}, {}) PROVE Good
  <2> DEFINE no == {}
  <2>1. QuietCall(d)
    BY <1>8 DEF QuietCall
  <2>2. jobs'[d] \subseteq jobs[d] \cup no
    BY <1>8 DEF Gives, Registered, Typed
  <2>3. jobs'[d] \subseteq jobs[d] /\ \A k \in no : FALSE
    BY <2>2
  <2> HIDE DEF no
  <2>4. QuietJobs(d)
    BY <2>1, <2>2, <2>3, GivenQuietly
  <2>5. QuietEngine(d)
    BY <1>3, <1>6, <2>3, EngineQuietly
  <2> QED
    BY <2>1, <2>4, <2>5
<1>9. CASE AcceptCall(d)
  <2>0. PICK i \in Calls : i = call[d].id
    BY <1>9, CallType DEF AcceptCall, Registered, Calling
  <2> DEFINE n == Job("prepare", i, "accept", None)
             new == {n}
  <2>1. call'[d] = [status |-> "connecting", id |-> i, caller |-> FALSE] /\ jobs'[d] \subseteq jobs[d] \cup new
    <3>1. Becomes(d, "connecting", i, FALSE) /\ Gives(d, {}, {n} \cup {})
      BY <1>9, <2>0 DEF AcceptCall, Accepts, Becomes, Gives
    <3>2. call'[d] = [status |-> "connecting", id |-> i, caller |-> FALSE]
      BY <3>1 DEF Becomes, Registered, Typed
    <3>3. jobs' = [jobs EXCEPT ![d] = (@ \ {}) \cup ({n} \cup {})]
      BY <3>1 DEF Gives
    <3>4. jobs'[d] = (jobs[d] \ {}) \cup ({n} \cup {})
      BY <3>3 DEF Registered, Typed
    <3> QED
      BY <3>2, <3>4
  <2>2. QuietCall(d)
    BY <2>0, <2>1 DEF QuietCall
  <2>3. d # Placer[i] /\ call[d].status = "incoming"
    BY <1>9, <2>0 DEF AcceptCall, Registered, Sides
  <2>4. n.op = "prepare" /\ n.by = "accept" /\ n.id = i
    BY DEF Job
  <2> HIDE DEF n
  <2>5. \A j \in new : ~IsToken(j) /\ j.op = "prepare" /\ j.id = i
    BY <2>4 DEF IsToken
  <2> HIDE DEF new
  <2>6. QuietJobs(d)
    BY <2>1, <2>2, <2>3, <2>5, GivenQuietly
  <2>7. \A j \in jobs'[d] : Answering(j) \/ j.op = "connect" =>
          \/ Engaged(d, j.id)
          \/ call'[d].status = "connecting" /\ call[d].status = "incoming" /\ call[d].id = j.id
    BY <1>6, <2>0, <2>1, <2>3, <2>5
  <2>8. QuietEngine(d)
    BY <1>3, <2>7, EngineQuietly
  <2> QED
    BY <1>2, <1>3, <2>2, <2>6, <2>8 DEF Quiet
<1>10. CASE HangUp(d) \/ RingTimeout(d)
  <2>1. Good
    BY <1>4, <1>10 DEF HangUp, RingTimeout
  <2> QED
    BY <1>2, <1>3, <2>1 DEF Quiet
<1>11. CASE MissedTimeout(d)
  <2>1. call'[d] = Idle /\ jobs' = jobs
    BY <1>11 DEF MissedTimeout, Resets, Registered, Typed
  <2>2. QuietCall(d)
    BY <2>1, Constants DEF QuietCall, Idle
  <2>3. Good
    BY <1>5, <2>1, <2>2
  <2> QED
    BY <1>2, <1>3, <2>3 DEF Quiet
<1>12. CASE \E v \in events[d] : OnOutcome(d, v)
  <2>1. PICK v \in events[d] : OnOutcome(d, v)
    BY <1>12
  <2>2. CASE UNCHANGED <<call, jobs>>
    <3>1. QuietCall(d)
      BY <2>2 DEF QuietCall
    <3>2. Good
      BY <1>5, <2>2, <3>1
    <3> QED
      BY <1>2, <1>3, <3>2 DEF Quiet
  <2>3. CASE call[d].id = v.id /\ Becomes(d, "active", v.id, call[d].caller) /\ jobs' = jobs
    <3>1. call'[d] = [status |-> "active", id |-> v.id, caller |-> call[d].caller]
      BY <2>3 DEF Becomes, Registered, Typed
    <3>2. QuietCall(d)
      BY <2>3, <3>1 DEF QuietCall
    <3>3. Good
      BY <1>5, <2>3, <3>2
    <3> QED
      BY <1>2, <1>3, <3>3 DEF Quiet
  <2>4. CASE EndsCall(d, {}, TRUE)
    <3>1. Good
      BY <1>4, <2>4
    <3> QED
      BY <1>2, <1>3, <3>1 DEF Quiet
  <2> QED
    BY <2>1, <2>2, <2>3, <2>4 DEF OnOutcome
<1>13. CASE \E j \in jobs[d] : PrepareReturns(d, j) \/ ConnectFails(d, j) \/ SendReturns(d, j)
  <2>1. PICK j \in jobs[d] : PrepareReturns(d, j) \/ ConnectFails(d, j) \/ SendReturns(d, j)
    BY <1>13
  <2>2. j \in JobSet
    BY DEF Registered, Typed
  <2>3. Good
    <3>1. CASE \E notify \in BOOLEAN : EndsCall(d, {j}, notify)
      BY <1>4, <3>1
    <3>2. CASE PrepareReturns(d, j) /\ j.at # "failed"
      <4>1. j.op = "prepare" /\ j.by \in {"start", "accept"} /\ call' = call
        BY <2>2, <3>2 DEF PrepareReturns, JobSet
      <4>2. CASE Gives(d, {j}, {EndJob(j.id, "stale")})
        <5>1. PICK n : n = EndJob(j.id, "stale")
          OBVIOUS
        <5>2. n.op = "end" /\ n.id = j.id /\ Gives(d, {j}, {n})
          BY <4>2, <5>1 DEF EndJob, Job
        <5> QED
          BY <1>7, <4>1, <5>2 DEF IsToken, Answering
      <4>3. CASE Gives(d, {j}, {Sends(IF j.by = "start" THEN "INVITE" ELSE "ACCEPT", j.id)})
        <5>1. PICK n : n = Sends(IF j.by = "start" THEN "INVITE" ELSE "ACCEPT", j.id)
          OBVIOUS
        <5>2. /\ n.op = "send" /\ n.id = j.id /\ Gives(d, {j}, {n})
              /\ n.by = IF j.by = "start" THEN "INVITE" ELSE "ACCEPT"
          BY <4>3, <5>1 DEF Sends, Job
        <5>3. /\ IsToken(n) => IsToken(j)
              /\ Answering(n) => Answering(j)
              /\ n.by \notin Ending
          BY <4>1, <5>2 DEF IsToken, Answering, Ending
        <5> QED
          BY <1>7, <4>1, <5>2, <5>3
      <4> QED
        BY <3>2, <4>2, <4>3 DEF PrepareReturns
    <3>3. CASE SendReturns(d, j) /\ j.at # "failed"
      <4>1. j.op = "send" /\ j.at = "done" /\ j.by \in {"INVITE", "ACCEPT"}
        BY <2>2, <3>3 DEF SendReturns, JobSet, Awaited
      <4>2. CASE j.by = "INVITE"
        <5>1. Gives(d, {j}, {}) /\ call' = call
          BY <3>3, <4>1, <4>2 DEF SendReturns
        <5> QED
          BY <1>8, <5>1
      <4>3. CASE j.by = "ACCEPT"
        <5>1. PICK n : n = Job("connect", j.id, "accept", Placer[j.id])
          OBVIOUS
        <5>2. Gives(d, {j}, {n}) /\ call' = call /\ n.op = "connect" /\ n.id = j.id
          BY <3>3, <4>1, <4>3, <5>1 DEF SendReturns, Job
        <5>3. ~IsToken(n) /\ ~Answering(n) /\ Answering(j)
          BY <4>1, <4>3, <5>2 DEF IsToken, Answering
        <5> QED
          BY <1>7, <5>2, <5>3
      <4> QED
        BY <4>1, <4>2, <4>3
    <3>4. CASE j.at = "failed"
      <4>1. CASE PrepareReturns(d, j)
        <5>1. EndsCall(d, {j}, j.by = "accept")
          BY <3>4, <4>1 DEF PrepareReturns
        <5> QED
          BY <1>4, <5>1
      <4>2. CASE ConnectFails(d, j)
        BY <1>4, <4>2 DEF ConnectFails
      <4>3. CASE SendReturns(d, j)
        <5>1. EndsCall(d, {j}, j.by = "ACCEPT")
          BY <3>4, <4>3 DEF SendReturns
        <5> QED
          BY <1>4, <5>1
      <4> QED
        BY <2>1, <4>1, <4>2, <4>3
    <3> QED
      BY <2>1, <3>1, <3>2, <3>3, <3>4 DEF ConnectFails
  <2> QED
    BY <1>2, <1>3, <2>3 DEF Quiet
<1> QED
  BY <1>9, <1>10, <1>11, <1>12, <1>13

LEMMA NativeQuiet ==
  ASSUME Registered, NEW d \in Devices,
         \/ PunchSucceeds(d) \/ PunchFails(d) \/ PeerLost(d)
         \/ \E j \in jobs[d] : \/ PrepareBegins(d, j) \/ PrepareEnds(d, j) \/ Connect(d, j)
                               \/ CallEnd(d, j) \/ SignalLost(d, j)
  PROVE  Quiet(d)
<1>1. User(d) \/ Timers(d) \/ Runs(d) \/ Loses(d)
  BY DEF Timers, Runs, Loses
<1>2. \A e \in Devices \ {d} : Alike(e)
  BY <1>1, StepAlone DEF Registered
<1>3. UNCHANGED <<call, placed, reg, down>>
  BY DEF PunchSucceeds, PunchFails, PeerLost, PrepareBegins, PrepareEnds, Connect, CallEnd, SignalLost,
         renderer, server
<1>4. QuietCall(d) /\ Hears(d)
  BY <1>3 DEF QuietCall, Hears
<1>5. \A j \in jobs[d] : Answering(j) \/ j.op = "connect" => Engaged(d, j.id)
  BY DEF Engaged
<1>6. CASE PunchSucceeds(d) \/ PunchFails(d) \/ PeerLost(d)
  <2>1. jobs' = jobs
    BY <1>6 DEF PunchSucceeds, PunchFails, PeerLost, renderer
  <2>2. QuietJobs(d)
    <3> DEFINE no == {}
    <3>1. jobs'[d] \subseteq jobs[d] \cup no /\ \A j \in no : FALSE
      BY <2>1
    <3> HIDE DEF no
    <3> QED
      BY <1>4, <3>1, GivenQuietly
  <2>3. \E kind : events'[d] = events[d] \cup {[kind |-> kind, id |-> active[d].id]}
    BY <1>6 DEF PunchSucceeds, PunchFails, PeerLost, Happens, Registered, Typed
  <2>4. active'[d] = NoCall \/ (active'[d].id = active[d].id /\ active'[d].with = active[d].with)
    <3>1. CASE PunchFails(d)
      BY <3>1 DEF PunchFails, Held, Registered, Typed
    <3>2. CASE PunchSucceeds(d) \/ PeerLost(d)
      <4>1. \E phase \in {"up", "lost"} : active' = [active EXCEPT ![d] = [active[d] EXCEPT !.phase = phase]]
        BY <3>2 DEF PunchSucceeds, PeerLost
      <4>2. active[d] \in Engines /\ active[d] # NoCall
        BY <3>2 DEF PunchSucceeds, PeerLost, NoCall, Registered, Typed
      <4> QED
        BY <4>1, <4>2 DEF Engines, Registered, Typed
    <3> QED
      BY <1>6, <3>1, <3>2
  <2>5. QuietEngine(d)
    <3>1. ASSUME NEW i \in Calls, Engaged(d, i)' PROVE Engaged(d, i)
      <4>1. CASE active'[d].id = i
        BY <2>4, <4>1, Constants DEF Engaged, NoCall
      <4>2. CASE \E v \in events'[d] : v.id = i
        BY <2>3, <4>2 DEF Engaged
      <4>3. CASE \E j \in jobs'[d] : j.id = i /\ (Answering(j) \/ j.op = "connect")
        BY <2>1, <4>3 DEF Engaged
      <4> QED
        BY <3>1, <4>1, <4>2, <4>3 DEF Engaged
    <3>2. ASSUME NEW i \in Calls, active'[d].id = i, Placer[i] = d PROVE AnsweredBy(i, active'[d].with)
      BY <2>4, <3>2, Constants DEF AnsweredBy, NoCall
    <3> QED
      BY <3>1, <3>2 DEF QuietEngine
  <2> QED
    BY <1>2, <1>3, <1>4, <2>2, <2>5 DEF Quiet
<1>7. CASE \E j \in jobs[d] : \/ PrepareBegins(d, j) \/ PrepareEnds(d, j) \/ Connect(d, j)
                              \/ CallEnd(d, j) \/ SignalLost(d, j)
  <2>1. PICK j \in jobs[d] : \/ PrepareBegins(d, j) \/ PrepareEnds(d, j) \/ Connect(d, j)
                             \/ CallEnd(d, j) \/ SignalLost(d, j)
    BY <1>7
  <2>2. j \in JobSet /\ events' = events
    BY <2>1 DEF Registered, Typed, PrepareBegins, PrepareEnds, Connect, CallEnd, SignalLost
  <2>3. \/ Gives(d, {j}, {})
        \/ \E at \in {"begin", "gathering", "done", "failed"} :
             Step(d, j, at) /\ (j.op = "send" => Awaited(j) /\ at # "begin")
    BY <2>1 DEF PrepareBegins, PrepareEnds, Connect, CallEnd, SignalLost
  <2>4. /\ QuietJobs(d)
        /\ \A k \in jobs'[d] : Answering(k) \/ k.op = "connect" => Engaged(d, k.id)
    <3>1. CASE Gives(d, {j}, {})
      <4> DEFINE no == {}
      <4>1. jobs'[d] \subseteq jobs[d] \cup no
        BY <3>1 DEF Gives, Registered, Typed
      <4>2. jobs'[d] \subseteq jobs[d] /\ \A k \in no : FALSE
        BY <4>1
      <4> HIDE DEF no
      <4> QED
        BY <1>4, <1>5, <4>1, <4>2, GivenQuietly
    <3>2. ASSUME NEW at \in {"begin", "gathering", "done", "failed"}, Step(d, j, at),
                 j.op = "send" => Awaited(j) /\ at # "begin"
          PROVE  /\ QuietJobs(d)
                 /\ \A k \in jobs'[d] : Answering(k) \/ k.op = "connect" => Engaged(d, k.id)
      <4>1. PICK n : n = [j EXCEPT !.at = at]
        OBVIOUS
      <4>2. n.op = j.op /\ n.id = j.id /\ n.by = j.by /\ n.dev = j.dev /\ n.at = at
        BY <2>2, <4>1 DEF JobSet
      <4>3. jobs'[d] = (jobs[d] \ {j}) \cup {n}
        BY <3>2, <4>1 DEF Step, Registered, Typed
      <4>4. IsToken(n) => IsToken(j)
        BY <3>2, <4>2 DEF IsToken
      <4>5. (Answering(n) <=> Answering(j)) /\ (Answering(n) => d # Placer[n.id])
        BY <4>2 DEF Answering, Registered, Sides
      <4>6. n.op = "send" => n.by \notin Ending
        BY <3>2, <4>2 DEF Awaited, Ending
      <4>7. n.op = "connect" /\ Placer[n.id] = d => AnsweredBy(n.id, n.dev)
        BY <4>2 DEF AnsweredBy
      <4>8. QuietJobs(d)
        BY <1>4, <4>2, <4>3, <4>4, <4>5, <4>6, <4>7, MovedQuietly
      <4> QED
        BY <1>5, <4>2, <4>3, <4>5, <4>8
    <3> QED
      BY <2>3, <3>1, <3>2
  <2>5. QuietEngine(d)
    <3>1. CASE active'[d] = active[d]
      BY <2>2, <2>4, <3>1, EngineQuietly
    <3>2. CASE active'[d] # active[d]
      <4>1. \/ active'[d] = NoCall
            \/ active'[d] = [id |-> j.id, with |-> j.dev, phase |-> "punching"] /\ j.op = "connect"
        BY <2>1, <3>2 DEF PrepareBegins, PrepareEnds, Connect, CallEnd, SignalLost, Held, native, Registered, Typed
      <4>2. ASSUME NEW i \in Calls, active'[d].id = i
            PROVE  Engaged(d, i) /\ (Placer[i] = d => AnsweredBy(i, active'[d].with))
        BY <4>1, <4>2, Constants DEF NoCall, Engaged, AnsweredBy
      <4>3. ASSUME NEW i \in Calls, Engaged(d, i)' PROVE Engaged(d, i)
        <5>1. CASE \E k \in jobs'[d] : k.id = i /\ (Answering(k) \/ k.op = "connect")
          BY <2>4, <5>1
        <5>2. CASE \E v \in events[d] : v.id = i
          BY <5>2 DEF Engaged
        <5> QED
          BY <2>2, <4>2, <4>3, <5>1, <5>2 DEF Engaged
      <4> QED
        BY <4>2, <4>3 DEF QuietEngine
    <3> QED
      BY <3>1, <3>2
  <2> QED
    BY <1>2, <1>3, <1>4, <2>4, <2>5 DEF Quiet
<1> QED
  BY <1>6, <1>7

-----------------------------------------------------------------------------
(* Placing a call.                                                         *)

LEMMA StartCallKeeps ==
  ASSUME Registered, Typed', NEW d \in Devices, NEW c \in Calls, StartCall(d, c)
  PROVE  Registered'
<1>1. \A e \in Devices \ {d} : Alike(e)
  <2>1. User(d)
    BY DEF User
  <2> QED
    BY <2>1, StepAlone DEF Registered
<1>2. /\ UNCHANGED <<active, events, reg, down>> /\ placed' = placed \cup {c}
      /\ c \notin placed /\ Placer[c] = d /\ call[d].status = "idle"
  BY DEF StartCall
<1>3. PICK n : n = Job("prepare", c, "start", None)
  OBVIOUS
<1>4. n.op = "prepare" /\ n.by = "start" /\ n.id = c
  BY <1>3 DEF Job
<1>5. /\ call'[d] = [status |-> "outgoing", id |-> c, caller |-> TRUE]
      /\ jobs'[d] = jobs[d] \cup {n}
  <2>1. Becomes(d, "outgoing", c, TRUE) /\ Gives(d, {}, {Job("prepare", c, "start", None)})
    BY DEF StartCall
  <2>2. call'[d] = [status |-> "outgoing", id |-> c, caller |-> TRUE]
    BY <2>1 DEF Becomes, Registered, Typed
  <2>3. jobs' = [jobs EXCEPT ![d] = (@ \ {}) \cup {n}]
    BY <1>3, <2>1 DEF Gives
  <2>4. jobs'[d] = (jobs[d] \ {}) \cup {n}
    BY <2>3 DEF Registered, Typed
  <2> QED
    BY <2>2, <2>4
\* The call was fresh, and stays it.
<1>6. Fresh(c) /\ \A i \in Calls : Fresh(i)' => Fresh(i)
  <2>1. ASSUME NEW i \in Calls, Fresh(i)' PROVE Fresh(i)
    <3>1. CASE \E j \in jobs'[Placer[i]] : IsToken(j) /\ j.id = i
      <4>1. CASE Placer[i] = d
        BY <1>2, <1>4, <1>5, <3>1, <4>1 DEF Fresh
      <4>2. CASE Placer[i] # d
        <5>1. jobs'[Placer[i]] = jobs[Placer[i]]
          BY <1>1, <4>2, Constants DEF Alike
        <5> QED
          BY <3>1, <5>1 DEF Fresh
      <4> QED
        BY <4>1, <4>2
    <3>2. CASE i \notin placed'
      BY <1>2, <3>2 DEF Fresh
    <3> QED
      BY <2>1, <3>1, <3>2 DEF Fresh
  <2> QED
    BY <1>2, <2>1 DEF Fresh
<1>7. \A e \in Devices : call[e].id # c
  BY <1>2 DEF Registered, Sides
<1>8. \A e \in Devices : \A i \in Calls : Invites(e, i)' = Invites(e, i)
  BY <1>2 DEF Invites
<1>9. \A e \in Devices : Invites(e, c) = {}
  BY <1>6 DEF Registered, FreshIsUntouched, Invites
<1>10. \A e \in Devices : \A i \in Calls : call'[e].id = i => (call'[e] = call[e]) \/ (e = d /\ i = c)
  BY <1>1, <1>5 DEF Alike
<1>11. \A e \in Devices : \A j \in jobs'[e] : j \in jobs[e] \/ (e = d /\ j = n)
  BY <1>1, <1>5 DEF Alike
<1>12. Tokens'
  <2>1. ASSUME NEW e \in Devices, NEW j \in jobs'[e], IsToken(j)
        PROVE  /\ Placer[j.id] = e /\ j.id \in placed'
               /\ \A k \in jobs'[e] : IsToken(k) /\ k.id = j.id => k = j
    <3>1. \A k \in jobs[e] : IsToken(k) => k.id \in placed /\ k.id # c /\ Placer[k.id] = e
      BY <1>2 DEF Registered, Tokens
    <3>2. \A k \in jobs[e], m \in jobs[e] : IsToken(k) /\ IsToken(m) /\ k.id = m.id => k = m
      BY DEF Registered, Tokens
    <3> QED
      BY <1>2, <1>4, <1>11, <2>1, <3>1, <3>2
  <2> QED
    BY <2>1 DEF Tokens
<1>13. FreshIsUntouched'
  BY <1>2, <1>6 DEF Registered, FreshIsUntouched
<1>14. Sides'
  <2>1. ASSUME NEW e \in Devices, NEW i \in Calls, call'[e].id = i
        PROVE  /\ i \in placed' /\ (e # Placer[i] => ~Fresh(i)')
               /\ call'[e].status = "incoming" => e # Placer[i]
               /\ call'[e].status = "outgoing" => e = Placer[i]
    <3>1. CASE call'[e] = call[e]
      BY <1>2, <1>6, <2>1, <3>1 DEF Registered, Sides
    <3>2. CASE e = d /\ i = c
      BY <1>2, <1>5, <3>2
    <3> QED
      BY <1>10, <2>1, <3>1, <3>2
  <2>2. \A e \in Devices : \A j \in jobs'[e] : Answering(j) => e # Placer[j.id]
    BY <1>4, <1>11 DEF Answering, Registered, Sides
  <2> QED
    BY <2>1, <2>2 DEF Sides
<1>15. InvitedOnce'
  <2>1. ASSUME NEW e \in Devices, NEW i \in Calls, NEW k \in Invites(e, i)'
        PROVE  e # Placer[i] /\ call'[e].id # i /\ Invites(e, i)' = {k}
    <3>1. e # Placer[i] /\ call[e].id # i /\ Invites(e, i)' = {k} /\ i # c
      BY <1>8, <1>9, <2>1 DEF Registered, InvitedOnce
    <3> QED
      BY <1>10, <3>1
  <2> QED
    BY <2>1 DEF InvitedOnce
<1>16. EndsAreFinal'
  <2>1. ASSUME NEW e \in Devices, NEW j \in jobs'[e], j.op = "send", j.by \in Ending
        PROVE  /\ j.id \in placed' /\ call'[e].id # j.id /\ Invites(e, j.id)' = {}
               /\ e # Placer[j.id] => ~Fresh(j.id)'
    <3>1. j \in jobs[e]
      BY <1>4, <1>11, <2>1
    <3>2. j.id \in Calls
      BY <3>1 DEF Registered, Typed, JobSet
    <3>3. /\ j.id \in placed /\ call[e].id # j.id /\ Invites(e, j.id) = {}
          /\ e # Placer[j.id] => ~Fresh(j.id)
      BY <2>1, <3>1 DEF Registered, EndsAreFinal
    <3>4. call'[e].id # j.id
      BY <1>2, <1>10, <3>2, <3>3
    <3> QED
      BY <1>2, <1>6, <1>8, <3>2, <3>3, <3>4
  <2> QED
    BY <2>1 DEF EndsAreFinal
<1>17. AnsweredOnce'
  BY <1>2 DEF Registered, AnsweredOnce
<1>18. Answers'
  <2>1. ASSUME NEW i \in Calls, NEW e \in Devices, AnsweredBy(i, e)'
        PROVE  /\ ~Fresh(i)'
               /\ reg'[i].up => reg'[i].callee = e
               /\ ~reg'[i].up => call'[Placer[i]].id # i \/ (call'[e].id # i /\ Invites(e, i)' = {})
    <3>1. AnsweredBy(i, e)
      <4>1. OnWire(Placer[i], Signal("ACCEPT", i, e))' => OnWire(Placer[i], Signal("ACCEPT", i, e))
        BY <1>2 DEF OnWire
      <4>2. \A j \in jobs'[Placer[i]] : j.op = "connect" => j \in jobs[Placer[i]]
        BY <1>4, <1>11, Constants
      <4> QED
        BY <1>2, <2>1, <4>1, <4>2 DEF AnsweredBy
    <3>2. /\ ~Fresh(i) /\ (reg[i].up => reg[i].callee = e)
          /\ ~reg[i].up => call[Placer[i]].id # i \/ (call[e].id # i /\ Invites(e, i) = {})
      BY <3>1 DEF Registered, Answers
    <3>3. i # c
      BY <1>6, <3>2
    <3>4. \A f \in Devices : call[f].id # i => call'[f].id # i
      BY <1>10, <3>3
    <3> QED
      BY <1>2, <1>6, <1>8, <3>2, <3>4, Constants
  <2> QED
    BY <2>1 DEF Answers
<1>19. EngagedOnce'
  <2>1. ASSUME NEW e \in Devices, NEW i \in Calls, Engaged(e, i)'
        PROVE  ~Fresh(i)' /\ Invites(e, i)' = {} /\ ~(call'[e].status = "incoming" /\ call'[e].id = i)
    <3>1. Engaged(e, i)
      BY <1>2, <1>4, <1>11, <2>1 DEF Engaged, Answering
    <3>2. ~Fresh(i) /\ Invites(e, i) = {} /\ ~(call[e].status = "incoming" /\ call[e].id = i)
      BY <3>1 DEF Registered, EngagedOnce
    <3>3. i # c
      BY <1>6, <3>2
    <3>4. ~(call'[e].status = "incoming" /\ call'[e].id = i)
      BY <1>10, <3>2, <3>3
    <3> QED
      BY <1>6, <1>8, <3>2, <3>4
  <2> QED
    BY <2>1 DEF EngagedOnce
<1> QED
  BY <1>12, <1>13, <1>14, <1>15, <1>16, <1>17, <1>18, <1>19 DEF Registered

-----------------------------------------------------------------------------
(* A signal reaches the server.                                            *)

\* The command is done, and with it a token.
LEMMA SentJobs ==
  ASSUME Registered, NEW d \in Devices, NEW j \in jobs[d], SignalSent(d, j)
  PROVE  /\ j.op = "send" /\ j.at = "begin" /\ j.id \in Calls /\ Route(d, j.by, j.id)
         /\ UNCHANGED <<call, active, events, placed>>
         /\ \A e \in Devices : \A k \in jobs'[e] :
              k \in jobs[e] \/ (e = d /\ k.op = "send" /\ k.id = j.id /\ k.by = j.by /\ k.at = "done" /\ Awaited(j))
         /\ j \notin jobs'[d]
         /\ \A i \in Calls : Fresh(i)' => Fresh(i)
         /\ j.by = "INVITE" => ~Fresh(j.id)'
<1>1. /\ j \in JobSet /\ j.op = "send" /\ j.at = "begin" /\ Route(d, j.by, j.id)
      /\ UNCHANGED <<call, active, events, placed>>
  BY DEF SignalSent, Registered, Typed, renderer, native
<1>2. \A e \in Devices \ {d} : jobs'[e] = jobs[e]
  <2>1. Runs(d)
    BY DEF Runs
  <2> QED
    BY <2>1, StepAlone DEF Registered, Alike
<1>3. PICK n : n = [j EXCEPT !.at = "done"]
  OBVIOUS
<1>4. n.op = "send" /\ n.id = j.id /\ n.by = j.by /\ n.at = "done"
  BY <1>1, <1>3 DEF JobSet
<1>5. \/ jobs'[d] = jobs[d] \ {j}
      \/ jobs'[d] = (jobs[d] \ {j}) \cup {n} /\ Awaited(j)
  BY <1>3 DEF SignalSent, Step, Gives, Registered, Typed
<1>6. \A e \in Devices : \A k \in jobs'[e] : k \in jobs[e] \/ (e = d /\ k = n /\ Awaited(j))
  BY <1>2, <1>5
<1>7. j \notin jobs'[d]
  BY <1>1, <1>4, <1>5
<1>8. \A e \in Devices : \A k \in jobs'[e] : IsToken(k) => k \in jobs[e]
  BY <1>4, <1>6 DEF IsToken
<1>9. \A i \in Calls : Fresh(i)' => Fresh(i)
  BY <1>1, <1>8, Constants DEF Fresh
<1>10. j.id \in Calls
  BY <1>1 DEF JobSet
<1>11. ASSUME j.by = "INVITE" PROVE ~Fresh(j.id)'
  <2>1. IsToken(j)
    BY <1>1, <1>11 DEF IsToken
  <2>2. Placer[j.id] = d /\ j.id \in placed /\ \A k \in jobs[d] : IsToken(k) /\ k.id = j.id => k = j
    BY <2>1 DEF Registered, Tokens
  <2>3. \A k \in jobs'[d] : ~(IsToken(k) /\ k.id = j.id)
    BY <1>7, <1>8, <2>2
  <2> QED
    BY <1>1, <2>2, <2>3 DEF Fresh
<1> QED
  BY <1>1, <1>4, <1>6, <1>7, <1>9, <1>10, <1>11

\* What the commands and the devices have to do with: all but the server.
LEMMA SentKeeps ==
  ASSUME Registered, NEW d \in Devices, NEW j \in jobs[d], SignalSent(d, j),
         NEW i \in Calls, i = j.id,
         \A e \in Devices : \A k \in Calls : k # i => Invites(e, k)' = Invites(e, k),
         \A e \in Devices : Invites(e, i) # {} => Invites(e, i)' = Invites(e, i),
         \A e \in Devices : Invites(e, i) = {} => Invites(e, i)' = {} \/
            (Fresh(i) /\ e # Placer[i] /\ \E m : Invites(e, i)' = {m})
  PROVE  Tokens' /\ Sides' /\ InvitedOnce' /\ EndsAreFinal' /\ EngagedOnce'
<1>1. /\ j.op = "send" /\ j.at = "begin"
      /\ UNCHANGED <<call, active, events, placed>>
      /\ \A e \in Devices : \A k \in jobs'[e] :
           k \in jobs[e] \/ (e = d /\ k.op = "send" /\ k.id = j.id /\ k.by = j.by /\ k.at = "done" /\ Awaited(j))
      /\ j \notin jobs'[d]
      /\ \A k \in Calls : Fresh(k)' => Fresh(k)
  BY SentJobs
<1>0. \A k \in Calls : \A e \in Devices : ~Fresh(k) /\ Invites(e, k) = {} => Invites(e, k)' = {}
  OBVIOUS
<1>2. Tokens'
  <2>1. \A e \in Devices : \A k \in jobs'[e] : IsToken(k) => k \in jobs[e]
    BY <1>1 DEF IsToken
  <2>2. \A e \in Devices : \A k \in jobs[e] :
          IsToken(k) => /\ Placer[k.id] = e /\ k.id \in placed
                        /\ \A m \in jobs[e] : IsToken(m) /\ m.id = k.id => m = k
    BY DEF Registered, Tokens
  <2> QED
    BY <1>1, <2>1, <2>2 DEF Tokens
<1>3. Sides'
  <2>1. \A e \in Devices : \A k \in jobs'[e] : Answering(k) => e # Placer[k.id]
    <3>1. \A e \in Devices : \A k \in jobs[e] : Answering(k) => e # Placer[k.id]
      BY DEF Registered, Sides
    <3>2. Answering(j) => d # Placer[j.id]
      BY <3>1
    <3>3. ASSUME NEW e \in Devices, NEW k \in jobs'[e], Answering(k), k \notin jobs[e] PROVE e # Placer[k.id]
      <4>1. e = d /\ k.op = "send" /\ k.id = j.id /\ k.by = j.by
        BY <1>1, <3>3
      <4>2. Answering(j)
        BY <1>1, <3>3, <4>1 DEF Answering
      <4> QED
        BY <3>2, <4>1, <4>2
    <3> QED
      BY <3>1, <3>3
  <2> QED
    BY <1>1, <2>1 DEF Registered, Sides
<1>4. InvitedOnce'
  <2>1. ASSUME NEW e \in Devices, NEW k \in Calls, NEW m \in Invites(e, k)'
        PROVE  e # Placer[k] /\ call'[e].id # k /\ Invites(e, k)' = {m}
    <3>1. CASE Invites(e, k)' = Invites(e, k)
      <4>1. e # Placer[k] /\ call[e].id # k /\ Invites(e, k) = {m}
        BY <2>1, <3>1 DEF Registered, InvitedOnce
      <4> QED
        BY <1>1, <3>1, <4>1
    <3>2. CASE Invites(e, k)' # Invites(e, k)
      <4>1. k = i /\ Invites(e, i) = {} /\ Invites(e, i)' # {}
        BY <2>1, <3>2
      <4>2. Fresh(i) /\ e # Placer[i] /\ Invites(e, i)' = {m}
        BY <2>1, <4>1
      <4>3. call[e].id # i
        BY <4>2 DEF Registered, Sides
      <4> QED
        BY <1>1, <4>1, <4>2, <4>3
    <3> QED
      BY <3>1, <3>2
  <2> QED
    BY <2>1 DEF InvitedOnce
<1>5. EndsAreFinal'
  <2>1. ASSUME NEW e \in Devices, NEW k \in jobs'[e], k.op = "send", k.by \in Ending
        PROVE  /\ k.id \in placed' /\ call'[e].id # k.id /\ Invites(e, k.id)' = {}
               /\ e # Placer[k.id] => ~Fresh(k.id)'
    <3>1. k \in jobs[e]
      BY <1>1, <2>1 DEF Awaited, Ending
    <3>2. k.id \in Calls
      BY <3>1 DEF Registered, Typed, JobSet
    <3>3. /\ k.id \in placed /\ call[e].id # k.id /\ Invites(e, k.id) = {}
          /\ e # Placer[k.id] => ~Fresh(k.id)
      BY <2>1, <3>1 DEF Registered, EndsAreFinal
    <3>4. Invites(e, k.id)' = {}
      <4>1. CASE e = Placer[k.id]
        BY <3>2, <3>3, <4>1
      <4>2. CASE e # Placer[k.id]
        BY <1>0, <3>2, <3>3, <4>2
      <4> QED
        BY <4>1, <4>2
    <3> QED
      BY <1>1, <3>2, <3>3, <3>4
  <2> QED
    BY <2>1 DEF EndsAreFinal
<1>6. EngagedOnce'
  <2>1. ASSUME NEW e \in Devices, NEW k \in Calls, Engaged(e, k)'
        PROVE  ~Fresh(k)' /\ Invites(e, k)' = {} /\ ~(call'[e].status = "incoming" /\ call'[e].id = k)
    <3>1. Engaged(e, k)
      <4>1. ASSUME NEW m \in jobs'[e], m.id = k, Answering(m) \/ m.op = "connect" PROVE Engaged(e, k)
        <5>1. CASE m \in jobs[e]
          BY <4>1, <5>1 DEF Engaged
        <5>2. CASE m \notin jobs[e]
          <6>1. e = d /\ m.op = "send" /\ m.by = j.by /\ m.id = j.id
            BY <1>1, <4>1, <5>2
          <6>2. Answering(j)
            BY <1>1, <4>1, <6>1 DEF Answering
          <6> QED
            BY <4>1, <6>1, <6>2 DEF Engaged
        <5> QED
          BY <5>1, <5>2
      <4> QED
        BY <1>1, <2>1, <4>1 DEF Engaged
    <3>2. ~Fresh(k) /\ Invites(e, k) = {} /\ ~(call[e].status = "incoming" /\ call[e].id = k)
      BY <3>1 DEF Registered, EngagedOnce
    <3> QED
      BY <1>0, <1>1, <3>2
  <2> QED
    BY <2>1 DEF EngagedOnce
<1> QED
  BY <1>2, <1>3, <1>4, <1>5, <1>6

\* One signal more at the end of what is on its way.
LEMMA WireGrows ==
  ASSUME Typed, NEW e \in Devices, NEW s \in SignalSet, down'[e] = Append(down[e], s)
  PROVE  /\ Len(down'[e]) = Len(down[e]) + 1 /\ Len(down[e]) \in Nat
         /\ \A k \in 1..Len(down[e]) : down'[e][k] = down[e][k] /\ k \in 1..Len(down'[e])
         /\ down'[e][Len(down[e]) + 1] = s
         /\ \A k \in 1..Len(down'[e]) : k \in 1..Len(down[e]) \/ k = Len(down[e]) + 1
<1>1. down[e] \in Seq(SignalSet)
  BY DEF Typed
<1> QED
  BY <1>1

LEMMA InvitesStay ==
  ASSUME Typed, NEW e \in Devices, NEW s \in SignalSet, down'[e] = Append(down[e], s),
         NEW i \in Calls, s.kind # "INVITE" \/ s.id # i
  PROVE  Invites(e, i)' = Invites(e, i)
<1>1. ASSUME NEW k PROVE k \in Invites(e, i)' <=> k \in Invites(e, i)
  BY WireGrows DEF Invites
<1> QED
  BY <1>1 DEF Invites

LEMMA InviteComes ==
  ASSUME Typed, NEW e \in Devices, NEW s \in SignalSet, down'[e] = Append(down[e], s),
         s.kind = "INVITE", Invites(e, s.id) = {}
  PROVE  \E m : Invites(e, s.id)' = {m}
<1>1. PICK n : n = Len(down[e]) + 1
  OBVIOUS
<1>2. ASSUME NEW k PROVE k \in Invites(e, s.id)' <=> k = n
  BY <1>1, WireGrows DEF Invites
<1>3. Invites(e, s.id)' = {n}
  BY <1>2 DEF Invites
<1> QED
  BY <1>3

\* What route_call() does with all but an INVITE.
Answered(d, i) == d \in reg[i].ringing /\ reg'[i].callee = d /\ reg'[i].up /\ reg'[i].ringing = {}
Forwards(d, i, e, s) ==
  /\ s \in SignalSet /\ s.kind # "INVITE" /\ s.id = i /\ down'[e] = Append(down[e], s)
  /\ s.kind = "ACCEPT" => e = Placer[i] /\ s = Signal("ACCEPT", i, d) /\ Answered(d, i)

RoutedTo(d, kind, i) ==
  /\ \A k \in Calls \ {i} : reg'[k] = reg[k]
  /\ \A e \in Devices : down'[e] = down[e] \/ (reg[i].up /\ \E s : Forwards(d, i, e, s))
  /\ \/ reg'[i] = reg[i]
     \/ reg[i].up /\ Answered(d, i)
     \/ /\ reg'[i].up = reg[i].up /\ reg'[i].callee = reg[i].callee
        /\ reg'[i].ringing \subseteq reg[i].ringing
     \/ /\ kind \in Ending /\ ~reg'[i].up /\ reg'[i].callee = None /\ reg'[i].ringing = {}
        /\ d = Placer[i] \/ d \in reg[i].ringing \/ d = reg[i].callee

LEMMA SignalForwarded ==
  ASSUME NEW d \in Devices, NEW i \in Calls, NEW e \in Devices, NEW kind \in Kinds \ {"INVITE", "ACCEPT"},
         down'[e] = Append(down[e], Signal(kind, i, d))
  PROVE  \E s : Forwards(d, i, e, s)
<1>1. PICK s : s = Signal(kind, i, d)
  OBVIOUS
<1>2. s \in SignalSet /\ s.kind = kind /\ s.id = i
  BY <1>1 DEF Signal, SignalSet
<1>3. Forwards(d, i, e, s)
  BY <1>1, <1>2 DEF Forwards
<1> QED
  BY <1>3

LEMMA AcceptForwarded ==
  ASSUME NEW d \in Devices, NEW i \in Calls, NEW e \in Devices, Answered(d, i), e = Placer[i],
         down'[e] = Append(down[e], Signal("ACCEPT", i, d))
  PROVE  \E s : Forwards(d, i, e, s)
<1>1. PICK s : s = Signal("ACCEPT", i, d)
  OBVIOUS
<1>2. s \in SignalSet /\ s.kind = "ACCEPT" /\ s.id = i
  BY <1>1 DEF Signal, SignalSet, Kinds
<1>3. Forwards(d, i, e, s)
  BY <1>1, <1>2 DEF Forwards
<1> QED
  BY <1>3

LEMMA ToForwards ==
  ASSUME NEW d \in Devices, NEW i \in Calls, NEW ds, NEW kind \in Kinds \ {"INVITE", "ACCEPT"},
         To(ds, Signal(kind, i, d)), reg[i].up
  PROVE  \A e \in Devices : down'[e] = down[e] \/ (reg[i].up /\ \E s : Forwards(d, i, e, s))
<1>1. ASSUME NEW e \in Devices
      PROVE  down'[e] = down[e] \/ (reg[i].up /\ \E s : Forwards(d, i, e, s))
  <2>1. down'[e] = down[e] \/ down'[e] = Append(down[e], Signal(kind, i, d))
    BY DEF To
  <2> QED
    BY <2>1, SignalForwarded
<1> QED
  BY <1>1

LEMMA GoneFacts ==
  ASSUME Typed, NEW i \in Calls, Gone(i)
  PROVE  /\ ~reg'[i].up /\ reg'[i].callee = None /\ reg'[i].ringing = {}
         /\ \A k \in Calls \ {i} : reg'[k] = reg[k]
BY DEF Gone, Typed

LEMMA Routed ==
  ASSUME Typed, NEW d \in Devices, NEW i \in Calls, NEW kind, kind # "INVITE", Route(d, kind, i)
  PROVE  RoutedTo(d, kind, i)
<1>1. CASE Drops
  BY <1>1 DEF Drops, RoutedTo
<1>2. CASE reg[i].up /\ d = Placer[i] /\ ByCaller(d, kind, i) /\ ~Drops
  <2>1. /\ kind \in {"CANCEL", "HANGUP"} /\ Gone(i)
        /\ To(IF reg[i].callee # None THEN {reg[i].callee} ELSE reg[i].ringing, Signal(kind, i, d))
    BY <1>2 DEF ByCaller
  <2>2. kind \in Kinds \ {"INVITE", "ACCEPT"} /\ kind \in Ending
    BY <2>1 DEF Kinds, Ending
  <2>3. \A e \in Devices : down'[e] = down[e] \/ (reg[i].up /\ \E s : Forwards(d, i, e, s))
    BY <1>2, <2>1, <2>2, ToForwards
  <2> QED
    BY <1>2, <2>1, <2>2, <2>3, GoneFacts DEF RoutedTo
<1>3. CASE reg[i].up /\ d \in reg[i].ringing /\ ByRinging(d, kind, i) /\ ~Drops
  <2> DEFINE others == reg[i].ringing \ {d}
             Both(k) == down' = [e \in Devices |->
                   IF e = Placer[i] THEN Append(down[e], Signal(k, i, d))
                   ELSE IF e \in others THEN Append(down[e], Signal("ELSEWHERE", i, d))
                   ELSE down[e]]
  <2>1. CASE kind = "BUSY" /\ others = {}
    <3>1. To({Placer[i]}, Signal("BUSY", i, d)) /\ Gone(i)
      BY <1>3, <2>1 DEF ByRinging
    <3>2. \A e \in Devices : down'[e] = down[e] \/ (reg[i].up /\ \E s : Forwards(d, i, e, s))
      BY <1>3, <3>1, ToForwards DEF Kinds
    <3> QED
      BY <1>3, <2>1, <3>1, <3>2, GoneFacts DEF RoutedTo, Ending
  <2>2. CASE kind = "BUSY" /\ others # {}
    <3>1. reg' = [reg EXCEPT ![i].ringing = others] /\ down' = down
      BY <1>3, <2>2 DEF ByRinging
    <3>2. /\ reg'[i].up = reg[i].up /\ reg'[i].callee = reg[i].callee /\ reg'[i].ringing = others
          /\ \A k \in Calls \ {i} : reg'[k] = reg[k]
      BY <3>1 DEF Typed, Entries
    <3> QED
      BY <3>1, <3>2 DEF RoutedTo
  <2>3. CASE kind = "ACCEPT"
    <3>1. Both("ACCEPT") /\ reg' = [reg EXCEPT ![i].callee = d, ![i].ringing = {}]
      BY <1>3, <2>3 DEF ByRinging
    <3>2. /\ reg'[i].up = reg[i].up /\ reg'[i].callee = d /\ reg'[i].ringing = {}
          /\ \A k \in Calls \ {i} : reg'[k] = reg[k]
      BY <3>1 DEF Typed, Entries
    <3>3. Answered(d, i)
      BY <1>3, <3>2 DEF Answered
    <3>4. ASSUME NEW e \in Devices
          PROVE  down'[e] = down[e] \/ \E s : Forwards(d, i, e, s)
      <4>1. \/ down'[e] = down[e] \/ down'[e] = Append(down[e], Signal("ELSEWHERE", i, d))
            \/ e = Placer[i] /\ down'[e] = Append(down[e], Signal("ACCEPT", i, d))
        BY <3>1
      <4> QED
        BY <3>3, <4>1, SignalForwarded, AcceptForwarded DEF Kinds
    <3> QED
      BY <1>3, <3>2, <3>3, <3>4 DEF RoutedTo
  <2>4. CASE kind \in {"REJECT", "HANGUP"}
    <3>1. Both(kind) /\ Gone(i)
      BY <1>3, <2>4 DEF ByRinging
    <3>2. kind \in Kinds \ {"INVITE", "ACCEPT"} /\ kind \in Ending
      BY <2>4 DEF Kinds, Ending
    <3>3. ASSUME NEW e \in Devices
          PROVE  down'[e] = down[e] \/ \E s : Forwards(d, i, e, s)
      <4>1. \/ down'[e] = down[e] \/ down'[e] = Append(down[e], Signal("ELSEWHERE", i, d))
            \/ down'[e] = Append(down[e], Signal(kind, i, d))
        BY <3>1
      <4> QED
        BY <3>2, <4>1, SignalForwarded DEF Kinds
    <3> QED
      BY <1>3, <3>1, <3>2, <3>3, GoneFacts DEF RoutedTo
  <2> QED
    BY <1>3, <2>1, <2>2, <2>3, <2>4 DEF ByRinging
<1>4. CASE reg[i].up /\ d = reg[i].callee /\ ByCallee(d, kind, i) /\ ~Drops
  <2>1. kind \in {"REJECT", "HANGUP"} /\ Gone(i) /\ To({Placer[i]}, Signal(kind, i, d))
    BY <1>4 DEF ByCallee
  <2>2. kind \in Kinds \ {"INVITE", "ACCEPT"} /\ kind \in Ending
    BY <2>1 DEF Kinds, Ending
  <2>3. \A e \in Devices : down'[e] = down[e] \/ (reg[i].up /\ \E s : Forwards(d, i, e, s))
    BY <1>4, <2>1, <2>2, ToForwards
  <2> QED
    BY <1>4, <2>1, <2>2, <2>3, GoneFacts DEF RoutedTo
<1>5. CASE reg[i].up /\ To({d}, Signal("ELSEWHERE", i, d)) /\ UNCHANGED reg
  <2>1. \A e \in Devices : down'[e] = down[e] \/ (reg[i].up /\ \E s : Forwards(d, i, e, s))
    BY <1>5, ToForwards DEF Kinds
  <2> QED
    BY <1>5, <2>1 DEF RoutedTo
<1> QED
  BY <1>1, <1>2, <1>3, <1>4, <1>5 DEF Route

LEMMA RingsKeeps ==
  ASSUME Registered, Typed', NEW d \in Devices, NEW j \in jobs[d], SignalSent(d, j), j.by = "INVITE"
  PROVE  Registered'
<1>1. /\ j.op = "send" /\ j.at = "begin" /\ j.id \in Calls /\ Rings(d, j.id)
      /\ UNCHANGED <<call, active, events, placed>>
      /\ \A k \in Calls : Fresh(k)' => Fresh(k)
      /\ ~Fresh(j.id)'
  <2>1. /\ j.op = "send" /\ j.at = "begin" /\ j.id \in Calls /\ Route(d, j.by, j.id)
        /\ UNCHANGED <<call, active, events, placed>>
        /\ \A k \in Calls : Fresh(k)' => Fresh(k)
        /\ ~Fresh(j.id)'
    BY SentJobs, Zenon
  <2>2. Rings(d, j.id)
    BY <2>1, Zenon DEF Route
  <2> QED
    BY <2>1, <2>2
<1>2. PICK i \in Calls : i = j.id
  BY <1>1
<1>3. IsToken(j) /\ Placer[i] = d /\ Fresh(i)
  BY <1>1, <1>2, Constants DEF IsToken, Fresh, Registered, Tokens
<1>4. ~reg[i].up /\ \A e \in Devices : Invites(e, i) = {} /\ call[e].id = i => e = d
  BY <1>3 DEF Registered, FreshIsUntouched, Sides
<1>5. PICK s : s = Signal("INVITE", i, d)
  OBVIOUS
<1>6. s \in SignalSet /\ s.kind = "INVITE" /\ s.id = i
  BY <1>5 DEF Signal, SignalSet, Kinds
<1>7. To(Devices \ Devs(Owner[d]), s)
      /\ reg' = [reg EXCEPT ![i] = [ringing |-> Devices \ Devs(Owner[d]), callee |-> None, up |-> TRUE]]
  BY <1>1, <1>2, <1>4, <1>5 DEF Rings
<1>8. /\ reg'[i].callee = None /\ \A k \in Calls \ {i} : reg'[k] = reg[k]
  BY <1>7 DEF Registered, Typed
<1>9. \A e \in Devices : down'[e] = down[e] \/ (e # d /\ down'[e] = Append(down[e], s))
  BY <1>7 DEF To, Devs
<1>10. \A e \in Devices : Invites(e, i) = {}
  BY <1>3 DEF Registered, FreshIsUntouched, Invites
<1>11. ASSUME NEW e \in Devices, NEW k \in Calls, k # i PROVE Invites(e, k)' = Invites(e, k)
  <2>1. CASE down'[e] = down[e]
    BY <2>1 DEF Invites
  <2>2. CASE down'[e] = Append(down[e], s)
    BY <1>6, <1>11, <2>2, InvitesStay DEF Registered
  <2> QED
    BY <1>9, <2>1, <2>2
<1>12. ASSUME NEW e \in Devices
       PROVE  Invites(e, i)' = {} \/ (Fresh(i) /\ e # Placer[i] /\ \E m : Invites(e, i)' = {m})
  <2>1. CASE down'[e] = down[e]
    <3>1. Invites(e, i)' = Invites(e, i)
      BY <2>1 DEF Invites
    <3> QED
      BY <1>10, <3>1
  <2>2. CASE e # d /\ down'[e] = Append(down[e], s)
    <3>1. Invites(e, s.id) = {}
      BY <1>6, <1>10
    <3>2. \E m : Invites(e, s.id)' = {m}
      BY <1>6, <2>2, <3>1, InviteComes DEF Registered
    <3>3. Invites(e, s.id)' = Invites(e, i)'
      BY <1>6
    <3> QED
      BY <1>3, <2>2, <3>2, <3>3
  <2> QED
    BY <1>9, <2>1, <2>2
<1>13. Tokens' /\ Sides' /\ InvitedOnce' /\ EndsAreFinal' /\ EngagedOnce'
  BY <1>2, <1>10, <1>11, <1>12, SentKeeps
<1>14. FreshIsUntouched'
  <2>1. ASSUME NEW k \in Calls, Fresh(k)'
        PROVE  /\ reg'[k] = [ringing |-> {}, callee |-> None, up |-> FALSE]
               /\ \A e \in Devices : \A m \in 1..Len(down'[e]) : down'[e][m].id # k
    <3>1. k # i /\ Fresh(k)
      BY <1>1, <1>2, <2>1
    <3>2. reg'[k] = [ringing |-> {}, callee |-> None, up |-> FALSE]
      BY <1>8, <3>1 DEF Registered, FreshIsUntouched
    <3>3. ASSUME NEW e \in Devices, NEW m \in 1..Len(down'[e]) PROVE down'[e][m].id # k
      <4>1. \A n \in 1..Len(down[e]) : down[e][n].id # k
        BY <3>1 DEF Registered, FreshIsUntouched
      <4>2. CASE down'[e] = down[e]
        BY <3>3, <4>1, <4>2
      <4>3. CASE down'[e] = Append(down[e], s)
        BY <1>6, <3>1, <3>3, <4>1, <4>3, WireGrows DEF Registered
      <4> QED
        BY <1>9, <4>2, <4>3
    <3> QED
      BY <3>2, <3>3
  <2> QED
    BY <2>1 DEF FreshIsUntouched
<1>15. AnsweredOnce'
  BY <1>8 DEF AnsweredOnce, Registered
<1>16. Answers'
  <2>1. ASSUME NEW k \in Calls, NEW e \in Devices, AnsweredBy(k, e)'
        PROVE  /\ ~Fresh(k)'
               /\ reg'[k].up => reg'[k].callee = e
               /\ ~reg'[k].up => call'[Placer[k]].id # k \/ (call'[e].id # k /\ Invites(e, k)' = {})
    <3>1. AnsweredBy(k, e)
      <4>1. ASSUME OnWire(Placer[k], Signal("ACCEPT", k, e))' PROVE OnWire(Placer[k], Signal("ACCEPT", k, e))
        <5>1. Signal("ACCEPT", k, e).kind = "ACCEPT"
          BY DEF Signal
        <5>2. PICK p \in Devices : p = Placer[k]
          BY Constants
        <5>3. PICK m \in 1..Len(down'[p]) : down'[p][m] = Signal("ACCEPT", k, e)
          BY <4>1, <5>2 DEF OnWire
        <5>4. CASE down'[p] = Append(down[p], s)
          BY <1>6, <5>1, <5>2, <5>3, <5>4, WireGrows DEF OnWire, Registered
        <5> QED
          BY <1>9, <5>2, <5>3, <5>4 DEF OnWire
      <4>2. \A m \in jobs'[Placer[k]] : m.op = "connect" => m \in jobs[Placer[k]]
        BY SentJobs, Constants
      <4> QED
        BY <1>1, <2>1, <4>1, <4>2 DEF AnsweredBy
    <3>2. /\ ~Fresh(k) /\ (reg[k].up => reg[k].callee = e)
          /\ ~reg[k].up => call[Placer[k]].id # k \/ (call[e].id # k /\ Invites(e, k) = {})
      BY <3>1 DEF Registered, Answers
    <3>3. k # i
      BY <1>3, <3>2
    <3> QED
      BY <1>1, <1>8, <1>11, <3>2, <3>3
  <2> QED
    BY <2>1 DEF Answers
<1> QED
  BY <1>13, <1>14, <1>15, <1>16 DEF Registered

LEMMA SignalSentKeeps ==
  ASSUME Registered, Typed', NEW d \in Devices, NEW j \in jobs[d], SignalSent(d, j)
  PROVE  Registered'
<1>1. CASE j.by = "INVITE"
  BY <1>1, RingsKeeps
<1>2. CASE j.by # "INVITE"
  <2>1. /\ j.op = "send" /\ j.at = "begin" /\ j.id \in Calls /\ Route(d, j.by, j.id)
        /\ UNCHANGED <<call, active, events, placed>>
        /\ \A k \in Calls : Fresh(k)' => Fresh(k)
    BY SentJobs
  <2>2. PICK i \in Calls : i = j.id
    BY <2>1
  <2>3. RoutedTo(d, j.by, i)
    BY <1>2, <2>1, <2>2, Routed DEF Registered
  <2>4. reg[i].up => ~Fresh(i)
    BY DEF Registered, FreshIsUntouched
  <2>5. ASSUME NEW e \in Devices, NEW k \in Calls PROVE Invites(e, k)' = Invites(e, k)
    <3>1. CASE down'[e] = down[e]
      BY <3>1 DEF Invites
    <3>2. CASE \E s : Forwards(d, i, e, s)
      BY <3>2, InvitesStay DEF Forwards, Registered
    <3> QED
      BY <2>3, <3>1, <3>2 DEF RoutedTo
  <2>6. Tokens' /\ Sides' /\ InvitedOnce' /\ EndsAreFinal' /\ EngagedOnce'
    BY <2>2, <2>5, SentKeeps, ZenonT(60)
  <2>7. FreshIsUntouched'
    <3>1. ASSUME NEW k \in Calls, Fresh(k)'
          PROVE  /\ reg'[k] = [ringing |-> {}, callee |-> None, up |-> FALSE]
                 /\ \A e \in Devices : \A m \in 1..Len(down'[e]) : down'[e][m].id # k
      <4>1. /\ Fresh(k) /\ reg[k] = [ringing |-> {}, callee |-> None, up |-> FALSE]
            /\ \A e \in Devices : \A n \in 1..Len(down[e]) : down[e][n].id # k
        BY <2>1, <3>1 DEF Registered, FreshIsUntouched
      <4>2. ASSUME k = i PROVE reg'[k] = reg[k]
        <5>1. ~reg[i].up /\ reg[i].ringing = {} /\ reg[i].callee = None
          BY <4>1, <4>2
        <5>2. reg'[i] \in Entries /\ reg[i] \in Entries
          BY DEF Registered, Typed
        <5>3. ~Answered(d, i)
          BY <5>1 DEF Answered
        <5>4. /\ ~reg'[i].up /\ reg'[i].ringing = {} /\ reg'[i].callee = None
          BY <2>3, <5>1, <5>3 DEF RoutedTo
        <5> QED
          BY <4>2, <5>1, <5>2, <5>4 DEF Entries
      <4>3. reg'[k] = reg[k]
        BY <2>3, <4>2 DEF RoutedTo
      <4>4. ASSUME NEW e \in Devices, NEW m \in 1..Len(down'[e]) PROVE down'[e][m].id # k
        <5>1. CASE down'[e] = down[e]
          BY <4>1, <4>4, <5>1
        <5>2. CASE reg[i].up /\ \E s : Forwards(d, i, e, s)
          <6>1. PICK s : Forwards(d, i, e, s)
            BY <5>2
          <6>2. k # i
            BY <2>4, <4>1, <5>2
          <6> QED
            BY <4>1, <4>4, <6>1, <6>2, WireGrows DEF Forwards, Registered
        <5> QED
          BY <2>3, <5>1, <5>2 DEF RoutedTo
      <4> QED
        BY <4>1, <4>3, <4>4
    <3> QED
      BY <3>1 DEF FreshIsUntouched
  <2>8. AnsweredOnce'
    <3>1. reg'[i].callee # None => reg'[i].ringing = {}
      BY <2>3, Constants DEF RoutedTo, Answered, Registered, AnsweredOnce
    <3> QED
      BY <2>3, <3>1 DEF RoutedTo, Registered, AnsweredOnce
  <2>9. Answers'
    <3>1. ASSUME NEW k \in Calls, NEW e \in Devices, AnsweredBy(k, e)'
          PROVE  AnsweredBy(k, e) \/ (k = i /\ e = d /\ reg[i].up /\ Answered(d, i))
      <4>1. ASSUME OnWire(Placer[k], Signal("ACCEPT", k, e))'
            PROVE  OnWire(Placer[k], Signal("ACCEPT", k, e)) \/ (k = i /\ e = d /\ reg[i].up /\ Answered(d, i))
        <5>1. PICK a : a = Signal("ACCEPT", k, e)
          OBVIOUS
        <5>2. a.kind = "ACCEPT" /\ a.id = k /\ a.dev = e
          BY <5>1 DEF Signal
        <5>3. PICK p \in Devices : p = Placer[k]
          BY Constants
        <5>4. PICK m \in 1..Len(down'[p]) : down'[p][m] = a
          BY <4>1, <5>1, <5>3 DEF OnWire
        <5>5. CASE down'[p] = down[p]
          BY <5>1, <5>3, <5>4, <5>5 DEF OnWire
        <5>6. CASE reg[i].up /\ \E s : Forwards(d, i, p, s)
          <6>1. PICK s : Forwards(d, i, p, s)
            BY <5>6
          <6>2. (m \in 1..Len(down[p]) /\ down[p][m] = a) \/ s = a
            BY <5>4, <6>1, WireGrows DEF Forwards, Registered
          <6>3. ASSUME s = a PROVE k = i /\ e = d /\ Answered(d, i)
            BY <5>2, <6>1, <6>3 DEF Forwards, Signal
          <6> QED
            BY <5>1, <5>3, <5>6, <6>2, <6>3 DEF OnWire
        <5> QED
          BY <2>3, <5>5, <5>6 DEF RoutedTo
      <4>2. \A m \in jobs'[Placer[k]] : m.op = "connect" => m \in jobs[Placer[k]]
        BY SentJobs, Constants
      <4> QED
        BY <2>1, <3>1, <4>1, <4>2 DEF AnsweredBy
    <3>2. ASSUME NEW k \in Calls, NEW e \in Devices, AnsweredBy(k, e)'
          PROVE  /\ ~Fresh(k)'
                 /\ reg'[k].up => reg'[k].callee = e
                 /\ ~reg'[k].up => call'[Placer[k]].id # k \/ (call'[e].id # k /\ Invites(e, k)' = {})
      <4>1. CASE k = i /\ e = d /\ reg[i].up /\ Answered(d, i)
        BY <2>1, <2>4, <4>1 DEF Answered
      <4>2. CASE AnsweredBy(k, e)
        <5>1. /\ ~Fresh(k) /\ (reg[k].up => reg[k].callee = e)
              /\ ~reg[k].up => call[Placer[k]].id # k \/ (call[e].id # k /\ Invites(e, k) = {})
          BY <4>2 DEF Registered, Answers
        <5>2. CASE reg'[k] = reg[k]
          BY <2>1, <2>5, <5>1, <5>2
        <5>3. CASE k = i /\ reg[i].up
          <6>1. reg[i].callee = e /\ reg[i].ringing = {}
            BY <5>1, <5>3, Constants DEF Registered, AnsweredOnce
          <6>2. CASE reg'[i].up = reg[i].up /\ reg'[i].callee = reg[i].callee
            BY <2>1, <5>1, <5>3, <6>1, <6>2
          <6>3. CASE j.by \in Ending /\ ~reg'[i].up /\ (d = Placer[i] \/ d = e)
            <7>1. call[d].id # i /\ Invites(d, i) = {}
              BY <2>1, <2>2, <6>3 DEF Registered, EndsAreFinal
            <7> QED
              BY <2>1, <2>5, <5>1, <5>3, <6>3, <7>1
          <6> QED
            BY <2>3, <5>2, <5>3, <6>1, <6>2, <6>3 DEF RoutedTo, Answered
        <5>4. CASE k = i /\ ~reg[i].up
          <6>1. ~reg'[i].up
            BY <2>3, <5>4 DEF RoutedTo
          <6> QED
            BY <2>1, <2>5, <5>1, <5>4, <6>1
        <5> QED
          BY <2>3, <5>2, <5>3, <5>4 DEF RoutedTo
      <4> QED
        BY <3>1, <3>2, <4>1, <4>2
    <3> QED
      BY <3>2 DEF Answers
  <2> QED
    BY <2>6, <2>7, <2>8, <2>9 DEF Registered
<1> QED
  BY <1>1, <1>2

-----------------------------------------------------------------------------
(* The invariant, and the calls talked in.                                 *)

LEMMA InitRegistered == Init => Registered
<1> SUFFICES ASSUME Init PROVE Registered
  OBVIOUS
<1>1. /\ \A d \in Devices : call[d].id = None /\ jobs[d] = {} /\ events[d] = {} /\ down[d] = <<>>
                           /\ active[d].id = None
      /\ placed = {} /\ reg = [i \in Calls |-> [ringing |-> {}, callee |-> None, up |-> FALSE]]
  BY DEF Init, Idle, NoCall
<1>2. \A d \in Devices : \A i \in Calls : Invites(d, i) = {} /\ call[d].id # i
  BY <1>1, Constants DEF Invites
<1>3. \A d \in Devices : \A i \in Calls : ~Engaged(d, i)
  BY <1>1, Constants DEF Engaged
<1>4. \A i \in Calls : \A e \in Devices : ~AnsweredBy(i, e)
  BY <1>1, Constants DEF AnsweredBy, OnWire
<1>5. Typed
  BY InitTyped
<1> QED
  BY <1>1, <1>2, <1>3, <1>4, <1>5
     DEF Registered, Tokens, FreshIsUntouched, Sides, InvitedOnce, EndsAreFinal, AnsweredOnce, Answers, EngagedOnce

LEMMA NextRegistered == Registered /\ [Next]_vars => Registered'
<1> SUFFICES ASSUME Registered, [Next]_vars PROVE Registered'
  OBVIOUS
<1>1. Typed'
  BY NextTyped DEF Registered
<1>2. CASE UNCHANGED vars
  <2>1. UNCHANGED <<call, placed, jobs, active, events, reg, down>>
    BY <1>2, Zenon DEF vars
  <2>2. Tokens' /\ Sides'
    BY <2>1 DEF Registered, Tokens, Sides, Fresh
  <2>3. FreshIsUntouched'
    BY <2>1 DEF Registered, FreshIsUntouched, Fresh
  <2>4. InvitedOnce' /\ EndsAreFinal'
    BY <2>1 DEF Registered, InvitedOnce, EndsAreFinal, Fresh, Invites
  <2>5. AnsweredOnce'
    BY <2>1 DEF Registered, AnsweredOnce
  <2>6. Answers'
    BY <2>1 DEF Registered, Answers, AnsweredBy, OnWire, Fresh, Invites
  <2>7. EngagedOnce'
    BY <2>1 DEF Registered, EngagedOnce, Engaged, Fresh, Invites
  <2> QED
    BY <1>1, <2>2, <2>3, <2>4, <2>5, <2>6, <2>7 DEF Registered
<1>3. CASE Next
  <2>1. PICK d \in Devices : User(d) \/ Timers(d) \/ Runs(d) \/ Loses(d)
    BY <1>3 DEF Next
  <2>2. ASSUME Quiet(d) PROVE Registered'
    BY <1>1, <2>2, QuietKeeps
  <2>3. CASE User(d)
    BY <1>1, <2>2, <2>3, RendererQuiet, StartCallKeeps DEF User
  <2>4. CASE Timers(d)
    BY <2>2, <2>4, RendererQuiet, NativeQuiet DEF Timers
  <2>5. CASE Runs(d)
    BY <1>1, <2>2, <2>5, OnSignalQuiet, RendererQuiet, NativeQuiet, SignalSentKeeps DEF Runs
  <2>6. CASE Loses(d)
    BY <2>2, <2>6, NativeQuiet DEF Loses
  <2> QED
    BY <2>1, <2>3, <2>4, <2>5, <2>6
<1> QED
  BY <1>2, <1>3

\* Whoever talks with the caller answered the call: the server has that device
\* as the callee, or has ended the call for one of the two, which has left it.
LEMMA RegisteredTalkers == Registered => TalkersAreRegistered
<1> SUFFICES ASSUME Registered, NEW i \in Calls, NEW e \in Devices,
                    Talking(i, Placer[i], e), call[Placer[i]].id = i, call[e].id = i
             PROVE  reg[i].up /\ reg[i].callee = e
  BY DEF TalkersAreRegistered
<1>1. AnsweredBy(i, e)
  BY DEF Talking, AnsweredBy
<1> QED
  BY <1>1 DEF Registered, Answers

(* route_call() and endCall(): while the caller and the device that        *)
(* answered talk and neither has left, the server holds their call with    *)
(* that device as its callee, whatever the callee's other devices send,    *)
(* whatever is lost, for any number of devices and calls.                  *)
THEOREM TalkersHaveTheirCall == Spec => []TalkersAreRegistered
<1>1. Spec => []Registered
  BY InitRegistered, NextRegistered, PTL DEF Spec
<1> QED
  BY <1>1, RegisteredTalkers, PTL

-----------------------------------------------------------------------------
(* IdleMeansFree: sockets and engine are accounted for on every way out.   *)

\* What is held only shrinks, and no end is lost.
LEMMA KeepsReleased ==
  ASSUME NEW d \in Devices, Released(d), call'[d] = call[d],
         pending'[d] # None \/ active'[d] # NoCall => pending[d] # None \/ active[d] # NoCall,
         \A j \in jobs[d] : ToBeEnded(j) => j \in jobs'[d]
  PROVE  Released(d)'
BY DEF Released

LEMMA EndsCallReleases ==
  ASSUME Typed, NEW d \in Devices, Released(d), NEW gone, NEW notify, EndsCall(d, gone, notify),
         \A j \in gone : ~ToBeEnded(j), UNCHANGED <<pending, active>>
  PROVE  Released(d)'
<1>1. CASE call[d].status = "idle"
  <2>1. call' = call /\ jobs' = [jobs EXCEPT ![d] = (@ \ gone) \cup {}]
    BY <1>1 DEF EndsCall, Gives
  <2>2. \A j \in jobs[d] : ToBeEnded(j) => j \in jobs'[d]
    BY <2>1 DEF Typed
  <2> QED
    BY <2>1, <2>2 DEF Released
<1>2. CASE call[d].status # "idle"
  <2>1. \E x : jobs'[d] = (jobs[d] \ gone) \cup ({EndJob(call[d].id, "ended")} \cup x)
    BY <1>2 DEF EndsCall, Gives, Typed
  <2>2. EndJob(call[d].id, "ended") \in jobs'[d] /\ ToBeEnded(EndJob(call[d].id, "ended"))
    BY <2>1 DEF EndJob, Job, ToBeEnded
  <2> QED
    BY <2>2 DEF Released
<1> QED
  BY <1>1, <1>2

LEMMA OnSignalReleases ==
  ASSUME Typed, NEW d \in Devices, Released(d), OnSignal(d)
  PROVE  Released(d)'
<1> DEFINE s == Head(down[d])
<1> HIDE DEF s
<1>1. UNCHANGED <<pending, active>>
  BY DEF OnSignal
<1>2. OnInvite(d, s) \/ (OnAccept(d, s) /\ call[d].id = s.id) \/ (Withdrawn(d) /\ call[d].status = "incoming")
      \/ UNCHANGED <<call, jobs>> \/ \E notify \in BOOLEAN : EndsCall(d, {}, notify)
  BY DEF OnSignal, OnElsewhere, s
<1>3. ASSUME NEW notify, EndsCall(d, {}, notify) PROVE Released(d)'
  <2> DEFINE no == {}
  <2>1. \A j \in no : ~ToBeEnded(j)
    OBVIOUS
  <2>2. EndsCall(d, no, notify)
    BY <1>3
  <2> HIDE DEF no
  <2> QED
    BY <1>1, <2>1, <2>2, EndsCallReleases
<1>4. CASE UNCHANGED <<call, jobs>>
  BY <1>1, <1>4 DEF Released
<1>5. CASE Withdrawn(d) /\ call[d].status = "incoming"
  BY <1>1, <1>5 DEF Withdrawn, Released
<1>6. CASE OnAccept(d, s)
  <2>1. CASE call[d].status = "outgoing"
    BY <1>1, <1>6, <2>1 DEF OnAccept, Becomes, Released, Typed
  <2> QED
    BY <1>4, <1>6, <2>1 DEF OnAccept
<1>7. CASE OnInvite(d, s)
  <2>1. CASE call[d].status = "outgoing" /\ Owner[d] < Owner[s.dev]
    BY <1>4, <1>7, <2>1 DEF OnInvite
  <2>2. CASE call[d].status = "outgoing" /\ ~(Owner[d] < Owner[s.dev])
    BY <1>7, <2>2 DEF OnInvite, Accepts, Becomes, Released, Typed
  <2>3. CASE call[d].status = "idle"
    BY <1>1, <1>7, <2>3 DEF OnInvite, Released
  <2>4. CASE call[d].status \notin {"outgoing", "idle"}
    <3>1. call' = call /\ Gives(d, {}, {Sends("BUSY", s.id)})
      BY <1>7, <2>4 DEF OnInvite
    <3>2. \A j \in jobs[d] : j \in jobs'[d]
      BY <3>1 DEF Gives, Typed
    <3> QED
      BY <1>1, <3>1, <3>2 DEF Released
  <2> QED
    BY <2>1, <2>2, <2>3, <2>4
<1> QED
  BY <1>2, <1>3, <1>4, <1>5, <1>6, <1>7

LEMMA StepReleases ==
  ASSUME Registered, NEW d \in Devices, Released(d), User(d) \/ Timers(d) \/ Runs(d) \/ Loses(d)
  PROVE  Released(d)'
<1>0. Typed
  BY DEF Registered
<1>1. CASE AcceptCall(d)
  BY <1>0, <1>1 DEF AcceptCall, Accepts, Becomes, Released, Typed
<1>2. CASE HangUp(d) \/ RingTimeout(d)
  <2> DEFINE no == {}
  <2>1. EndsCall(d, no, TRUE) /\ \A j \in no : ~ToBeEnded(j)
    BY <1>2 DEF HangUp, RingTimeout
  <2>2. UNCHANGED <<pending, active>>
    BY <1>2 DEF HangUp, RingTimeout
  <2> HIDE DEF no
  <2> QED
    BY <2>1, <1>0, <2>2, EndsCallReleases
<1>3. CASE \E i \in Calls : StartCall(d, i)
  BY <1>0, <1>3 DEF StartCall, Becomes, Released, Typed
<1>4. CASE MissedTimeout(d)
  BY <1>4 DEF MissedTimeout, Released
<1>5. CASE PunchSucceeds(d) \/ PunchFails(d) \/ PeerLost(d)
  <2>1. UNCHANGED <<call, jobs, pending>> /\ active[d].phase # "none"
    BY <1>5 DEF PunchSucceeds, PunchFails, PeerLost, renderer
  <2>2. active[d] # NoCall
    BY <2>1 DEF NoCall
  <2> QED
    BY <2>1, <2>2 DEF Released
<1>6. CASE \E v \in events[d] : OnOutcome(d, v)
  <2>1. PICK v \in events[d] : OnOutcome(d, v)
    BY <1>6
  <2>2. UNCHANGED <<pending, active>>
    BY <2>1 DEF OnOutcome
  <2>3. CASE EndsCall(d, {}, TRUE)
    <3> DEFINE no == {}
    <3>1. EndsCall(d, no, TRUE) /\ \A j \in no : ~ToBeEnded(j)
      BY <2>3
    <3> HIDE DEF no
    <3> QED
      BY <2>2, <1>0, <3>1, EndsCallReleases
  <2>4. CASE UNCHANGED <<call, jobs>>
    BY <2>2, <2>4 DEF Released
  <2>5. CASE Becomes(d, "active", v.id, call[d].caller)
    BY <1>0, <2>5 DEF Becomes, Released, Typed
  <2> QED
    BY <2>1, <2>3, <2>4, <2>5 DEF OnOutcome
<1>7. ASSUME NEW j \in jobs[d], PrepareReturns(d, j) \/ ConnectFails(d, j) \/ SendReturns(d, j)
      PROVE Released(d)'
  <2>1. UNCHANGED <<pending, active>>
    BY <1>7 DEF PrepareReturns, ConnectFails, SendReturns, native
  <2> DEFINE done == {j}
  <2>2. CASE \E notify \in BOOLEAN : EndsCall(d, done, notify) /\ ~ToBeEnded(j)
    <3>1. \A k \in done : ~ToBeEnded(k)
      BY <2>2
    <3> HIDE DEF done
    <3> QED
      BY <2>1, <2>2, <1>0, <3>1, EndsCallReleases
  <2>3. CASE UNCHANGED call /\ ~ToBeEnded(j) /\ \E new : Gives(d, done, new)
    <3>1. \A k \in jobs[d] : ToBeEnded(k) => k \in jobs'[d]
      BY <1>0, <2>3 DEF Gives, Typed
    <3> QED
      BY <2>1, <2>3, <3>1 DEF Released
  <2>4. CASE Gives(d, done, {EndJob(j.id, "stale")})
    <3>1. EndJob(j.id, "stale") \in jobs'[d] /\ ToBeEnded(EndJob(j.id, "stale"))
      BY <1>0, <2>4 DEF Gives, Typed, EndJob, Job, ToBeEnded
    <3> QED
      BY <3>1 DEF Released
  <2>5. CASE j.op = "prepare" /\ call[d].id = j.id /\ UNCHANGED call
    <3>1. j.id \in Calls /\ j.by \in {"start", "accept"}
      BY <1>0, <2>5 DEF Typed, JobSet
    <3>2. call[d].status # "idle" /\ call[d] \in Calling
      BY <1>0, <2>5, <3>1, CallType
    <3>3. call[d].status # "incoming"
      <4>1. CASE j.by = "accept"
        <5>1. Engaged(d, j.id)
          BY <2>5, <4>1 DEF Engaged, Answering
        <5> QED
          BY <2>5, <3>1, <5>1 DEF Registered, EngagedOnce
      <4>2. CASE j.by = "start"
        <5>1. Placer[j.id] = d
          BY <2>5, <4>2 DEF Registered, Tokens, IsToken
        <5> QED
          BY <2>5, <3>1, <5>1 DEF Registered, Sides
      <4> QED
        BY <3>1, <4>1, <4>2
    <3> QED
      BY <2>5, <3>2, <3>3 DEF Released, Calling, Statuses
  <2> QED
    <3>1. CASE PrepareReturns(d, j)
      BY <2>2, <2>4, <2>5, <3>1 DEF PrepareReturns, ToBeEnded
    <3>2. CASE ConnectFails(d, j)
      BY <2>2, <3>2 DEF ConnectFails, ToBeEnded
    <3>3. CASE SendReturns(d, j)
      <4>1. j.op = "send" /\ j.at \in {"done", "failed"} /\ j.by \in {"INVITE", "ACCEPT"}
        BY <1>0, <3>3 DEF SendReturns, Typed, JobSet, Awaited
      <4> QED
        BY <2>2, <2>3, <3>3, <4>1 DEF SendReturns, ToBeEnded
    <3> QED
      BY <1>7, <3>1, <3>2, <3>3
<1>8. ASSUME NEW j \in jobs[d], PrepareBegins(d, j) \/ PrepareEnds(d, j) \/ Connect(d, j)
      PROVE Released(d)'
  <2>1. call' = call /\ j.id \in Calls /\ j \in JobSet
    BY <1>0, <1>8 DEF PrepareBegins, PrepareEnds, Connect, renderer, Typed, JobSet
  <2>2. ~ToBeEnded(j)
    BY <1>8 DEF PrepareBegins, PrepareEnds, Connect, ToBeEnded
  <2>3. \A k \in jobs[d] : k # j => k \in jobs'[d]
    BY <1>0, <1>8 DEF PrepareBegins, PrepareEnds, Connect, Step, Gives, Typed
  <2>4. CASE PrepareBegins(d, j)
    <3>1. active' = active /\ (pending' = pending \/ pending'[d] = None)
      BY <1>0, <2>4 DEF PrepareBegins, Held, Typed
    <3> QED
      BY <2>1, <2>2, <2>3, <3>1, KeepsReleased
  <2>5. CASE PrepareEnds(d, j)
    <3>1. CASE UNCHANGED <<pending, active>>
      BY <2>1, <2>2, <2>3, <3>1, KeepsReleased
    <3>2. CASE Step(d, j, "done")
      <4>1. [j EXCEPT !.at = "done"] \in jobs'[d]
        BY <1>0, <3>2 DEF Step, Typed
      <4>2. ToBeEnded([j EXCEPT !.at = "done"])
        BY <2>1, <2>5 DEF PrepareEnds, ToBeEnded, JobSet
      <4> QED
        BY <4>1, <4>2 DEF Released
    <3> QED
      BY <2>5, <3>1, <3>2 DEF PrepareEnds
  <2>6. CASE Connect(d, j)
    <3>1. CASE pending[d] = j.id
      <4>1. pending[d] # None
        BY <2>1, <3>1, Constants
      <4> QED
        BY <2>1, <2>2, <2>3, <4>1, KeepsReleased
    <3>2. CASE pending[d] # j.id
      <4>1. active' = active /\ (pending' = pending \/ pending'[d] = None)
        BY <1>0, <2>6, <3>2 DEF Connect, Held, native, Typed
      <4> QED
        BY <2>1, <2>2, <2>3, <4>1, KeepsReleased
    <3> QED
      BY <3>1, <3>2
  <2> QED
    BY <1>8, <2>4, <2>5, <2>6
<1>9. ASSUME NEW j \in jobs[d], CallEnd(d, j) PROVE Released(d)'
  <2>1. pending'[d] = None /\ active'[d] = NoCall
    BY <1>0, <1>9 DEF CallEnd, Held, Typed
  <2> QED
    BY <2>1 DEF Released
<1>10. ASSUME NEW j \in jobs[d], SignalSent(d, j) \/ SignalLost(d, j) PROVE Released(d)'
  <2>1. UNCHANGED <<call, pending, active>> /\ ~ToBeEnded(j)
    BY <1>10 DEF SignalSent, SignalLost, renderer, native, ToBeEnded
  <2>2. \A k \in jobs[d] : k # j => k \in jobs'[d]
    BY <1>0, <1>10 DEF SignalSent, SignalLost, Step, Gives, Typed
  <2> QED
    BY <2>1, <2>2, KeepsReleased
<1>11. CASE OnSignal(d)
  BY <1>0, <1>11, OnSignalReleases
<1> QED
  BY <1>1, <1>2, <1>3, <1>4, <1>5, <1>6, <1>7, <1>8, <1>9, <1>10, <1>11 DEF User, Timers, Runs, Loses

LEMMA NextReleases ==
  Registered /\ (\A d \in Devices : Released(d)) /\ [Next]_vars => (\A d \in Devices : Released(d))'
<1> SUFFICES ASSUME Registered, \A d \in Devices : Released(d), [Next]_vars, NEW e \in Devices
             PROVE  Released(e)'
  OBVIOUS
<1>1. CASE UNCHANGED vars
  BY <1>1 DEF vars, Released
<1>2. CASE Next
  <2>1. PICK d \in Devices : User(d) \/ Timers(d) \/ Runs(d) \/ Loses(d)
    BY <1>2 DEF Next
  <2>2. CASE e = d
    BY <2>1, <2>2, StepReleases
  <2>3. CASE e # d
    <3>1. Alike(e)
      BY <2>1, <2>3, StepAlone DEF Registered
    <3> QED
      BY <3>1, KeepsReleased DEF Alike
  <2> QED
    BY <2>2, <2>3
<1> QED
  BY <1>1, <1>2

LEMMA ReleasedIsFree == (\A d \in Devices : Released(d)) => IdleMeansFree
BY DEF Released, IdleMeansFree

(* endCall(), the stale continuations of startCall() and acceptCall(), the *)
(* glare: whatever overtakes what, a device in no call and with no command *)
(* under way holds neither sockets nor an engine (the microphone is off).  *)
THEOREM NothingHeldWhenIdle == Spec => []IdleMeansFree
<1>1. Init => \A d \in Devices : Released(d)
  BY DEF Init, Released
<1> DEFINE AllReleased == \A d \in Devices : Released(d)
<1>2. Registered /\ AllReleased /\ [Next]_vars => Registered' /\ AllReleased'
  BY NextRegistered, NextReleases
<1>3. Init => Registered /\ AllReleased
  BY <1>1, InitRegistered
<1>4. AllReleased => IdleMeansFree
  BY ReleasedIsFree
<1> HIDE DEF AllReleased
<1> QED
  BY <1>2, <1>3, <1>4, PTL DEF Spec

=============================================================================
