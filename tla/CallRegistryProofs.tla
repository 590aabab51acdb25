------------------------- MODULE CallRegistryProofs -------------------------
(***************************************************************************)
(* What holds of CallRegistry for every set of connections, accounts,      *)
(* devices and call ids.                                                   *)
(*                                                                         *)
(* First its invariants.  Then that it keeps CallPromise: every step of    *)
(* the registry is, for each call, a step the two accounts were promised,  *)
(* or none they can see.  Last what no step does: it leaves nobody ringing *)
(* without word, cuts nobody off, and sends nothing about an answered call *)
(* elsewhere.                                                              *)
(***************************************************************************)
EXTENDS CallRegistry, TLAPS

USE NoneAssumption, NoCallAssumption

-----------------------------------------------------------------------------
(* Lookups.                                                                *)

\* device_session_locked answers with a connection of the account on that
\* device, never the excepted one, or with nothing.
LEMMA DeviceSessionFact ==
    ASSUME TypeOK, NEW u \in Users, NEW d, NEW e
    PROVE  LET s == DeviceSession(u, d, e) IN
           /\ s = None \/ (s \in Sessions /\ s \in members[u] /\ s # e /\ device[s] = d)
           /\ s = None => \A t \in members[u] \ {e} : device[t] # d
<1> DEFINE found == {s \in members[u] \ {e} : device[s] = d}
<1>1. members[u] \subseteq Sessions
  BY DEF TypeOK
<1>2. CASE found = {}
  BY <1>2 DEF DeviceSession
<1>3. CASE found # {}
  <2>1. (CHOOSE s \in found : TRUE) \in found
    BY <1>3
  <2> QED
    BY <1>1, <1>3, <2>1 DEF DeviceSession
<1> QED
  BY <1>2, <1>3

\* A reattached call is a call, it keeps the sides it has, and a side it
\* gains is a connection of that side's account and device.
LEMMA ReattachedType ==
    ASSUME TypeOK, NEW c \in Call, NEW e
    PROVE  Reattached(c, e) \in Call
<1>1. c.callerUid \in Users /\ c.calleeUid \in Users
  BY DEF Call
<1>2. /\ DeviceSession(c.callerUid, c.callerDevice, e) \in Sessions \cup {None}
      /\ DeviceSession(c.calleeUid, c.calleeDevice, e) \in Sessions \cup {None}
  BY <1>1, DeviceSessionFact
<1> QED
  BY <1>2 DEF Reattached, Call

LEMMA ReattachedFact ==
    ASSUME TypeOK, NEW c \in Call, NEW e
    PROVE  LET d == Reattached(c, e) IN
           /\ d.callerUid = c.callerUid /\ d.calleeUid = c.calleeUid
           /\ d.callerDevice = c.callerDevice /\ d.calleeDevice = c.calleeDevice
           /\ d.ringing = c.ringing /\ d.answered = c.answered
           /\ d.caller = IF c.caller = None
                           THEN DeviceSession(c.callerUid, c.callerDevice, e) ELSE c.caller
           /\ d.callee = IF c.answered /\ c.callee = None
                           THEN DeviceSession(c.calleeUid, c.calleeDevice, e) ELSE c.callee
           /\ d.clock = IF ~c.answered THEN c.clock
                        ELSE IF d.caller # None /\ d.callee # None THEN "off"
                        ELSE IF c.clock = "off" THEN "on" ELSE c.clock
BY DEF Reattached, Call

-----------------------------------------------------------------------------
(* Type correctness.                                                       *)

LEMMA InitTypeOK == Init => TypeOK
BY DEF Init, TypeOK

LEMMA LeftType ==
    ASSUME TypeOK, NEW c \in Call, NEW s \in Sessions
    PROVE  Left(c, s) \in Call
<1> DEFINE b == [c EXCEPT !.caller = IF @ = s THEN None ELSE @,
                          !.callee = IF @ = s THEN None ELSE @]
<1>1. b \in Call
  BY DEF Call
<1>2. WithoutSide(c, s) \in Call
  BY <1>1, ReattachedType DEF WithoutSide
<1>3. ASSUME NEW d \in Call PROVE RingsOn(d, s) \subseteq Sessions
  <2>1. d.calleeUid \in Users
    BY DEF Call
  <2> QED
    BY <2>1, DeviceSessionFact DEF RingsOn
<1>4. ASSUME NEW d \in Call PROVE WithoutRinger(d, s) \in Call
  BY <1>3 DEF WithoutRinger, Call
<1> QED
  BY <1>2, <1>4 DEF Left

LEMMA ForgetTypeOK ==
    ASSUME TypeOK, NEW s \in Sessions, Forget(s), replacing' \in [Sessions -> Sessions \cup {None}]
    PROVE  TypeOK'
<1>1. call' \in [CallIds -> Call \cup {None}]
  <2>1. ASSUME NEW i \in CallIds, call[i] # None PROVE Left(call[i], s) \in Call
    BY <2>1, LeftType DEF TypeOK
  <2> QED
    BY <2>1 DEF Forget, CallsAfterLeave, TypeOK, Live
<1>2. index' \in [Sessions -> SUBSET CallIds]
  BY DEF Forget, IndexAfterLeave, TypeOK, Live
<1>3. sends' \subseteq [to : Sessions, kind : Kinds, id : CallIds]
  <2>1. ASSUME NEW i \in CallIds, i \in Live
        PROVE  Send({Left(call[i], s).caller}, "BUSY", i)
                 \subseteq [to : Sessions, kind : Kinds, id : CallIds]
    <3>1. call[i] \in Call
      BY <2>1 DEF TypeOK, Live
    <3>2. Left(call[i], s).caller \in Sessions \cup {None}
      BY <3>1, LeftType DEF Call
    <3> QED
      BY <3>2 DEF Send, Kinds
  <2>2. \A j \in index[s] \cap Live : j \in CallIds /\ j \in Live
    BY DEF Live
  <2> QED
    BY <2>1, <2>2 DEF Forget, SendsAfterLeave
<1>4. /\ stage' \in [Sessions -> {"made", "open", "gone"}]
      /\ uid' \in [Sessions -> Users \cup {None}]
      /\ device' \in [Sessions -> Devices \cup {None}]
      /\ members' \in [Users -> SUBSET Sessions]
  BY DEF Forget, TypeOK
<1> QED
  BY <1>1, <1>2, <1>3, <1>4 DEF TypeOK

LEMMA SendType ==
    ASSUME NEW to, to \subseteq Sessions \cup {None}, NEW k \in Kinds, NEW i \in CallIds
    PROVE  Send(to, k, i) \subseteq [to : Sessions, kind : Kinds, id : CallIds]
BY DEF Send

LEMMA IndexedType ==
    ASSUME TypeOK, NEW who, NEW i \in CallIds
    PROVE  /\ Indexed(index, who, i) \in [Sessions -> SUBSET CallIds]
           /\ Unindexed(index, who, i) \in [Sessions -> SUBSET CallIds]
           /\ \A other : Unindexed(Indexed(index, who, i), other, i) \in [Sessions -> SUBSET CallIds]
BY DEF TypeOK, Indexed, Unindexed

LEMMA LiveCall == TypeOK => \A i \in CallIds : i \in Live <=> (call[i] \in Call)
BY DEF TypeOK, Live

LEMMA ReachedType ==
    ASSUME TypeOK, NEW c \in Call, NEW x
    PROVE  Reached(c, x) \in Call
BY ReattachedType DEF Reached

LEMMA SettledType ==
    ASSUME NEW c \in Call
    PROVE  Settled(c) \in Call
BY DEF Settled, Call

\* The steps of a signal leave connections alone, so three parts are left.
LEMMA SignalTypeOK ==
    ASSUME TypeOK, UNCHANGED conns,
           call' \in [CallIds -> Call \cup {None}],
           index' \in [Sessions -> SUBSET CallIds],
           sends' \subseteq [to : Sessions, kind : Kinds, id : CallIds]
    PROVE  TypeOK'
BY DEF TypeOK, conns

LEMMA PutType ==
    ASSUME TypeOK, NEW i \in CallIds, NEW c \in Call \cup {None}, Put(i, c)
    PROVE  call' \in [CallIds -> Call \cup {None}]
BY DEF TypeOK, Put

LEMMA EraseType ==
    ASSUME TypeOK, NEW i \in CallIds, NEW c, Erase(i, c)
    PROVE  /\ call' \in [CallIds -> Call \cup {None}]
           /\ index' \in [Sessions -> SUBSET CallIds]
<1>1. call' \in [CallIds -> Call \cup {None}]
  BY PutType DEF Erase
<1>2. index' \in [Sessions -> SUBSET CallIds]
  BY IndexedType DEF Erase
<1> QED
  BY <1>1, <1>2

LEMMA CallerSignalsTypeOK ==
    ASSUME TypeOK, NEW s \in Sessions, NEW i \in CallIds,
           CallerEnds(s, i) \/ CallerStreams(s, i) \/ CallerTakesPlace(s, i)
    PROVE  TypeOK'
<1> DEFINE c == AsCaller(s, call[i])
           d == Reached(c, c.callee)
<1>1. i \in Live /\ call[i] \in Call
  BY LiveCall DEF CallerEnds, CallerStreams, CallerTakesPlace
<1>2. c \in Call
  BY <1>1 DEF AsCaller, Call
<1>3. d \in Call
  BY <1>2, ReachedType
<1>4. c.ringing \subseteq Sessions /\ d.callee \in Sessions \cup {None}
  BY <1>2, <1>3 DEF Call
<1>k. "END" \in Kinds /\ "STREAM" \in Kinds
  BY DEF Kinds
<1> HIDE DEF c, d
<1>5. CASE CallerEnds(s, i)
  <2>1. /\ \E e : Erase(i, e)
        /\ sends' = Send(IF c.answered THEN {d.callee} ELSE c.ringing, "END", i)
    BY <1>5, Zenon DEF CallerEnds, c, d
  <2>2. (IF c.answered THEN {d.callee} ELSE c.ringing) \subseteq Sessions \cup {None}
    BY <1>4
  <2>3. sends' \subseteq [to : Sessions, kind : Kinds, id : CallIds]
    BY <1>k, <2>1, <2>2, SendType
  <2> QED
    BY <1>5, <2>1, <2>3, SignalTypeOK, EraseType DEF CallerEnds
<1>6. CASE CallerStreams(s, i)
  <2>1. /\ Put(i, Settled(d))
        /\ \E w : index' = Indexed(index, w, i)
        /\ sends' = Send({d.callee}, "STREAM", i)
    BY <1>6 DEF CallerStreams, c, d
  <2> QED
    BY <1>3, <1>4, <1>6, <1>k, <2>1, SettledType, SignalTypeOK, SendType, IndexedType, PutType
    DEF CallerStreams
<1>7. CASE CallerTakesPlace(s, i)
  <2>1. Put(i, c) /\ index' = Indexed(index, {s}, i) /\ sends' = {}
    BY <1>7 DEF CallerTakesPlace, c
  <2> QED
    BY <1>2, <1>7, <2>1, SignalTypeOK, IndexedType, PutType DEF CallerTakesPlace
<1> QED
  BY <1>5, <1>6, <1>7

LEMMA CalleeSignalsTypeOK ==
    ASSUME TypeOK, NEW s \in Sessions, NEW i \in CallIds,
           CalleeEnds(s, i) \/ CalleeStreams(s, i) \/ CalleeTakesPlace(s, i) \/ LateAccept(s, i)
    PROVE  TypeOK'
<1> DEFINE c == AsCallee(s, call[i])
           d == Reached(c, c.caller)
<1>1. i \in Live /\ call[i] \in Call
  BY LiveCall DEF CalleeEnds, CalleeStreams, CalleeTakesPlace, LateAccept
<1>2. c \in Call
  BY <1>1 DEF AsCallee, Call
<1>3. d \in Call
  BY <1>2, ReachedType
<1>4. d.caller \in Sessions \cup {None}
  BY <1>3 DEF Call
<1>k. "END" \in Kinds /\ "STREAM" \in Kinds /\ "ANSWERED_ELSEWHERE" \in Kinds
  BY DEF Kinds
<1> HIDE DEF c, d
<1>5. CASE CalleeEnds(s, i)
  <2>1. Erase(i, d) /\ sends' = Send({d.caller}, "END", i)
    BY <1>5 DEF CalleeEnds, c, d
  <2>2. sends' \subseteq [to : Sessions, kind : Kinds, id : CallIds]
    BY <1>4, <1>k, <2>1, SendType
  <2> QED
    BY <1>5, <2>1, <2>2, SignalTypeOK, EraseType DEF CalleeEnds
<1>6. CASE CalleeStreams(s, i)
  <2>1. /\ Put(i, Settled(d))
        /\ \E w : index' = Indexed(index, w, i)
        /\ sends' = Send({d.caller}, "STREAM", i)
    BY <1>6 DEF CalleeStreams, c, d
  <2> QED
    BY <1>3, <1>4, <1>6, <1>k, <2>1, SettledType, SignalTypeOK, SendType, IndexedType, PutType
    DEF CalleeStreams
<1>7. CASE CalleeTakesPlace(s, i)
  <2>1. Put(i, c) /\ index' = Indexed(index, {s}, i) /\ sends' = {}
    BY <1>7 DEF CalleeTakesPlace, c
  <2> QED
    BY <1>2, <1>7, <2>1, SignalTypeOK, IndexedType, PutType DEF CalleeTakesPlace
<1>8. CASE LateAccept(s, i)
  <2>1. /\ Put(i, Settled(call[i]))
        /\ sends' = Send({s}, "ANSWERED_ELSEWHERE", i)
        /\ index' \in [Sessions -> SUBSET CallIds]
        /\ UNCHANGED conns
    BY <1>8 DEF LateAccept, TypeOK
  <2> QED
    BY <1>1, <1>k, <2>1, SettledType, SignalTypeOK, SendType, PutType
<1> QED
  BY <1>5, <1>6, <1>7, <1>8

LEMMA RingSignalsTypeOK ==
    ASSUME TypeOK, NEW s \in Sessions, NEW i \in CallIds,
           Ringing(s, i) \/ Busy(s, i) \/ Accept(s, i) \/ Decline(s, i)
    PROVE  TypeOK'
<1>1. i \in Live /\ call[i] \in Call /\ device[s] \in Devices \cup {None}
  BY LiveCall DEF Ringing, Busy, Accept, Decline, Rings, RingsOrRang, TypeOK
<1>k. /\ "RINGING" \in Kinds /\ "BUSY" \in Kinds /\ "ACCEPT" \in Kinds /\ "END" \in Kinds
      /\ "ANSWERED_ELSEWHERE" \in Kinds /\ "DECLINED_ELSEWHERE" \in Kinds
  BY DEF Kinds
<1>2. CASE Ringing(s, i) \/ Decline(s, i)
  <2> DEFINE d == Reached(call[i], call[i].caller)
  <2>1. d \in Call
    BY <1>1, ReachedType
  <2>2. /\ d.caller \in Sessions \cup {None}
        /\ Rivals(s, d) \subseteq Sessions \cup {None}
        /\ [d EXCEPT !.rang = TRUE] \in Call
    BY <2>1 DEF Call, Rivals
  <2> HIDE DEF d
  <2>3. CASE Ringing(s, i)
    <3>1. /\ Put(i, [d EXCEPT !.rang = TRUE])
          /\ \E w : index' = Indexed(index, w, i)
          /\ sends' = Send({d.caller}, "RINGING", i)
      BY <2>3 DEF Ringing, d
    <3> QED
      BY <1>k, <2>2, <2>3, <3>1, SignalTypeOK, SendType, IndexedType, PutType DEF Ringing
  <2>4. CASE Decline(s, i)
    <3>1. /\ Erase(i, d)
          /\ sends' = Send({d.caller}, "END", i) \cup Send(Rivals(s, d), "DECLINED_ELSEWHERE", i)
      BY <2>4 DEF Decline, d
    <3>2. /\ Send({d.caller}, "END", i) \subseteq [to : Sessions, kind : Kinds, id : CallIds]
          /\ Send(Rivals(s, d), "DECLINED_ELSEWHERE", i)
               \subseteq [to : Sessions, kind : Kinds, id : CallIds]
      BY <1>k, <2>2, SendType
    <3> QED
      BY <2>4, <3>1, <3>2, SignalTypeOK, EraseType DEF Decline
  <2> QED
    BY <1>2, <2>3, <2>4
<1>3. CASE Busy(s, i)
  <2> DEFINE c == [call[i] EXCEPT !.busy = TRUE, !.ringing = @ \ {s}]
             d == Reached(c, c.caller)
  <2>1. c \in Call
    BY <1>1 DEF Call
  <2>2. d \in Call /\ d.caller \in Sessions \cup {None}
    <3>1. d \in Call
      BY <2>1, ReachedType
    <3> QED
      BY <3>1 DEF Call
  <2> HIDE DEF c, d
  <2>3. /\ Put(i, c) \/ Put(i, None)
        /\ \E w : index' = Unindexed(index, w, i)
        /\ sends' = {} \/ sends' = Send({d.caller}, "BUSY", i)
    BY <1>3 DEF Busy, c, d
  <2>4. call' \in [CallIds -> Call \cup {None}]
    BY <2>1, <2>3, PutType
  <2>5. index' \in [Sessions -> SUBSET CallIds]
    BY <2>3, IndexedType
  <2>6. sends' \subseteq [to : Sessions, kind : Kinds, id : CallIds]
    BY <1>k, <2>2, <2>3, SendType
  <2> QED
    BY <1>3, <2>4, <2>5, <2>6, SignalTypeOK DEF Busy
<1>4. CASE Accept(s, i)
  <2> DEFINE c == [call[i] EXCEPT !.answered = TRUE, !.callee = s,
                                  !.calleeDevice = device[s], !.clock = "off"]
             d == Reattached(c, None)
  <2>1. c \in Call
    BY <1>1 DEF Call
  <2>2. d \in Call
    BY <2>1, ReattachedType
  <2>3. /\ d.caller \in Sessions \cup {None}
        /\ [d EXCEPT !.ringing = {}] \in Call
        /\ Rivals(s, call[i]) \subseteq Sessions \cup {None}
    BY <1>1, <2>2 DEF Call, Rivals
  <2> HIDE DEF c, d
  <2>4. /\ Put(i, [d EXCEPT !.ringing = {}])
        /\ \E w, o : index' = Unindexed(Indexed(index, w, i), o, i)
        /\ sends' = Send(Rivals(s, call[i]), "ANSWERED_ELSEWHERE", i) \cup Send({d.caller}, "ACCEPT", i)
    BY <1>4 DEF Accept, c, d
  <2>5. /\ Send({d.caller}, "ACCEPT", i) \subseteq [to : Sessions, kind : Kinds, id : CallIds]
        /\ Send(Rivals(s, call[i]), "ANSWERED_ELSEWHERE", i)
             \subseteq [to : Sessions, kind : Kinds, id : CallIds]
    BY <1>k, <2>3, SendType
  <2> QED
    BY <1>4, <2>3, <2>4, <2>5, SignalTypeOK, IndexedType, PutType DEF Accept
<1> QED
  BY <1>2, <1>3, <1>4

LEMMA InviteTypeOK ==
    ASSUME TypeOK, \A t \in Sessions : uid[t] # None => device[t] # None,
           NEW s \in Sessions, NEW to \in Users, NEW i \in CallIds,
           Invite(s, to, i) \/ InviteOffline(s, to, i)
    PROVE  TypeOK'
<1>1. members[to] \subseteq Sessions /\ "INVITE" \in Kinds /\ "PEER_OFFLINE" \in Kinds
  BY DEF TypeOK, Kinds
<1>2. CASE Invite(s, to, i)
  <2> DEFINE c == [callerUid |-> uid[s], calleeUid |-> to,
                   caller |-> s, callerDevice |-> device[s],
                   ringing |-> members[to], callee |-> None, calleeDevice |-> None,
                   answered |-> FALSE, rang |-> FALSE, busy |-> FALSE, clock |-> "on"]
  <2>1. uid[s] \in Users /\ device[s] \in Devices
    BY <1>2 DEF Invite, CanSignal, TypeOK
  <2>2. c \in Call
    BY <1>1, <2>1 DEF Call
  <2>3. /\ Put(i, c)
        /\ index' = Indexed(index, {s} \cup members[to], i)
        /\ sends' = Send(members[to], "INVITE", i)
        /\ UNCHANGED conns
    BY <1>2 DEF Invite
  <2> HIDE DEF c
  <2>4. call' \in [CallIds -> Call \cup {None}]
    BY <2>2, <2>3, PutType
  <2>5. sends' \subseteq [to : Sessions, kind : Kinds, id : CallIds]
    BY <1>1, <2>3, SendType
  <2> QED
    BY <2>3, <2>4, <2>5, SignalTypeOK, IndexedType
<1>3. CASE InviteOffline(s, to, i)
  BY <1>1, <1>3, SignalTypeOK, SendType DEF InviteOffline, TypeOK
<1> QED
  BY <1>2, <1>3

LEMMA BindTypeOK ==
    ASSUME TypeOK, NEW s \in Sessions, NEW u \in Users, NEW d \in Devices, Bind(s, u, d)
    PROVE  TypeOK'
<1> DEFINE old == DeviceSession(u, d, None)
<1>1. old \in Sessions \cup {None}
  BY DeviceSessionFact
<1>2. BindReplacing(s, u, d, old)
  BY DEF Bind
<1> HIDE DEF old
<1> QED
  BY <1>1, <1>2 DEF BindReplacing, TypeOK

LEMMA TimeTypeOK ==
    ASSUME TypeOK, SweepCalls \/ \E i \in CallIds : TimeRunsOut(i)
    PROVE  TypeOK'
<1>1. ASSUME NEW i \in CallIds, TimeRunsOut(i) PROVE TypeOK'
  <2>1. call[i] \in Call
    BY <1>1, LiveCall DEF TimeRunsOut
  <2>2. [call[i] EXCEPT !.clock = "out"] \in Call
    BY <2>1 DEF Call
  <2>3. call' \in [CallIds -> Call \cup {None}]
    BY <1>1, <2>2, PutType DEF TimeRunsOut
  <2> QED
    BY <1>1, <2>3, SignalTypeOK DEF TimeRunsOut, TypeOK
<1>2. ASSUME SweepCalls PROVE TypeOK'
  <2>1. ASSUME NEW i \in Live PROVE i \in CallIds /\ SweptCall(i) \in Call
    BY LiveCall, ReattachedType DEF SweptCall, Live
  <2>2. call' \in [CallIds -> Call \cup {None}]
    BY <1>2, <2>1 DEF SweepCalls
  <2>3. index' \in [Sessions -> SUBSET CallIds]
    BY <1>2, <2>1 DEF SweepCalls, TypeOK
  <2> QED
    BY <1>2, <2>2, <2>3, SignalTypeOK DEF SweepCalls
<1> QED
  BY <1>1, <1>2

-----------------------------------------------------------------------------
(* Connections.                                                            *)

LEMMA InitConnectionsOK == Init => ConnectionsOK
BY DEF Init, ConnectionsOK, OneConnectionPerDevice

LEMMA BindConnectionsOK ==
    ASSUME TypeOK, ConnectionsOK,
           NEW s \in Sessions, NEW u \in Users, NEW d \in Devices, Bind(s, u, d)
    PROVE  ConnectionsOK'
<1> DEFINE old == DeviceSession(u, d, None)
<1>1. /\ old = None \/ (old \in Sessions /\ old \in members[u] /\ device[old] = d)
      /\ old = None => \A t \in members[u] \ {None} : device[t] # d
  BY DeviceSessionFact
<1>2. BindReplacing(s, u, d, old)
  BY DEF Bind
<1> HIDE DEF old
<1>3. stage[s] = "open" /\ device[s] = None /\ uid[s] = None
  BY <1>2 DEF BindReplacing, ConnectionsOK
<1>4. /\ uid' = [t \in Sessions |-> IF t = s THEN u ELSE IF t = old THEN None ELSE uid[t]]
      /\ device' = [device EXCEPT ![s] = d]
      /\ members' = [members EXCEPT ![u] = (@ \ {old}) \cup {s}]
      /\ replacing' = [replacing EXCEPT ![s] = old]
      /\ stage' = stage
  BY <1>2 DEF BindReplacing
<1>5. old # None => uid[old] = u /\ old # s
  BY <1>1, <1>3 DEF ConnectionsOK
<1>6. d # None /\ u # None /\ s # None
  OBVIOUS
<1>7. replacing[s] = None
  BY <1>3 DEF ConnectionsOK
<1>8. (\A t \in Sessions, v \in Users : t \in members[v] <=> uid[t] = v)'
  BY <1>1, <1>3, <1>4, <1>5, <1>6 DEF ConnectionsOK, TypeOK
<1>9. /\ (\A t \in Sessions : uid[t] # None => device[t] # None)'
      /\ (\A t \in Sessions : device[t] # None => stage[t] = "open")'
  BY <1>3, <1>4, <1>6 DEF ConnectionsOK, TypeOK
<1>10. (\A t \in Sessions : device[t] # None /\ uid[t] = None => BeingReplaced(t))'
  <2> SUFFICES ASSUME NEW t \in Sessions, device'[t] # None, uid'[t] = None
               PROVE  \E r \in Sessions : replacing'[r] = t
    BY DEF BeingReplaced
  <2>1. CASE t = old
    BY <1>4, <2>1 DEF TypeOK
  <2>2. CASE t # old
    <3>1. t # s /\ uid[t] = None /\ device[t] # None
      BY <1>4, <1>6, <2>2 DEF TypeOK
    <3>2. PICK r \in Sessions : replacing[r] = t
      BY <3>1 DEF ConnectionsOK, BeingReplaced
    <3>3. r # s
      BY <1>7, <3>2
    <3> QED
      BY <1>4, <3>2, <3>3 DEF TypeOK
  <2> QED
    BY <2>1, <2>2
<1>11. (\A t \in Sessions : replacing[t] # None =>
          /\ uid[replacing[t]] = None
          /\ device[replacing[t]] # None \/ stage[replacing[t]] = "gone"
          /\ device[t] # None \/ stage[t] = "gone")'
  <2> SUFFICES ASSUME NEW t \in Sessions, replacing'[t] # None
               PROVE  /\ uid'[replacing'[t]] = None
                      /\ device'[replacing'[t]] # None \/ stage'[replacing'[t]] = "gone"
                      /\ device'[t] # None \/ stage'[t] = "gone"
    OBVIOUS
  <2>1. CASE t = s
    BY <1>1, <1>4, <1>5, <1>6, <2>1 DEF TypeOK
  <2>2. CASE t # s
    <3>1. replacing'[t] = replacing[t] /\ replacing[t] \in Sessions
      BY <1>4, <2>2 DEF TypeOK
    <3>2. replacing[t] # s
      BY <1>3, <3>1, <1>6 DEF ConnectionsOK
    <3> QED
      BY <1>4, <2>2, <3>1, <3>2 DEF ConnectionsOK, TypeOK
  <2> QED
    BY <2>1, <2>2
<1>12. OneConnectionPerDevice'
  <2>1. \A t \in members[u] \ {old} : device[t] # d
    BY <1>1 DEF ConnectionsOK, OneConnectionPerDevice, TypeOK
  <2>2. \A v \in Users : s \notin members[v]
    BY <1>3, <1>6 DEF ConnectionsOK
  <2> QED
    BY <1>4, <2>1, <2>2 DEF ConnectionsOK, OneConnectionPerDevice, TypeOK
<1> QED
  BY <1>8, <1>9, <1>10, <1>11, <1>12 DEF ConnectionsOK

LEMMA ForgetConnections ==
    ASSUME TypeOK, ConnectionsOK, NEW s \in Sessions, Forget(s),
           replacing' = replacing
             \/ \E t \in Sessions : replacing[t] = s /\ replacing' = [replacing EXCEPT ![t] = None]
    PROVE  ConnectionsOK'
<1>1. /\ stage' = [stage EXCEPT ![s] = "gone"]
      /\ members' = [u \in Users |-> IF u = uid[s] THEN members[u] \ {s} ELSE members[u]]
      /\ uid' = [uid EXCEPT ![s] = None]
      /\ device' = [device EXCEPT ![s] = None]
  BY DEF Forget
<1>2. (\A t \in Sessions, v \in Users : t \in members[v] <=> uid[t] = v)'
  BY <1>1 DEF ConnectionsOK, TypeOK
<1>3. /\ (\A t \in Sessions : uid[t] # None => device[t] # None)'
      /\ (\A t \in Sessions : device[t] # None => stage[t] = "open")'
  BY <1>1 DEF ConnectionsOK, TypeOK
<1>4. (\A t \in Sessions : device[t] # None /\ uid[t] = None => BeingReplaced(t))'
  <2> SUFFICES ASSUME NEW t \in Sessions, device'[t] # None, uid'[t] = None
               PROVE  \E r \in Sessions : replacing'[r] = t
    BY DEF BeingReplaced
  <2>1. t # s /\ device[t] # None /\ uid[t] = None
    BY <1>1 DEF TypeOK
  <2>2. PICK r \in Sessions : replacing[r] = t
    BY <2>1 DEF ConnectionsOK, BeingReplaced
  <2> QED
    BY <2>1, <2>2 DEF TypeOK
<1>5. (\A t \in Sessions : replacing[t] # None =>
          /\ uid[replacing[t]] = None
          /\ device[replacing[t]] # None \/ stage[replacing[t]] = "gone"
          /\ device[t] # None \/ stage[t] = "gone")'
  <2> SUFFICES ASSUME NEW t \in Sessions, replacing'[t] # None
               PROVE  /\ uid'[replacing'[t]] = None
                      /\ device'[replacing'[t]] # None \/ stage'[replacing'[t]] = "gone"
                      /\ device'[t] # None \/ stage'[t] = "gone"
    OBVIOUS
  <2>1. replacing'[t] = replacing[t] /\ replacing[t] \in Sessions
    BY DEF TypeOK
  <2> QED
    BY <1>1, <2>1 DEF ConnectionsOK, TypeOK
<1>6. OneConnectionPerDevice'
  BY <1>1 DEF ConnectionsOK, OneConnectionPerDevice, TypeOK
<1> QED
  BY <1>2, <1>3, <1>4, <1>5, <1>6 DEF ConnectionsOK

\* A step that leaves the connections alone leaves ConnectionsOK alone.
LEMMA SameConnections ==
    ASSUME ConnectionsOK, UNCHANGED conns
    PROVE  ConnectionsOK'
BY DEF ConnectionsOK, OneConnectionPerDevice, BeingReplaced, conns

LEMMA SignalCases ==
    ASSUME NEW s \in Sessions, NEW i \in CallIds, Signal(s, i)
    PROVE  /\ UNCHANGED conns
           /\ \/ \E to \in Users : Invite(s, to, i) \/ InviteOffline(s, to, i)
              \/ CallerEnds(s, i) \/ CallerStreams(s, i) \/ CallerTakesPlace(s, i)
              \/ Ringing(s, i) \/ Busy(s, i) \/ Accept(s, i) \/ Decline(s, i)
              \/ CalleeEnds(s, i) \/ CalleeStreams(s, i) \/ CalleeTakesPlace(s, i)
              \/ LateAccept(s, i)
BY DEF Signal, Invite, InviteOffline, CallerEnds, CallerStreams, CallerTakesPlace, Ringing,
       Busy, Accept, Decline, CalleeEnds, CalleeStreams, CalleeTakesPlace, LateAccept

LEMMA RetireCases ==
    ASSUME TypeOK, NEW s \in Sessions, RetireReplaced(s)
    PROVE  /\ replacing' = [replacing EXCEPT ![s] = None]
           /\ \/ replacing[s] \in Sessions /\ stage[replacing[s]] = "open" /\ Forget(replacing[s])
              \/ /\ replacing[s] \in Sessions /\ stage[replacing[s]] # "open"
                 /\ sends' = {} /\ UNCHANGED <<stage, uid, device, members, call, index>>
BY DEF RetireReplaced, TypeOK

LEMMA StepTypeOK == TypeOK /\ ConnectionsOK /\ [Next]_vars => TypeOK'
<1> SUFFICES ASSUME TypeOK, ConnectionsOK, [Next]_vars
             PROVE  TypeOK'
  OBVIOUS
<1>1. ASSUME NEW s \in Sessions, Join(s) PROVE TypeOK'
  BY <1>1 DEF Join, TypeOK
<1>2. ASSUME NEW s \in Sessions, RetireReplaced(s) PROVE TypeOK'
  <2>1. replacing' \in [Sessions -> Sessions \cup {None}]
    BY <1>2 DEF RetireReplaced, TypeOK
  <2>2. CASE Forget(replacing[s]) /\ replacing[s] \in Sessions
    BY <2>1, <2>2, ForgetTypeOK
  <2>3. CASE sends' = {} /\ UNCHANGED <<stage, uid, device, members, call, index>>
    BY <2>1, <2>3 DEF TypeOK
  <2> QED
    BY <1>2, <2>2, <2>3, RetireCases
<1>3. ASSUME NEW s \in Sessions, Leave(s) PROVE TypeOK'
  BY <1>3, ForgetTypeOK DEF Leave, TypeOK
<1>4. ASSUME NEW s \in Sessions, NEW u \in Users, NEW d \in Devices, Bind(s, u, d)
      PROVE  TypeOK'
  BY <1>4, BindTypeOK
<1>5. ASSUME NEW s \in Sessions, NEW i \in CallIds, Signal(s, i) PROVE TypeOK'
  BY <1>5, SignalCases, InviteTypeOK, CallerSignalsTypeOK, RingSignalsTypeOK,
     CalleeSignalsTypeOK DEF ConnectionsOK
<1>6. CASE SweepCalls \/ \E i \in CallIds : TimeRunsOut(i)
  BY <1>6, TimeTypeOK
<1>7. CASE UNCHANGED vars
  BY <1>7 DEF vars, TypeOK
<1> QED
  BY <1>1, <1>2, <1>3, <1>4, <1>5, <1>6, <1>7 DEF Next

LEMMA StepConnectionsOK == TypeOK /\ ConnectionsOK /\ [Next]_vars => ConnectionsOK'
<1> SUFFICES ASSUME TypeOK, ConnectionsOK, [Next]_vars
             PROVE  ConnectionsOK'
  OBVIOUS
<1>1. ASSUME NEW s \in Sessions, Join(s) PROVE ConnectionsOK'
  BY <1>1 DEF Join, ConnectionsOK, OneConnectionPerDevice, BeingReplaced, TypeOK
<1>2. ASSUME NEW s \in Sessions, RetireReplaced(s) PROVE ConnectionsOK'
  <2>1. CASE Forget(replacing[s]) /\ replacing[s] \in Sessions
    BY <1>2, <2>1, ForgetConnections, RetireCases
  <2>2. CASE /\ replacing[s] \in Sessions /\ stage[replacing[s]] # "open"
             /\ UNCHANGED <<stage, uid, device, members, call, index>>
    <3>1. ASSUME NEW t \in Sessions, device[t] # None, uid[t] = None
          PROVE  \E r \in Sessions : replacing'[r] = t
      <4>1. PICK r \in Sessions : replacing[r] = t
        BY <3>1 DEF ConnectionsOK, BeingReplaced
      <4>2. r # s
        BY <2>2, <3>1, <4>1 DEF ConnectionsOK
      <4> QED
        BY <1>2, <4>1, <4>2, RetireCases DEF TypeOK
    <3>2. (\A t \in Sessions : device[t] # None /\ uid[t] = None => BeingReplaced(t))'
      BY <2>2, <3>1 DEF BeingReplaced
    <3>3. \A t \in Sessions : replacing'[t] # None => replacing'[t] = replacing[t]
      BY <1>2, RetireCases DEF TypeOK
    <3> QED
      BY <2>2, <3>2, <3>3 DEF ConnectionsOK, OneConnectionPerDevice
  <2> QED
    BY <1>2, <2>1, <2>2, RetireCases
<1>3. ASSUME NEW s \in Sessions, Leave(s) PROVE ConnectionsOK'
  BY <1>3, ForgetConnections DEF Leave
<1>4. ASSUME NEW s \in Sessions, NEW u \in Users, NEW d \in Devices, Bind(s, u, d)
      PROVE  ConnectionsOK'
  BY <1>4, BindConnectionsOK
<1>5. ASSUME NEW s \in Sessions, NEW i \in CallIds, Signal(s, i) PROVE ConnectionsOK'
  BY <1>5, SignalCases, SameConnections
<1>6. CASE SweepCalls \/ \E i \in CallIds : TimeRunsOut(i)
  BY <1>6, SameConnections DEF SweepCalls, TimeRunsOut
<1>7. CASE UNCHANGED vars
  BY <1>7, SameConnections DEF vars, conns
<1> QED
  BY <1>1, <1>2, <1>3, <1>4, <1>5, <1>6, <1>7 DEF Next

\* In every reachable state the variables have their types, accounts and
\* connections agree, and a device has one connection in its account.
THEOREM ConnectionsCorrect == Spec => [](TypeOK /\ ConnectionsOK)
<1>1. Init => TypeOK /\ ConnectionsOK
  BY InitTypeOK, InitConnectionsOK
<1>2. TypeOK /\ ConnectionsOK /\ [Next]_vars => (TypeOK /\ ConnectionsOK)'
  BY StepTypeOK, StepConnectionsOK
<1> QED
  BY <1>1, <1>2, PTL DEF Spec

-----------------------------------------------------------------------------
(* Calls stay well formed.                                                 *)

LEMMA OneCallWellFormed ==
    ASSUME TypeOK, EveryCallCanEnd,
           \A i \in CallIds : call'[i] \in {call[i], None} \/ WellFormed(call'[i])
    PROVE  EveryCallCanEnd'
BY DEF EveryCallCanEnd, WellFormed, Live

LEMMA PutWellFormed ==
    ASSUME TypeOK, EveryCallCanEnd, NEW i \in CallIds, NEW c, Put(i, c),
           c = None \/ WellFormed(c)
    PROVE  EveryCallCanEnd'
<1>1. \A j \in CallIds : call'[j] \in {call[j], None} \/ WellFormed(call'[j])
  BY DEF Put, TypeOK
<1> QED
  BY <1>1, OneCallWellFormed

LEMMA ReattachedWellFormed ==
    ASSUME TypeOK, NEW c \in Call, WellFormed(c), NEW e
    PROVE  WellFormed(Reattached(c, e)) /\ WellFormed(Reached(c, e))
<1>1. ASSUME NEW x PROVE WellFormed(Reattached(c, x))
  <2> DEFINE d == Reattached(c, x)
  <2>1. d \in Call
    BY ReattachedType
  <2>2. /\ d.callerUid = c.callerUid /\ d.calleeUid = c.calleeUid
        /\ d.ringing = c.ringing /\ d.answered = c.answered
        /\ ~c.answered => d.callee = c.callee /\ d.clock = c.clock
        /\ c.answered => d.clock = IF d.caller # None /\ d.callee # None THEN "off"
                                   ELSE IF c.clock = "off" THEN "on" ELSE c.clock
    BY ReattachedFact
  <2> HIDE DEF d
  <2>3. WellFormed(d)
    BY <2>1, <2>2 DEF WellFormed
  <2> QED
    BY <2>3 DEF d
<1> QED
  BY <1>1 DEF Reached

LEMMA SettledWellFormed ==
    ASSUME NEW c \in Call, WellFormed(c)
    PROVE  WellFormed(Settled(c))
BY DEF Settled, WellFormed, Call

LEMMA LiveWellFormed ==
    ASSUME TypeOK, EveryCallCanEnd, NEW i \in Live
    PROVE  i \in CallIds /\ call[i] \in Call /\ WellFormed(call[i])
BY DEF TypeOK, EveryCallCanEnd, Live

LEMMA SignalWellFormed ==
    ASSUME TypeOK, EveryCallCanEnd, NEW s \in Sessions, NEW i \in CallIds, Signal(s, i)
    PROVE  EveryCallCanEnd'
<1>1. ASSUME NEW to \in Users, Invite(s, to, i) PROVE EveryCallCanEnd'
  <2> DEFINE c == [callerUid |-> uid[s], calleeUid |-> to,
                   caller |-> s, callerDevice |-> device[s],
                   ringing |-> members[to], callee |-> None, calleeDevice |-> None,
                   answered |-> FALSE, rang |-> FALSE, busy |-> FALSE, clock |-> "on"]
  <2>1. Put(i, c) /\ WellFormed(c)
    BY <1>1 DEF Invite, WellFormed
  <2> QED
    BY <2>1, PutWellFormed
<1>2. ASSUME NEW to \in Users, InviteOffline(s, to, i) PROVE EveryCallCanEnd'
  BY <1>2 DEF InviteOffline, EveryCallCanEnd, WellFormed, Live
<1>3. ASSUME CallerEnds(s, i) \/ CalleeEnds(s, i) \/ Decline(s, i) PROVE EveryCallCanEnd'
  <2>1. Put(i, None)
    BY <1>3, Zenon DEF CallerEnds, CalleeEnds, Decline, Erase
  <2> QED
    BY <2>1, PutWellFormed
<1>4. ASSUME CallerStreams(s, i) \/ CallerTakesPlace(s, i) PROVE EveryCallCanEnd'
  <2> DEFINE c == AsCaller(s, call[i])
             d == Reached(c, c.callee)
  <2>1. /\ i \in Live
        /\ Put(i, c) \/ Put(i, Settled(d))
    BY <1>4 DEF CallerStreams, CallerTakesPlace
  <2>2. c \in Call /\ WellFormed(c)
    BY <2>1, LiveWellFormed DEF AsCaller, Call, WellFormed
  <2>3. d \in Call /\ WellFormed(d)
    BY <2>2, ReachedType, ReattachedWellFormed
  <2> HIDE DEF c, d
  <2> QED
    BY <2>1, <2>2, <2>3, SettledWellFormed, PutWellFormed
<1>5. ASSUME CalleeStreams(s, i) \/ CalleeTakesPlace(s, i) PROVE EveryCallCanEnd'
  <2> DEFINE c == AsCallee(s, call[i])
             d == Reached(c, c.caller)
  <2>1. /\ i \in Live /\ IsCallee(s, call[i])
        /\ Put(i, c) \/ Put(i, Settled(d))
    BY <1>5 DEF CalleeStreams, CalleeTakesPlace
  <2>2. c \in Call /\ WellFormed(c)
    BY <2>1, LiveWellFormed DEF AsCallee, IsCallee, Call, WellFormed
  <2>3. d \in Call /\ WellFormed(d)
    BY <2>2, ReachedType, ReattachedWellFormed
  <2> HIDE DEF c, d
  <2> QED
    BY <2>1, <2>2, <2>3, SettledWellFormed, PutWellFormed
<1>6. ASSUME Ringing(s, i) PROVE EveryCallCanEnd'
  <2> DEFINE d == Reached(call[i], call[i].caller)
  <2>1. i \in Live /\ Put(i, [d EXCEPT !.rang = TRUE])
    BY <1>6 DEF Ringing, Rings, RingsOrRang
  <2>2. d \in Call /\ WellFormed(d)
    BY <2>1, LiveWellFormed, ReachedType, ReattachedWellFormed
  <2>3. WellFormed([d EXCEPT !.rang = TRUE])
    BY <2>2 DEF WellFormed, Call
  <2> HIDE DEF d
  <2> QED
    BY <2>1, <2>3, PutWellFormed
<1>7. ASSUME Busy(s, i) PROVE EveryCallCanEnd'
  <2> DEFINE c == [call[i] EXCEPT !.busy = TRUE, !.ringing = @ \ {s}]
  <2>1. /\ i \in Live /\ ~call[i].answered
        /\ Put(i, None) \/ (c.ringing # {} /\ Put(i, c))
    BY <1>7, Zenon DEF Busy, Rings, RingsOrRang
  <2>2. c.ringing # {} => WellFormed(c)
    BY <2>1, LiveWellFormed DEF WellFormed, Call
  <2> HIDE DEF c
  <2> QED
    BY <2>1, <2>2, PutWellFormed
<1>8. ASSUME Accept(s, i) PROVE EveryCallCanEnd'
  <2> DEFINE c == [call[i] EXCEPT !.answered = TRUE, !.callee = s,
                                  !.calleeDevice = device[s], !.clock = "off"]
             d == Reattached(c, None)
             f == [d EXCEPT !.ringing = {}]
  <2>1. i \in Live /\ Put(i, f)
    BY <1>8 DEF Accept, Rings, RingsOrRang
  <2>2. /\ c \in Call /\ c.answered /\ c.callee = s /\ c.callerUid # c.calleeUid
    <3>1. call[i] \in Call /\ call[i].callerUid # call[i].calleeUid
      BY <2>1, LiveWellFormed DEF WellFormed
    <3>2. device[s] \in Devices \cup {None}
      BY DEF TypeOK
    <3> QED
      BY <3>1, <3>2 DEF Call
  <2>3. /\ d \in Call /\ d.answered /\ d.callee = s /\ d.callerUid # d.calleeUid
        /\ d.clock = "off" => d.caller # None
    <3> HIDE DEF c
    <3> QED
      BY <2>2, ReattachedType, ReattachedFact
  <2> HIDE DEF c, d
  <2>4. WellFormed(f)
    BY <2>3 DEF WellFormed, Call
  <2> QED
    BY <2>1, <2>4, PutWellFormed
<1>9. ASSUME LateAccept(s, i) PROVE EveryCallCanEnd'
  BY <1>9, LiveWellFormed, SettledWellFormed, PutWellFormed DEF LateAccept
<1> QED
  BY <1>1, <1>2, <1>3, <1>4, <1>5, <1>6, <1>7, <1>8, <1>9 DEF Signal

-----------------------------------------------------------------------------
(* The parties of a call and the index.                                    *)

LEMMA StandsForFact ==
    ASSUME TypeOK, ConnectionsOK, NEW p, NEW u \in Users, NEW D,
           StandsFor(p, u, D), p \in Sessions
    PROVE  device[p] # None
BY DEF StandsFor, ConnectionsOK, BeingReplaced, TypeOK

\* A connection of an account stands for its own device.
LEMMA MemberStands ==
    ASSUME TypeOK, ConnectionsOK, NEW u \in Users, NEW p \in members[u]
    PROVE  p \in Sessions /\ StandsFor(p, u, {device[p]}) /\ StandsFor(p, u, Devices)
<1>1. p \in Sessions
  BY DEF TypeOK
<1>2. uid[p] = u /\ u # None
  BY <1>1 DEF ConnectionsOK
<1> QED
  BY <1>1, <1>2 DEF ConnectionsOK, StandsFor, TypeOK

LEMMA LookupStands ==
    ASSUME TypeOK, ConnectionsOK, NEW u \in Users, NEW d, NEW e,
           DeviceSession(u, d, e) # None
    PROVE  /\ StandsFor(DeviceSession(u, d, e), u, {d})
           /\ StandsFor(DeviceSession(u, d, e), u, Devices)
           /\ DeviceSession(u, d, e) \in Sessions
           /\ DeviceSession(u, d, e) # e
           /\ uid[DeviceSession(u, d, e)] = u
<1>1. /\ DeviceSession(u, d, e) \in members[u]
      /\ device[DeviceSession(u, d, e)] = d
      /\ DeviceSession(u, d, e) # e
  BY DeviceSessionFact
<1> QED
  BY <1>1, MemberStands DEF ConnectionsOK

LEMMA ReattachedStands ==
    ASSUME TypeOK, ConnectionsOK, NEW c \in Call, SidesStand(c), c.callerUid # c.calleeUid, NEW e
    PROVE  SidesStand(Reattached(c, e))
<1>1. c.callerUid \in Users /\ c.calleeUid \in Users
  BY DEF Call
<1> DEFINE d == Reattached(c, e)
           r == DeviceSession(c.callerUid, c.callerDevice, e)
           q == DeviceSession(c.calleeUid, c.calleeDevice, e)
<1>2. /\ r # None => StandsFor(r, c.callerUid, {c.callerDevice})
      /\ q # None => StandsFor(q, c.calleeUid, {c.calleeDevice})
      /\ r # None => r \notin c.ringing
  BY <1>1, LookupStands DEF SidesStand, StandsFor
<1>3. /\ d.callerUid = c.callerUid /\ d.calleeUid = c.calleeUid
      /\ d.callerDevice = c.callerDevice /\ d.calleeDevice = c.calleeDevice
      /\ d.ringing = c.ringing
      /\ d.caller \in {r, c.caller} /\ d.callee \in {q, c.callee}
  BY ReattachedFact
<1> HIDE DEF d, r, q
<1>4. d.caller \notin d.ringing
  BY <1>2, <1>3 DEF SidesStand, Call
<1>5. SidesStand(d)
  BY <1>2, <1>3, <1>4 DEF SidesStand
<1> QED
  BY <1>5 DEF d

LEMMA ReachedStands ==
    ASSUME TypeOK, ConnectionsOK, NEW c \in Call, SidesStand(c), c.callerUid # c.calleeUid, NEW x
    PROVE  SidesStand(Reached(c, x))
BY ReattachedStands DEF Reached

LEMMA SettledStands ==
    ASSUME NEW c \in Call
    PROVE  /\ SidesStand(c) => SidesStand(Settled(c))
           /\ Parties(Settled(c)) = Parties(c)
BY DEF Settled, Call, SidesStand, Parties

LEMMA ReachedParties ==
    ASSUME TypeOK, NEW c \in Call, NEW x
    PROVE  LET d == Reached(c, x) IN
           /\ Parties(c) \subseteq Parties(d)
           /\ c.caller # None => d.caller = c.caller
           /\ c.callee # None => d.callee = c.callee
           /\ d.ringing = c.ringing
           /\ x = c.caller /\ ~c.answered => d.callee = c.callee
BY ReattachedFact DEF Reached, Parties

\* A signal disturbs one call; it is enough to look at that one.
LEMMA OneCallIndex ==
    ASSUME TypeOK, IndexMatchesCalls, NEW i \in CallIds, NEW c \in Call, Put(i, c),
           \A t \in Sessions : i \in index'[t] <=> t \in Parties(c),
           \A t \in Sessions, j \in CallIds \ {i} : j \in index'[t] <=> j \in index[t]
    PROVE  IndexMatchesCalls'
BY DEF TypeOK, IndexMatchesCalls, Put, Live

LEMMA EraseIndex ==
    ASSUME TypeOK, IndexMatchesCalls, NEW i \in CallIds, NEW who, i \in Live,
           Put(i, None), index' = Unindexed(index, who, i), Parties(call[i]) \subseteq who
    PROVE  IndexMatchesCalls'
BY DEF TypeOK, IndexMatchesCalls, Put, Live, Unindexed

\* Connections as they are, a call either as it was, or over, or one whose
\* sides stand for their accounts and devices.
LEMMA OneCallStands ==
    ASSUME TypeOK, PartiesStandForTheirSides, UNCHANGED conns,
           \A i \in CallIds : call'[i] \in {call[i], None} \/ SidesStand(call'[i])
    PROVE  PartiesStandForTheirSides'
BY DEF PartiesStandForTheirSides, SidesStand, StandsFor, BeingReplaced, Live, conns

LEMMA PutStands ==
    ASSUME TypeOK, PartiesStandForTheirSides, UNCHANGED conns,
           NEW i \in CallIds, NEW c, Put(i, c), c = None \/ SidesStand(c)
    PROVE  PartiesStandForTheirSides'
<1>1. \A j \in CallIds : call'[j] \in {call[j], None} \/ SidesStand(call'[j])
  BY DEF Put, TypeOK
<1> QED
  BY <1>1, OneCallStands

IndexAndSides == IndexMatchesCalls /\ PartiesStandForTheirSides

RegistryOK == IndexAndSides /\ EveryCallCanEnd

LEMMA InitRegistryOK == Init => RegistryOK
BY DEF Init, RegistryOK, IndexAndSides, IndexMatchesCalls, PartiesStandForTheirSides, EveryCallCanEnd, Live

LEMMA InviteRegistry ==
    ASSUME TypeOK, ConnectionsOK, RegistryOK,
           NEW s \in Sessions, NEW to \in Users, NEW i \in CallIds, Invite(s, to, i)
    PROVE  IndexAndSides'
<1> DEFINE c == [callerUid |-> uid[s], calleeUid |-> to,
                 caller |-> s, callerDevice |-> device[s],
                 ringing |-> members[to], callee |-> None, calleeDevice |-> None,
                 answered |-> FALSE, rang |-> FALSE, busy |-> FALSE, clock |-> "on"]
<1>1. uid[s] \in Users /\ device[s] \in Devices /\ members[to] \subseteq Sessions
  BY DEF Invite, CanSignal, TypeOK, ConnectionsOK
<1>2. c \in Call
  BY <1>1 DEF Call
<1>3. s \in members[uid[s]]
  BY <1>1 DEF ConnectionsOK
<1>4. SidesStand(c)
  <2>1. StandsFor(s, uid[s], {device[s]})
    BY <1>1, <1>3, MemberStands
  <2>2. \A p \in members[to] : StandsFor(p, to, Devices)
    BY MemberStands
  <2>3. s \notin members[to]
    BY <1>1 DEF ConnectionsOK, Invite
  <2> QED
    BY <2>1, <2>2, <2>3 DEF SidesStand
<1>5. /\ Put(i, c) /\ index' = Indexed(index, {s} \cup members[to], i)
      /\ call[i] = None /\ UNCHANGED conns
  BY DEF Invite
<1>6. Parties(c) = {s} \cup members[to]
  BY <1>1 DEF Parties
<1> HIDE DEF c
<1>7. PartiesStandForTheirSides'
  BY <1>4, <1>5, PutStands DEF RegistryOK, IndexAndSides
<1>8. \A t \in Sessions : i \in index'[t] <=> t \in Parties(c)
  BY <1>1, <1>5, <1>6 DEF RegistryOK, IndexAndSides, IndexMatchesCalls, Indexed, Live, TypeOK
<1>9. \A t \in Sessions, j \in CallIds \ {i} : j \in index'[t] <=> j \in index[t]
  BY <1>5 DEF Indexed, TypeOK
<1>10. IndexMatchesCalls'
  BY <1>2, <1>5, <1>8, <1>9, OneCallIndex DEF RegistryOK, IndexAndSides
<1> QED
  BY <1>7, <1>10 DEF RegistryOK, IndexAndSides

LEMMA LiveStands ==
    ASSUME TypeOK, RegistryOK, NEW i \in Live
    PROVE  /\ i \in CallIds /\ call[i] \in Call /\ SidesStand(call[i])
           /\ call[i].callerUid # call[i].calleeUid
           /\ \A t \in Sessions : i \in index[t] <=> t \in Parties(call[i])
BY DEF TypeOK, RegistryOK, IndexAndSides, IndexMatchesCalls, PartiesStandForTheirSides, EveryCallCanEnd,
       WellFormed, Live

\* A connection that signals for a side of a call stands for that side.
LEMMA AsCallerStands ==
    ASSUME TypeOK, ConnectionsOK, RegistryOK, NEW s \in Sessions, NEW i \in Live,
           CanSignal(s), IsCaller(s, call[i])
    PROVE  /\ AsCaller(s, call[i]) \in Call
           /\ SidesStand(AsCaller(s, call[i]))
           /\ AsCaller(s, call[i]).caller = s
           /\ AsCaller(s, call[i]).callerUid # AsCaller(s, call[i]).calleeUid
           /\ Parties(AsCaller(s, call[i])) = Parties(call[i]) \cup {s}
<1>1. call[i] \in Call /\ SidesStand(call[i]) /\ call[i].callerUid # call[i].calleeUid
  BY LiveStands
<1>2. uid[s] = call[i].callerUid /\ call[i].callerUid \in Users
  BY <1>1 DEF IsCaller, Call
<1>3. StandsFor(s, call[i].callerUid, {device[s]})
  BY <1>2, MemberStands DEF ConnectionsOK
<1>4. StandsFor(s, call[i].callerUid, {call[i].callerDevice})
  BY <1>1, <1>3 DEF IsCaller, SidesStand
<1>5. s \notin call[i].ringing
  BY <1>1, <1>2, LiveStands DEF SidesStand, StandsFor
<1> QED
  BY <1>1, <1>4, <1>5 DEF AsCaller, Call, SidesStand, Parties, IsCaller

LEMMA AsCalleeStands ==
    ASSUME TypeOK, ConnectionsOK, RegistryOK, NEW s \in Sessions, NEW i \in Live,
           CanSignal(s), IsCallee(s, call[i])
    PROVE  /\ AsCallee(s, call[i]) \in Call
           /\ SidesStand(AsCallee(s, call[i]))
           /\ AsCallee(s, call[i]).callee = s
           /\ AsCallee(s, call[i]).callerUid # AsCallee(s, call[i]).calleeUid
           /\ Parties(AsCallee(s, call[i])) = Parties(call[i]) \cup {s}
<1>1. call[i] \in Call /\ SidesStand(call[i]) /\ call[i].callerUid # call[i].calleeUid
  BY LiveStands
<1>2. uid[s] = call[i].calleeUid /\ call[i].calleeUid \in Users
  BY <1>1 DEF IsCallee, Call
<1>3. StandsFor(s, call[i].calleeUid, {device[s]})
  BY <1>2, MemberStands DEF ConnectionsOK
<1>4. StandsFor(s, call[i].calleeUid, {call[i].calleeDevice})
  BY <1>1, <1>3 DEF IsCallee, SidesStand
<1> QED
  BY <1>1, <1>4 DEF AsCallee, Call, SidesStand, Parties, IsCallee

LEMMA CallerSignalsRegistry ==
    ASSUME TypeOK, ConnectionsOK, RegistryOK, NEW s \in Sessions, NEW i \in CallIds,
           CallerEnds(s, i) \/ CallerStreams(s, i) \/ CallerTakesPlace(s, i)
    PROVE  IndexAndSides'
<1> DEFINE c == AsCaller(s, call[i])
           d == Reached(c, c.callee)
<1>1. CanSignal(s) /\ i \in Live /\ IsCaller(s, call[i]) /\ UNCHANGED conns
  BY DEF CallerEnds, CallerStreams, CallerTakesPlace
<1>2. /\ c \in Call /\ SidesStand(c) /\ c.caller = s /\ c.callerUid # c.calleeUid
      /\ Parties(c) = Parties(call[i]) \cup {s}
  BY <1>1, AsCallerStands
<1>3. /\ d \in Call /\ SidesStand(d) /\ Parties(c) \subseteq Parties(d)
      /\ d.caller = s /\ d.ringing = c.ringing /\ (c.callee # None => d.callee = c.callee)
  BY <1>2, ReachedType, ReachedStands, ReachedParties
<1>4. \A t \in Sessions : i \in index[t] <=> t \in Parties(call[i])
  BY <1>1, LiveStands
<1> HIDE DEF c, d
<1>5. CASE CallerEnds(s, i)
  <2>1. Erase(i, IF c.answered THEN d ELSE c)
    BY <1>5, Zenon DEF CallerEnds, c, d
  <2>2. Parties(call[i]) \subseteq Parties(IF c.answered THEN d ELSE c)
    BY <1>2, <1>3
  <2> QED
    BY <1>1, <2>1, <2>2, EraseIndex, PutStands DEF Erase, RegistryOK, IndexAndSides
<1>6. CASE CallerStreams(s, i)
  <2>1. Put(i, Settled(d)) /\ index' = Indexed(index, {s, d.callee}, i)
    BY <1>6 DEF CallerStreams, c, d
  <2>2. Settled(d) \in Call /\ SidesStand(Settled(d)) /\ Parties(Settled(d)) = Parties(d)
    BY <1>3, SettledType, SettledStands
  <2>3. \A t \in Sessions : i \in index'[t] <=> t \in Parties(d)
    BY <1>2, <1>3, <1>4, <2>1 DEF Indexed, Parties, TypeOK
  <2>4. \A t \in Sessions, j \in CallIds \ {i} : j \in index'[t] <=> j \in index[t]
    BY <2>1 DEF Indexed, TypeOK
  <2> QED
    BY <1>1, <2>1, <2>2, <2>3, <2>4, OneCallIndex, PutStands DEF RegistryOK, IndexAndSides
<1>7. CASE CallerTakesPlace(s, i)
  <2>1. Put(i, c) /\ index' = Indexed(index, {s}, i)
    BY <1>7 DEF CallerTakesPlace, c
  <2>2. \A t \in Sessions : i \in index'[t] <=> t \in Parties(c)
    BY <1>2, <1>4, <2>1 DEF Indexed, TypeOK
  <2>3. \A t \in Sessions, j \in CallIds \ {i} : j \in index'[t] <=> j \in index[t]
    BY <2>1 DEF Indexed, TypeOK
  <2> QED
    BY <1>1, <1>2, <2>1, <2>2, <2>3, OneCallIndex, PutStands DEF RegistryOK, IndexAndSides
<1> QED
  BY <1>5, <1>6, <1>7

LEMMA CalleeSignalsRegistry ==
    ASSUME TypeOK, ConnectionsOK, RegistryOK, NEW s \in Sessions, NEW i \in CallIds,
           CalleeEnds(s, i) \/ CalleeStreams(s, i) \/ CalleeTakesPlace(s, i)
    PROVE  IndexAndSides'
<1> DEFINE c == AsCallee(s, call[i])
           d == Reached(c, c.caller)
<1>1. CanSignal(s) /\ i \in Live /\ IsCallee(s, call[i]) /\ UNCHANGED conns
  BY DEF CalleeEnds, CalleeStreams, CalleeTakesPlace
<1>2. /\ c \in Call /\ SidesStand(c) /\ c.callee = s /\ c.callerUid # c.calleeUid
      /\ Parties(c) = Parties(call[i]) \cup {s}
  BY <1>1, AsCalleeStands
<1>3. /\ d \in Call /\ SidesStand(d) /\ Parties(c) \subseteq Parties(d)
      /\ d.callee = s /\ d.ringing = c.ringing /\ (c.caller # None => d.caller = c.caller)
  BY <1>2, ReachedType, ReachedStands, ReachedParties
<1>4. \A t \in Sessions : i \in index[t] <=> t \in Parties(call[i])
  BY <1>1, LiveStands
<1> HIDE DEF c, d
<1>5. CASE CalleeEnds(s, i)
  <2>1. Erase(i, d)
    BY <1>5 DEF CalleeEnds, c, d
  <2> QED
    BY <1>1, <1>2, <1>3, <2>1, EraseIndex, PutStands DEF Erase, RegistryOK, IndexAndSides
<1>6. CASE CalleeStreams(s, i)
  <2>1. Put(i, Settled(d)) /\ index' = Indexed(index, {s, d.caller}, i)
    BY <1>6 DEF CalleeStreams, c, d
  <2>2. Settled(d) \in Call /\ SidesStand(Settled(d)) /\ Parties(Settled(d)) = Parties(d)
    BY <1>3, SettledType, SettledStands
  <2>3. \A t \in Sessions : i \in index'[t] <=> t \in Parties(d)
    BY <1>2, <1>3, <1>4, <2>1 DEF Indexed, Parties, TypeOK
  <2>4. \A t \in Sessions, j \in CallIds \ {i} : j \in index'[t] <=> j \in index[t]
    BY <2>1 DEF Indexed, TypeOK
  <2> QED
    BY <1>1, <2>1, <2>2, <2>3, <2>4, OneCallIndex, PutStands DEF RegistryOK, IndexAndSides
<1>7. CASE CalleeTakesPlace(s, i)
  <2>1. Put(i, c) /\ index' = Indexed(index, {s}, i)
    BY <1>7 DEF CalleeTakesPlace, c
  <2>2. \A t \in Sessions : i \in index'[t] <=> t \in Parties(c)
    BY <1>2, <1>4, <2>1 DEF Indexed, TypeOK
  <2>3. \A t \in Sessions, j \in CallIds \ {i} : j \in index'[t] <=> j \in index[t]
    BY <2>1 DEF Indexed, TypeOK
  <2> QED
    BY <1>1, <1>2, <2>1, <2>2, <2>3, OneCallIndex, PutStands DEF RegistryOK, IndexAndSides
<1> QED
  BY <1>5, <1>6, <1>7

LEMMA LateAcceptRegistry ==
    ASSUME TypeOK, RegistryOK, NEW s \in Sessions, NEW i \in CallIds,
           LateAccept(s, i)
    PROVE  IndexAndSides'
<1>1. /\ i \in Live /\ UNCHANGED conns /\ index' = index
      /\ Put(i, Settled(call[i]))
  BY DEF LateAccept
<1>2. /\ call[i] \in Call /\ SidesStand(call[i])
      /\ \A t \in Sessions : i \in index[t] <=> t \in Parties(call[i])
  BY <1>1, LiveStands
<1>3. /\ Settled(call[i]) \in Call /\ SidesStand(Settled(call[i]))
      /\ Parties(Settled(call[i])) = Parties(call[i])
  BY <1>2, SettledType, SettledStands
<1> QED
  BY <1>1, <1>2, <1>3, OneCallIndex, PutStands DEF RegistryOK, IndexAndSides

\* A ringing connection is neither side of its unanswered call.
LEMMA CallersAreNotRung ==
    ASSUME TypeOK, RegistryOK, NEW i \in Live,
           NEW s \in call[i].ringing, ~call[i].answered
    PROVE  s # call[i].caller /\ s # call[i].callee
<1>1. call[i] \in Call /\ SidesStand(call[i]) /\ WellFormed(call[i])
  BY LiveStands, LiveWellFormed DEF RegistryOK
<1> QED
  BY <1>1 DEF SidesStand, WellFormed, Call

LEMMA RingSignalsRegistry ==
    ASSUME TypeOK, ConnectionsOK, RegistryOK, NEW s \in Sessions, NEW i \in CallIds,
           Ringing(s, i) \/ Busy(s, i) \/ Accept(s, i) \/ Decline(s, i)
    PROVE  IndexAndSides'
<1>1. /\ i \in Live /\ UNCHANGED conns /\ ~call[i].answered /\ s \in call[i].ringing
      /\ uid[s] = call[i].calleeUid
  BY DEF Ringing, Busy, Accept, Decline, Rings, RingsOrRang
<1>2. /\ call[i] \in Call /\ SidesStand(call[i]) /\ call[i].callerUid # call[i].calleeUid
      /\ \A t \in Sessions : i \in index[t] <=> t \in Parties(call[i])
  BY <1>1, LiveStands
<1>3. CASE Ringing(s, i) \/ Decline(s, i)
  <2> DEFINE d == Reached(call[i], call[i].caller)
             r == [d EXCEPT !.rang = TRUE]
  <2>1. /\ d \in Call /\ SidesStand(d) /\ Parties(call[i]) \subseteq Parties(d)
        /\ d.ringing = call[i].ringing /\ d.callee = call[i].callee
        /\ (call[i].caller # None => d.caller = call[i].caller)
    BY <1>1, <1>2, ReachedType, ReachedStands, ReachedParties
  <2>2. r \in Call /\ SidesStand(r) /\ Parties(r) = Parties(d)
    BY <2>1 DEF Call, SidesStand, Parties
  <2>3. CASE Ringing(s, i)
    <3>1. Put(i, r) /\ index' = Indexed(index, Taken(call[i], d), i)
      BY <2>3 DEF Ringing
    <3> HIDE DEF d, r
    <3>2. \A t \in Sessions : i \in index'[t] <=> t \in Parties(d)
      BY <1>2, <2>1, <3>1 DEF Indexed, Parties, Taken, TypeOK
    <3>3. \A t \in Sessions, j \in CallIds \ {i} : j \in index'[t] <=> j \in index[t]
      BY <3>1 DEF Indexed, TypeOK
    <3> QED
      BY <1>1, <2>2, <3>1, <3>2, <3>3, OneCallIndex, PutStands DEF RegistryOK, IndexAndSides
  <2>4. CASE Decline(s, i)
    <3>1. Erase(i, d)
      BY <2>4 DEF Decline
    <3> HIDE DEF d, r
    <3> QED
      BY <1>1, <2>1, <3>1, EraseIndex, PutStands DEF Erase, RegistryOK, IndexAndSides
  <2> QED
    BY <1>3, <2>3, <2>4
<1>4. CASE Busy(s, i)
  <2> DEFINE c == [call[i] EXCEPT !.busy = TRUE, !.ringing = @ \ {s}]
             d == Reached(c, c.caller)
  <2>1. /\ c \in Call /\ SidesStand(c) /\ c.caller = call[i].caller /\ c.callee = call[i].callee
        /\ Parties(c) \cup {s} = Parties(call[i])
        /\ c.ringing = call[i].ringing \ {s}
    BY <1>1, <1>2, ZenonT(60) DEF Call, SidesStand, Parties
  <2>2. Parties(c) \subseteq Parties(d)
    BY <2>1, ReachedParties
  <2>3. CASE c.ringing # {}
    <3>1. Put(i, c) /\ index' = Unindexed(index, {s}, i)
      BY <1>4, <2>3 DEF Busy
    <3>2. s \notin Parties(c)
      <4>1. s # call[i].caller /\ s # call[i].callee
        BY <1>1, CallersAreNotRung
      <4> QED
        BY <2>1, <4>1 DEF Parties
    <3> HIDE DEF c, d
    <3>3. \A t \in Sessions : i \in index'[t] <=> t \in Parties(c)
      BY <1>2, <2>1, <3>1, <3>2 DEF Unindexed, TypeOK
    <3>4. \A t \in Sessions, j \in CallIds \ {i} : j \in index'[t] <=> j \in index[t]
      BY <3>1 DEF Unindexed, TypeOK
    <3> QED
      BY <1>1, <2>1, <3>1, <3>3, <3>4, OneCallIndex, PutStands DEF RegistryOK, IndexAndSides
  <2>4. CASE c.ringing = {}
    <3>1. Put(i, None) /\ index' = Unindexed(index, {s} \cup Parties(d), i)
      BY <1>4, <2>4 DEF Busy
    <3> HIDE DEF c, d
    <3>2. Parties(call[i]) \subseteq {s} \cup Parties(d)
      BY <2>1, <2>2
    <3> QED
      BY <1>1, <3>1, <3>2, EraseIndex, PutStands DEF RegistryOK, IndexAndSides
  <2> QED
    BY <2>3, <2>4
<1>5. CASE Accept(s, i)
  <2> DEFINE others == Rivals(s, call[i])
             c == [call[i] EXCEPT !.answered = TRUE, !.callee = s,
                                  !.calleeDevice = device[s], !.clock = "off"]
             d == Reattached(c, None)
             f == [d EXCEPT !.ringing = {}]
  <2>1. StandsFor(s, call[i].calleeUid, {device[s]}) /\ device[s] \in Devices \cup {None}
    <3>1. s \in members[call[i].calleeUid] /\ call[i].calleeUid \in Users
      BY <1>1, <1>2 DEF ConnectionsOK, Call
    <3> QED
      BY <3>1, MemberStands DEF TypeOK
  <2>2. /\ c \in Call /\ SidesStand(c) /\ c.callee = s /\ c.caller = call[i].caller
    BY <1>1, <1>2, <2>1 DEF Call, SidesStand
  <2>3. /\ d \in Call /\ SidesStand(d) /\ d.callee = s
        /\ (c.caller # None => d.caller = c.caller)
    <3>1. c.callerUid # c.calleeUid
      BY <1>1, <1>2, LiveWellFormed DEF WellFormed, Call
    <3> HIDE DEF c
    <3> QED
      BY <2>2, <3>1, ReattachedType, ReattachedStands, ReattachedFact
  <2>4. f \in Call /\ SidesStand(f) /\ Parties(f) = ({d.caller, s} \ {None})
    BY <2>3 DEF Call, SidesStand, Parties
  <2>5. Put(i, f) /\ index' = Unindexed(Indexed(index, Taken(c, d), i), others, i)
    BY <1>5, <2>2 DEF Accept
  <2>6. others = call[i].ringing \ {s}
    BY DEF Rivals
  <2>7. d.caller \notin others
    <3>1. d.ringing = call[i].ringing
      <4>1. d.ringing = c.ringing
        <5> HIDE DEF c
        <5> QED
          BY <2>2, ReattachedFact
      <4> QED
        BY <1>2, <4>1 DEF Call
    <3> QED
      BY <2>3, <2>6, <3>1 DEF SidesStand
  <2> HIDE DEF c, d, f, others
  <2>8. \A t \in Sessions : i \in index'[t] <=> t \in Parties(f)
    <3>1. \A t \in Sessions : t \in others => t \notin Parties(f)
      BY <2>4, <2>6, <2>7
    <3>2. \A t \in Sessions : i \in index[t]
            <=> t \in (({call[i].caller, call[i].callee} \ {None}) \cup others \cup {s})
      BY <1>1, <1>2, <2>6 DEF Parties
    <3>3. call[i].callee = None
      BY <1>1, LiveWellFormed DEF WellFormed, RegistryOK
    <3>4. Taken(c, d) = (IF c.caller = None THEN {d.caller} ELSE {})
                          \cup (IF c.callee = None THEN {d.callee} ELSE {})
      BY DEF Taken
    <3>5. s # None
      OBVIOUS
    <3> QED
      BY <2>2, <2>3, <2>4, <2>5, <2>6, <3>1, <3>2, <3>3, <3>4, <3>5 DEF Indexed, Unindexed, TypeOK
  <2>9. \A t \in Sessions, j \in CallIds \ {i} : j \in index'[t] <=> j \in index[t]
    BY <2>5 DEF Indexed, Unindexed, TypeOK
  <2> QED
    BY <1>1, <2>4, <2>5, <2>8, <2>9, OneCallIndex, PutStands DEF RegistryOK, IndexAndSides
<1> QED
  BY <1>3, <1>4, <1>5

-----------------------------------------------------------------------------
(* A connection leaves its calls.                                          *)

\* What call_leave_locked makes of a call, field by field.
LEMMA LeftFact ==
    ASSUME TypeOK, NEW c \in Call, NEW s \in Sessions
    PROVE  LET d == Left(c, s) IN
           /\ d.callerUid = c.callerUid /\ d.calleeUid = c.calleeUid
           /\ d.callerDevice = c.callerDevice /\ d.calleeDevice = c.calleeDevice
           /\ d.answered = c.answered
           /\ d.caller = IF c.caller \in {s, None}
                           THEN DeviceSession(c.callerUid, c.callerDevice, s) ELSE c.caller
           /\ d.callee = IF c.callee \in {s, None}
                           THEN IF c.answered
                                  THEN DeviceSession(c.calleeUid, c.calleeDevice, s) ELSE None
                           ELSE c.callee
           /\ s \in c.ringing => d.ringing = (c.ringing \ {s}) \cup RingsOn(c, s)
           /\ s \notin c.ringing => d.ringing = c.ringing
           /\ d.clock = IF ~c.answered THEN c.clock
                        ELSE IF d.caller # None /\ d.callee # None THEN "off"
                        ELSE IF c.clock = "off" THEN "on" ELSE c.clock
<1> DEFINE b == [c EXCEPT !.caller = IF @ = s THEN None ELSE @,
                          !.callee = IF @ = s THEN None ELSE @]
           r == Reattached(b, s)
<1>1. /\ b \in Call
      /\ b.callerUid = c.callerUid /\ b.calleeUid = c.calleeUid
      /\ b.callerDevice = c.callerDevice /\ b.calleeDevice = c.calleeDevice
      /\ b.answered = c.answered /\ b.ringing = c.ringing /\ b.clock = c.clock
      /\ b.caller = IF c.caller = s THEN None ELSE c.caller
      /\ b.callee = IF c.callee = s THEN None ELSE c.callee
  BY DEF Call
<1>2. r = WithoutSide(c, s)
  BY DEF WithoutSide
<1> HIDE DEF b
<1>3. /\ r \in Call
      /\ r.callerUid = c.callerUid /\ r.calleeUid = c.calleeUid
      /\ r.callerDevice = c.callerDevice /\ r.calleeDevice = c.calleeDevice
      /\ r.answered = c.answered /\ r.ringing = c.ringing
      /\ r.caller = IF b.caller = None
                      THEN DeviceSession(c.callerUid, c.callerDevice, s) ELSE b.caller
      /\ r.callee = IF c.answered /\ b.callee = None
                      THEN DeviceSession(c.calleeUid, c.calleeDevice, s) ELSE b.callee
      /\ r.clock = IF ~c.answered THEN c.clock
                   ELSE IF r.caller # None /\ r.callee # None THEN "off"
                   ELSE IF c.clock = "off" THEN "on" ELSE c.clock
  BY <1>1, ReattachedType, ReattachedFact
<1>4. RingsOn(r, s) = RingsOn(c, s)
  BY <1>3 DEF RingsOn
<1> HIDE DEF r
<1>5. Left(c, s) = IF s \in c.ringing
                     THEN [r EXCEPT !.ringing = (@ \ {s}) \cup RingsOn(c, s)] ELSE r
  BY <1>2, <1>3, <1>4 DEF Left, WithoutRinger
<1> QED
  BY <1>1, <1>3, <1>5 DEF Call

LEMMA LeftParties ==
    ASSUME TypeOK, NEW c \in Call, NEW s \in Sessions
    PROVE  \A t \in Sessions : t \in Parties(Left(c, s))
              <=> (t # s /\ (t \in Parties(c) \/ t \in Joins(c, s)))
<1> DEFINE b == [c EXCEPT !.caller = IF @ = s THEN None ELSE @,
                          !.callee = IF @ = s THEN None ELSE @]
           d == Left(c, s)
<1>1. /\ b.caller = (IF c.caller = s THEN None ELSE c.caller)
      /\ b.callee = (IF c.callee = s THEN None ELSE c.callee)
  BY DEF Call
<1>2. Joins(c, s) = Taken(b, d) \cup (IF s \in c.ringing THEN RingsOn(c, s) ELSE {})
  BY DEF Joins
<1>3. c.callerUid \in Users /\ c.calleeUid \in Users
  BY DEF Call
<1>4. /\ DeviceSession(c.callerUid, c.callerDevice, s) # s
      /\ DeviceSession(c.calleeUid, c.calleeDevice, s) # s
      /\ s \notin RingsOn(c, s)
  BY <1>3, DeviceSessionFact DEF RingsOn
<1>5. /\ d.caller = IF c.caller \in {s, None}
                      THEN DeviceSession(c.callerUid, c.callerDevice, s) ELSE c.caller
      /\ d.callee = IF c.callee \in {s, None}
                      THEN IF c.answered
                             THEN DeviceSession(c.calleeUid, c.calleeDevice, s) ELSE None
                      ELSE c.callee
      /\ s \in c.ringing => d.ringing = (c.ringing \ {s}) \cup RingsOn(c, s)
      /\ s \notin c.ringing => d.ringing = c.ringing
  <2> HIDE DEF b
  <2> QED BY LeftFact
<1> HIDE DEF b, d
<1>7. \A t \in Sessions : t \in Taken(b, d)
              <=> \/ (c.caller \in {s, None} /\ t = d.caller)
                  \/ (c.callee \in {s, None} /\ t = d.callee)
  BY <1>1 DEF Taken
<1>8. s # None
  OBVIOUS
<1>9. \A t \in Sessions : t \in Parties(d)
              <=> (t \in {d.caller, d.callee} \/ t \in d.ringing)
  BY DEF Parties
<1>10. \A t \in Sessions : t \in Parties(c)
              <=> (t \in {c.caller, c.callee} \/ t \in c.ringing)
  BY DEF Parties
<1>6. \A t \in Sessions : t \in Parties(d)
              <=> (t # s /\ (t \in Parties(c) \/ t \in Joins(c, s)))
  BY <1>2, <1>4, <1>5, <1>7, <1>8, <1>9, <1>10
<1> QED
  BY <1>6 DEF d

LEMMA LeftStands ==
    ASSUME TypeOK, ConnectionsOK, NEW c \in Call, SidesStand(c), c.callerUid # c.calleeUid,
           NEW s \in Sessions
    PROVE  SidesStand(Left(c, s))
<1> DEFINE d == Left(c, s)
           r == DeviceSession(c.callerUid, c.callerDevice, s)
           q == DeviceSession(c.calleeUid, c.calleeDevice, s)
<1>1. c.callerUid \in Users /\ c.calleeUid \in Users
  BY DEF Call
<1>2. /\ r # None => StandsFor(r, c.callerUid, {c.callerDevice}) /\ uid[r] = c.callerUid
      /\ q # None => StandsFor(q, c.calleeUid, {c.calleeDevice})
  BY <1>1, LookupStands
<1>3. \A p \in RingsOn(c, s) : StandsFor(p, c.calleeUid, Devices) /\ uid[p] = c.calleeUid
  <2> DEFINE o == DeviceSession(c.calleeUid, device[s], s)
  <2>1. o # None => StandsFor(o, c.calleeUid, Devices) /\ uid[o] = c.calleeUid
    BY <1>1, LookupStands
  <2>2. \A p \in RingsOn(c, s) : p = o /\ o # None
    BY DEF RingsOn
  <2> QED
    BY <2>1, <2>2
<1>4. /\ d.callerUid = c.callerUid /\ d.calleeUid = c.calleeUid
      /\ d.callerDevice = c.callerDevice /\ d.calleeDevice = c.calleeDevice
      /\ d.caller \in {r, c.caller} /\ d.callee \in {q, c.callee, None}
      /\ d.ringing \subseteq c.ringing \cup RingsOn(c, s)
      /\ None \notin d.ringing
  <2>1. d \in Call
    BY LeftType
  <2>2. None \notin d.ringing
    BY <2>1 DEF Call
  <2>3. d.ringing \subseteq c.ringing \cup RingsOn(c, s)
    BY LeftFact
  <2>4. d.caller \in {r, c.caller} /\ d.callee \in {q, c.callee, None}
    BY LeftFact
  <2> QED
    BY <2>2, <2>3, <2>4, LeftFact
<1> HIDE DEF d, r, q
<1>5. ASSUME d.caller \in d.ringing PROVE FALSE
  <2>1. d.caller # None
    BY <1>4, <1>5
  <2>2. StandsFor(d.caller, c.callerUid, {c.callerDevice})
    BY <1>2, <1>4, <2>1 DEF SidesStand
  <2>3. uid[d.caller] \in {c.callerUid, None}
    BY <2>2 DEF StandsFor
  <2>4. CASE d.caller \in RingsOn(c, s)
    BY <1>1, <1>3, <2>3, <2>4
  <2>5. CASE d.caller \in c.ringing
    <3>1. d.caller = r
      BY <1>4, <2>5 DEF SidesStand
    <3>2. StandsFor(r, c.calleeUid, Devices) /\ uid[r] = c.callerUid
      BY <1>2, <2>1, <2>5, <3>1 DEF SidesStand
    <3> QED
      BY <1>1, <3>2 DEF StandsFor
  <2> QED
    BY <1>4, <1>5, <2>4, <2>5
<1>6. SidesStand(d)
  BY <1>2, <1>3, <1>4, <1>5 DEF SidesStand
<1> QED
  BY <1>6 DEF d

\* A call that neither rang out nor was abandoned goes on.
LEMMA LeftWellFormed ==
    ASSUME TypeOK, NEW c \in Call, WellFormed(c), NEW s \in Sessions,
           ~RungOut(c, s), ~Abandoned(c, s)
    PROVE  WellFormed(Left(c, s))
<1> DEFINE d == Left(c, s)
<1>1. /\ d \in Call
      /\ d.callerUid = c.callerUid /\ d.calleeUid = c.calleeUid
      /\ d.answered = c.answered
      /\ ~c.answered /\ c.callee = None => d.callee = None
      /\ s \notin c.ringing => d.ringing = c.ringing
      /\ d.clock = IF ~c.answered THEN c.clock
                   ELSE IF d.caller # None /\ d.callee # None THEN "off"
                   ELSE IF c.clock = "off" THEN "on" ELSE c.clock
  BY LeftFact, LeftType
<1>2. s \in c.ringing /\ ~c.answered => d.ringing # {}
  BY DEF RungOut
<1> HIDE DEF d
<1>3. WellFormed(d)
  BY <1>1, <1>2 DEF WellFormed, Call
<1> QED
  BY <1>3 DEF d

\* Whatever connections do, the calls stand if their sides stood before, none
\* of them is the connection that comes or goes, and of the others only those
\* a login is about to retire lose their account.
LEMMA CarriedStands ==
    ASSUME NEW x,
           TypeOK', \A i \in CallIds : i \in Live' => SidesStand(call'[i]) /\ x \notin Parties(call'[i]),
           \A p \in Sessions \ {x} :
              /\ stage'[p] = stage[p] /\ device'[p] = device[p]
              /\ uid'[p] = uid[p] \/ (uid'[p] = None /\ \E t \in Sessions : replacing'[t] = p)
              /\ BeingReplaced(p) => \E t \in Sessions : replacing'[t] = p
    PROVE  PartiesStandForTheirSides'
<1>1. SUFFICES ASSUME NEW i \in CallIds, i \in Live' PROVE SidesStand(call[i])'
  BY DEF PartiesStandForTheirSides, Live
<1>3. PICK c : c = call'[i]
  OBVIOUS
<1>2. /\ c \in Call
      /\ SidesStand(c)
      /\ x \notin Parties(c)
  BY <1>1, <1>3 DEF TypeOK, Live
<1>4. /\ c.caller # None => c.caller \in Sessions /\ c.caller # x
      /\ c.callee # None => c.callee \in Sessions /\ c.callee # x
      /\ \A p \in c.ringing : p \in Sessions /\ p # x
  BY <1>2 DEF Call, Parties
<1>5. c.caller # None =>
         /\ stage'[c.caller] = "open" /\ device'[c.caller] \in {c.callerDevice}
         /\ uid'[c.caller] = c.callerUid \/ (uid'[c.caller] = None /\ \E t \in Sessions : replacing'[t] = c.caller)
  <2> SUFFICES ASSUME c.caller # None
               PROVE  /\ stage'[c.caller] = "open" /\ device'[c.caller] \in {c.callerDevice}
                      /\ uid'[c.caller] = c.callerUid
                           \/ (uid'[c.caller] = None /\ \E t \in Sessions : replacing'[t] = c.caller)
    OBVIOUS
  <2>1. StandsFor(c.caller, c.callerUid, {c.callerDevice})
    BY <1>2 DEF SidesStand
  <2> QED
    BY <1>4, <2>1 DEF StandsFor, BeingReplaced
<1>6. c.callee # None =>
         /\ stage'[c.callee] = "open" /\ device'[c.callee] \in {c.calleeDevice}
         /\ uid'[c.callee] = c.calleeUid \/ (uid'[c.callee] = None /\ \E t \in Sessions : replacing'[t] = c.callee)
  <2> SUFFICES ASSUME c.callee # None
               PROVE  /\ stage'[c.callee] = "open" /\ device'[c.callee] \in {c.calleeDevice}
                      /\ uid'[c.callee] = c.calleeUid
                           \/ (uid'[c.callee] = None /\ \E t \in Sessions : replacing'[t] = c.callee)
    OBVIOUS
  <2>1. StandsFor(c.callee, c.calleeUid, {c.calleeDevice})
    BY <1>2 DEF SidesStand
  <2> QED
    BY <1>4, <2>1 DEF StandsFor, BeingReplaced
<1>7. \A p \in c.ringing :
         /\ stage'[p] = "open" /\ device'[p] \in Devices
         /\ uid'[p] = c.calleeUid \/ (uid'[p] = None /\ \E t \in Sessions : replacing'[t] = p)
  <2> SUFFICES ASSUME NEW p \in c.ringing
               PROVE  /\ stage'[p] = "open" /\ device'[p] \in Devices
                      /\ uid'[p] = c.calleeUid \/ (uid'[p] = None /\ \E t \in Sessions : replacing'[t] = p)
    OBVIOUS
  <2>1. StandsFor(p, c.calleeUid, Devices)
    BY <1>2 DEF SidesStand
  <2> QED
    BY <1>4, <2>1 DEF StandsFor, BeingReplaced
<1>8. c.caller \notin c.ringing
  BY <1>2 DEF SidesStand
<1> QED
  BY <1>5, <1>6, <1>7, <1>8, <1>3 DEF BeingReplaced, SidesStand, StandsFor

LEMMA ForgetIndex ==
    ASSUME TypeOK, IndexMatchesCalls, NEW s \in Sessions, Forget(s)
    PROVE  IndexMatchesCalls'
<1>1. SUFFICES ASSUME NEW t \in Sessions, NEW i \in CallIds
               PROVE  i \in index'[t] <=> (call'[i] # None /\ t \in Parties(call'[i]))
  BY DEF IndexMatchesCalls, Live
<1> DEFINE over == RungOut(call[i], s) \/ Abandoned(call[i], s)
           touched == i \in index[s] /\ i \in Live
<1>2. call'[i] = IF touched THEN IF over THEN None ELSE Left(call[i], s) ELSE call[i]
  BY DEF Forget, CallsAfterLeave
<1>3. \A j \in CallIds : CallsAfterLeave(s)[j] = call'[j]
  BY DEF Forget
<1>4. i \in index'[t]
        <=> /\ t # s
            /\ (i \in index[t] \/ (touched /\ t \in Joins(call[i], s)))
            /\ ~(touched /\ call'[i] = None /\ t \in Parties(Left(call[i], s)))
  BY <1>3 DEF Forget, IndexAfterLeave
<1>5. i \in index[t] <=> (call[i] # None /\ t \in Parties(call[i]))
  BY DEF IndexMatchesCalls, Live
<1>6. CASE touched
  <2>1. call[i] \in Call
    BY <1>6, LiveCall
  <2>2. /\ Left(call[i], s) \in Call
        /\ t \in Parties(Left(call[i], s))
             <=> (t # s /\ (t \in Parties(call[i]) \/ t \in Joins(call[i], s)))
    BY <2>1, LeftType, LeftParties
  <2>3. Left(call[i], s) # None
    BY <2>2, NoCallAssumption
  <2> QED
    BY <1>2, <1>4, <1>5, <1>6, <2>1, <2>2, <2>3, NoCallAssumption
<1>7. CASE ~touched
  <2>1. i \notin index[s]
    BY <1>7 DEF IndexMatchesCalls
  <2>2. call[i] # None => s \notin Parties(call[i])
    BY <2>1 DEF IndexMatchesCalls, Live
  <2> QED
    BY <1>2, <1>4, <1>5, <1>7, <2>1, <2>2
<1> QED
  BY <1>6, <1>7

\* What leaving makes of the calls, before the connection is gone.
LEMMA ForgetCalls ==
    ASSUME TypeOK, ConnectionsOK, RegistryOK, NEW s \in Sessions, Forget(s)
    PROVE  /\ \A i \in CallIds : i \in Live' => SidesStand(call'[i]) /\ s \notin Parties(call'[i])
           /\ EveryCallCanEnd'
<1>1. IndexMatchesCalls'
  BY ForgetIndex DEF RegistryOK, IndexAndSides
<1>2. ASSUME NEW i \in CallIds, i \in Live'
      PROVE  SidesStand(call'[i]) /\ s \notin Parties(call'[i]) /\ WellFormed(call'[i])
  <2>1. call'[i] # None
    BY <1>2 DEF Live
  <2>2. \/ call'[i] = call[i]
        \/ /\ i \in Live /\ call'[i] = Left(call[i], s)
           /\ ~RungOut(call[i], s) /\ ~Abandoned(call[i], s)
    BY <2>1 DEF Forget, CallsAfterLeave
  <2>3. call[i] # None
    BY <2>1, <2>2 DEF Live
  <2>4. /\ i \in Live /\ call[i] \in Call
        /\ SidesStand(call[i]) /\ WellFormed(call[i])
    BY <2>3 DEF Live, TypeOK, RegistryOK, IndexAndSides, EveryCallCanEnd, PartiesStandForTheirSides
  <2>5. call[i].callerUid # call[i].calleeUid
    BY <2>4 DEF WellFormed
  <2>6. SidesStand(call'[i]) /\ WellFormed(call'[i])
    BY <2>2, <2>4, <2>5, LeftStands, LeftWellFormed
  <2>7. index'[s] = {}
    BY DEF Forget, IndexAfterLeave
  <2> QED
    BY <1>1, <1>2, <2>6, <2>7 DEF IndexMatchesCalls
<1>3. EveryCallCanEnd'
  BY <1>2 DEF EveryCallCanEnd, WellFormed, Live
<1> QED
  BY <1>2, <1>3

LEMMA LeaveRegistry ==
    ASSUME TypeOK, TypeOK', ConnectionsOK, RegistryOK, NEW s \in Sessions, Leave(s)
    PROVE  RegistryOK'
<1>1. Forget(s) /\ replacing' = replacing
  BY DEF Leave
<1>2. \A p \in Sessions \ {s} :
         /\ stage'[p] = stage[p] /\ device'[p] = device[p] /\ uid'[p] = uid[p]
         /\ BeingReplaced(p) => \E t \in Sessions : replacing'[t] = p
  BY <1>1 DEF Forget, BeingReplaced, TypeOK
<1>3. /\ \A i \in CallIds : i \in Live' => SidesStand(call'[i]) /\ s \notin Parties(call'[i])
      /\ EveryCallCanEnd'
  BY <1>1, ForgetCalls
<1>4. PartiesStandForTheirSides'
  BY <1>2, <1>3, CarriedStands
<1> QED
  BY <1>1, <1>3, <1>4, ForgetIndex DEF RegistryOK, IndexAndSides

\* Calls, index and all connections but one as they were; that one is in no
\* call, for it has no device or is gone.
LEMMA UncalledStep ==
    ASSUME TypeOK, TypeOK', ConnectionsOK, RegistryOK, NEW x,
           x \in Sessions => device[x] = None \/ stage[x] # "open",
           UNCHANGED <<call, index>>,
           \A p \in Sessions \ {x} :
              /\ stage'[p] = stage[p] /\ device'[p] = device[p]
              /\ uid'[p] = uid[p]
                   \/ (uid'[p] = None /\ \E t \in Sessions : replacing'[t] = p)
              /\ BeingReplaced(p) => \E t \in Sessions : replacing'[t] = p
    PROVE  RegistryOK'
<1>1. ASSUME NEW i \in CallIds, i \in Live'
      PROVE  SidesStand(call'[i]) /\ x \notin Parties(call'[i])
  <2>1. i \in Live /\ call'[i] = call[i] /\ SidesStand(call[i]) /\ call[i] \in Call
    BY <1>1, LiveCall DEF Live, RegistryOK, IndexAndSides, PartiesStandForTheirSides
  <2>2. call[i].callerUid \in Users /\ call[i].calleeUid \in Users
    BY <2>1 DEF Call
  <2>3. ASSUME NEW p \in Parties(call[i])
        PROVE  /\ p \in Sessions
               /\ \E v \in Users, D \in {{call[i].callerDevice}, {call[i].calleeDevice}, Devices} :
                    StandsFor(p, v, D)
    BY <2>1, <2>2 DEF Parties, SidesStand, Call
  <2>4. \A p \in Parties(call[i]) : stage[p] = "open" /\ device[p] # None
    BY <2>3, StandsForFact DEF StandsFor
  <2> QED
    BY <2>1, <2>3, <2>4
<1>2. PartiesStandForTheirSides'
  BY <1>1, CarriedStands
<1>3. IndexMatchesCalls' /\ EveryCallCanEnd'
  BY DEF RegistryOK, IndexAndSides, IndexMatchesCalls, EveryCallCanEnd, Live
<1> QED
  BY <1>2, <1>3 DEF RegistryOK, IndexAndSides

LEMMA BindRegistry ==
    ASSUME TypeOK, TypeOK', ConnectionsOK, RegistryOK,
           NEW s \in Sessions, NEW u \in Users, NEW d \in Devices, Bind(s, u, d)
    PROVE  RegistryOK'
<1> DEFINE old == DeviceSession(u, d, None)
<1>1. /\ BindReplacing(s, u, d, old)
      /\ old # None => old \in Sessions
  BY DeviceSessionFact DEF Bind
<1> HIDE DEF old
<1>2. /\ device[s] = None /\ UNCHANGED <<stage, call, index>>
      /\ uid' = [t \in Sessions |-> IF t = s THEN u ELSE IF t = old THEN None ELSE uid[t]]
      /\ device' = [device EXCEPT ![s] = d]
      /\ replacing' = [replacing EXCEPT ![s] = old]
      /\ stage[s] = "open"
  BY <1>1 DEF BindReplacing
<1>3. replacing[s] = None
  BY <1>2 DEF ConnectionsOK, TypeOK
<1>4. ASSUME NEW p \in Sessions \ {s}
      PROVE  /\ stage'[p] = stage[p] /\ device'[p] = device[p]
             /\ uid'[p] = uid[p] \/ (uid'[p] = None /\ replacing'[s] = p)
             /\ BeingReplaced(p) => \E t \in Sessions : replacing'[t] = p
  <2>1. stage'[p] = stage[p] /\ device'[p] = device[p]
    BY <1>2 DEF TypeOK
  <2>2. uid'[p] = uid[p] \/ (uid'[p] = None /\ replacing'[s] = p)
    BY <1>2 DEF TypeOK
  <2>3. ASSUME NEW t \in Sessions, replacing[t] = p PROVE replacing'[t] = p
    BY <1>2, <1>3, <2>3 DEF TypeOK
  <2> QED
    BY <2>1, <2>2, <2>3 DEF BeingReplaced
<1> QED
  BY <1>2, <1>4, UncalledStep

LEMMA RetireRegistry ==
    ASSUME TypeOK, TypeOK', ConnectionsOK, RegistryOK, NEW s \in Sessions, RetireReplaced(s)
    PROVE  RegistryOK'
<1> DEFINE r == replacing[s]
<1>1. /\ r \in Sessions
      /\ replacing' = [replacing EXCEPT ![s] = None]
      /\ \/ stage[r] = "open" /\ Forget(r)
         \/ stage[r] # "open" /\ UNCHANGED <<stage, uid, device, members, call, index>>
  BY RetireCases
<1>2. \A p \in Sessions \ {r} : BeingReplaced(p) => \E t \in Sessions : replacing'[t] = p
  <2>1. ASSUME NEW p \in Sessions \ {r}, NEW t \in Sessions, replacing[t] = p
        PROVE  replacing'[t] = p
    BY <1>1, <2>1 DEF TypeOK
  <2> QED
    BY <2>1 DEF BeingReplaced
<1> HIDE DEF r
<1>3. CASE Forget(r)
  <2>1. \A p \in Sessions \ {r} :
           stage'[p] = stage[p] /\ device'[p] = device[p] /\ uid'[p] = uid[p]
    BY <1>1, <1>3 DEF Forget, TypeOK
  <2>2. /\ \A i \in CallIds : i \in Live' => SidesStand(call'[i]) /\ r \notin Parties(call'[i])
        /\ EveryCallCanEnd'
    BY <1>1, <1>3, ForgetCalls
  <2>3. PartiesStandForTheirSides'
    BY <1>2, <2>1, <2>2, CarriedStands
  <2> QED
    BY <1>1, <1>3, <2>2, <2>3, ForgetIndex DEF RegistryOK, IndexAndSides
<1>4. CASE stage[r] # "open" /\ UNCHANGED <<stage, uid, device, members, call, index>>
  BY <1>1, <1>2, <1>4, UncalledStep
<1> QED
  BY <1>1, <1>3, <1>4

LEMMA JoinRegistry ==
    ASSUME TypeOK, TypeOK', ConnectionsOK, RegistryOK, NEW s \in Sessions, Join(s)
    PROVE  RegistryOK'
<1>1. /\ UNCHANGED <<uid, device, replacing, call, index>>
      /\ stage[s] # "open"
      /\ \A p \in Sessions \ {s} : stage'[p] = stage[p]
  BY DEF Join, TypeOK
<1>2. \A p \in Sessions : BeingReplaced(p) => \E t \in Sessions : replacing'[t] = p
  BY <1>1 DEF BeingReplaced
<1> QED
  BY <1>1, <1>2, UncalledStep

LEMMA ReattachedParties ==
    ASSUME TypeOK, NEW c \in Call, NEW e, NEW t \in Sessions
    PROVE  t \in Parties(Reattached(c, e))
             <=> (t \in Parties(c) \/ t \in Taken(c, Reattached(c, e)))
<1> DEFINE d == Reattached(c, e)
<1>1. /\ d.ringing = c.ringing
      /\ c.caller # None => d.caller = c.caller
      /\ c.callee # None => d.callee = c.callee
  BY ReattachedFact
<1> HIDE DEF d
<1>2. t \in Parties(d) <=> (t \in Parties(c) \/ t \in Taken(c, d))
  BY <1>1 DEF Parties, Taken
<1> QED
  BY <1>2 DEF d

LEMMA TimeRegistry ==
    ASSUME TypeOK, ConnectionsOK, RegistryOK, SweepCalls \/ \E i \in CallIds : TimeRunsOut(i)
    PROVE  RegistryOK'
<1>1. ASSUME NEW i \in CallIds, TimeRunsOut(i) PROVE RegistryOK'
  <2> DEFINE c == [call[i] EXCEPT !.clock = "out"]
  <2>1. /\ call[i] \in Call /\ WellFormed(call[i]) /\ SidesStand(call[i]) /\ i \in Live
        /\ Put(i, c) /\ UNCHANGED conns /\ index' = index
    BY <1>1, LiveWellFormed DEF TimeRunsOut, RegistryOK, IndexAndSides, PartiesStandForTheirSides
  <2>2. c \in Call /\ WellFormed(c) /\ SidesStand(c) /\ Parties(c) = Parties(call[i])
    BY <2>1 DEF Call, WellFormed, SidesStand, Parties
  <2>3. EveryCallCanEnd'
    BY <2>1, <2>2, PutWellFormed DEF RegistryOK
  <2>4. PartiesStandForTheirSides'
    BY <2>1, <2>2, PutStands DEF RegistryOK, IndexAndSides
  <2>5. \A t \in Sessions : i \in index'[t] <=> t \in Parties(c)
    BY <2>1, <2>2 DEF RegistryOK, IndexAndSides, IndexMatchesCalls
  <2>6. IndexMatchesCalls'
    BY <2>1, <2>2, <2>5, OneCallIndex DEF RegistryOK, IndexAndSides
  <2> QED
    BY <2>3, <2>4, <2>6 DEF RegistryOK, IndexAndSides
<1>2. ASSUME SweepCalls PROVE RegistryOK'
  <2>1. ASSUME NEW i \in Live
        PROVE  /\ i \in CallIds /\ SweptCall(i) \in Call
               /\ WellFormed(SweptCall(i)) /\ SidesStand(SweptCall(i))
               /\ \A t \in Sessions : t \in Parties(SweptCall(i))
                    <=> (t \in Parties(call[i]) \/ t \in Taken(call[i], SweptCall(i)))
    <3>1. /\ i \in CallIds /\ call[i] \in Call /\ WellFormed(call[i]) /\ SidesStand(call[i])
      BY LiveWellFormed DEF RegistryOK, IndexAndSides, PartiesStandForTheirSides
    <3>2. call[i].callerUid # call[i].calleeUid
      BY <3>1 DEF WellFormed
    <3>3. CASE SweptCall(i) = Reattached(call[i], None)
      BY <3>1, <3>2, <3>3, ReattachedType, ReattachedWellFormed, ReattachedStands, ReattachedParties
    <3>4. CASE SweptCall(i) = call[i]
      BY <3>1, <3>4 DEF Taken, Parties
    <3> QED
      BY <3>3, <3>4 DEF SweptCall
  <2>2. ASSUME NEW i \in CallIds
        PROVE  call'[i] = None \/ (i \in Live /\ call'[i] = SweptCall(i))
    BY <1>2 DEF SweepCalls
  <2>3. EveryCallCanEnd'
    BY <2>1, <2>2, OneCallWellFormed DEF RegistryOK
  <2>4. PartiesStandForTheirSides'
    BY <1>2, <2>1, <2>2, OneCallStands DEF RegistryOK, IndexAndSides, SweepCalls
  <2>5. ASSUME NEW t \in Sessions, NEW i \in CallIds
        PROVE  i \in index'[t] <=> (call'[i] # None /\ t \in Parties(call'[i]))
    <3>1. i \in index[t] <=> (i \in Live /\ t \in Parties(call[i]))
      BY DEF RegistryOK, IndexAndSides, IndexMatchesCalls
    <3>2. i \in index'[t] <=>
            /\ i \in index[t] \/ (i \in Live /\ t \in Taken(call[i], SweptCall(i)))
            /\ ~(i \in Live /\ Stale(i) /\ t \in Parties(SweptCall(i)))
      BY <1>2 DEF SweepCalls
    <3>3. call'[i] = IF i \in Live /\ ~Stale(i) THEN SweptCall(i) ELSE None
      BY <1>2 DEF SweepCalls
    <3>4. CASE i \in Live
      <4>1. SweptCall(i) # None
        BY <2>1, <3>4, NoCallAssumption
      <4> QED
        BY <2>1, <3>1, <3>2, <3>3, <3>4, <4>1
    <3>5. CASE i \notin Live
      BY <3>1, <3>2, <3>3, <3>5
    <3> QED
      BY <3>4, <3>5
  <2>6. IndexMatchesCalls'
    BY <2>5 DEF IndexMatchesCalls, Live
  <2> QED
    BY <2>3, <2>4, <2>6 DEF RegistryOK, IndexAndSides
<1> QED
  BY <1>1, <1>2

-----------------------------------------------------------------------------
(* The registry is consistent.                                             *)

LEMMA StepRegistryOK ==
    ASSUME TypeOK, ConnectionsOK, RegistryOK, [Next]_vars
    PROVE  RegistryOK'
<1>0. TypeOK'
  BY StepTypeOK
<1>1. ASSUME NEW s \in Sessions, Join(s) \/ RetireReplaced(s) \/ Leave(s) PROVE RegistryOK'
  BY <1>0, <1>1, JoinRegistry, RetireRegistry, LeaveRegistry
<1>2. ASSUME NEW s \in Sessions, NEW u \in Users, NEW d \in Devices, Bind(s, u, d)
      PROVE  RegistryOK'
  BY <1>0, <1>2, BindRegistry
<1>3. ASSUME NEW s \in Sessions, NEW i \in CallIds, Signal(s, i) PROVE RegistryOK'
  <2>1. EveryCallCanEnd'
    BY <1>3, SignalWellFormed DEF RegistryOK
  <2>3. ASSUME NEW to \in Users, InviteOffline(s, to, i) PROVE IndexAndSides'
    BY <2>3 DEF InviteOffline, conns, RegistryOK, IndexAndSides, IndexMatchesCalls,
       PartiesStandForTheirSides, SidesStand, StandsFor, BeingReplaced, Live
  <2>2. IndexAndSides'
    BY <1>3, <2>3, SignalCases, InviteRegistry, CallerSignalsRegistry, RingSignalsRegistry,
       CalleeSignalsRegistry, LateAcceptRegistry
  <2> QED
    BY <2>1, <2>2 DEF RegistryOK
<1>4. CASE SweepCalls \/ \E i \in CallIds : TimeRunsOut(i)
  BY <1>4, TimeRegistry
<1>5. CASE UNCHANGED vars
  BY <1>5 DEF vars, RegistryOK, IndexAndSides, IndexMatchesCalls, PartiesStandForTheirSides,
     SidesStand, StandsFor, BeingReplaced, EveryCallCanEnd, Live
<1> QED
  BY <1>1, <1>2, <1>3, <1>4, <1>5 DEF Next

\* However connections come, go and replace each other, whatever they signal
\* and whenever the sweep runs: call_index_ names exactly the calls a
\* connection is in, a call's connections stand for its two sides, and every
\* call either rings, or has both its sides, or has a clock that ends it.
THEOREM RegistryCorrect ==
    Spec => [](IndexMatchesCalls /\ PartiesStandForTheirSides /\ EveryCallCanEnd)
<1> DEFINE Inv == TypeOK /\ ConnectionsOK /\ RegistryOK
<1>1. Init => Inv
  BY InitTypeOK, InitConnectionsOK, InitRegistryOK
<1>2. Inv /\ [Next]_vars => Inv'
  BY StepTypeOK, StepConnectionsOK, StepRegistryOK
<1>3. Inv => IndexMatchesCalls /\ PartiesStandForTheirSides /\ EveryCallCanEnd
  BY DEF RegistryOK, IndexAndSides
<1> QED
  BY <1>1, <1>2, <1>3, PTL DEF Spec

-----------------------------------------------------------------------------
(* The registry keeps CallPromise.                                         *)

Consistent == TypeOK /\ ConnectionsOK /\ RegistryOK

\* A call goes on as the promise allows: its sides are the same; while it
\* rings it rings on devices it rang on before; who answers it rang; and once
\* it is answered it stays where it is.
Follows(i) ==
    /\ i \in Live /\ i \in Live'
    /\ call'[i].callerUid = call[i].callerUid
    /\ call'[i].callerDevice = call[i].callerDevice
    /\ call'[i].calleeUid = call[i].calleeUid
    /\ call[i].answered => call'[i].answered /\ call'[i].calleeDevice = call[i].calleeDevice
    /\ ~call'[i].answered =>
          \A s \in call'[i].ringing : \E t \in call[i].ringing : device'[s] = device[t]
    /\ ~call[i].answered /\ call'[i].answered =>
          \E t \in call[i].ringing : call'[i].calleeDevice = device[t]

-----------------------------------------------------------------------------
(* What the two accounts see.                                              *)

LEMMA OverIsPromised ==
    ASSUME NEW i \in CallIds, i \notin Live'
    PROVE  Promise!Step(Seen(call[i]), Seen(call[i])')
BY DEF Live, Seen, Promise!Step, Promise!Over, Promise!NoCall

\* A ringing call as the promise sees it; it can ring on other devices.
RingingView(f, to, on) == [state |-> "ringing", from |-> f, to |-> to, on |-> on]

LEMMA SilencedView ==
    ASSUME NEW f, NEW to, NEW x, NEW y
    PROVE  RingingView(f, to, y) = [RingingView(f, to, x) EXCEPT !.on = y]
BY DEF RingingView

LEMMA FollowsIsPromised ==
    ASSUME Consistent, Consistent', NEW i \in CallIds, Follows(i)
    PROVE  Promise!Step(Seen(call[i]), Seen(call[i])')
<1> DEFINE c == call[i]
           d == call'[i]
           onC == {device[s] : s \in c.ringing}
           onD == {device'[s] : s \in d.ringing}
<1>1. c # None /\ d # None
  BY DEF Follows, Live
<1>2. Seen(c) = [state |-> IF c.answered THEN "answered" ELSE "ringing",
                 from |-> <<c.callerUid, c.callerDevice>>, to |-> c.calleeUid,
                 on |-> IF c.answered THEN c.calleeDevice ELSE onC]
  BY <1>1 DEF Seen
<1>3. Seen(call[i])' = [state |-> IF d.answered THEN "answered" ELSE "ringing",
                  from |-> <<d.callerUid, d.callerDevice>>, to |-> d.calleeUid,
                  on |-> IF d.answered THEN d.calleeDevice ELSE onD]
  BY <1>1 DEF Seen
<1>4. d.callerUid = c.callerUid /\ d.callerDevice = c.callerDevice /\ d.calleeUid = c.calleeUid
  BY DEF Follows
<1>5. CASE c.answered
  <2>1. d.answered /\ d.calleeDevice = c.calleeDevice
    BY <1>5 DEF Follows
  <2> QED
    BY <1>2, <1>3, <1>4, <1>5, <2>1 DEF Promise!Step
<1>6. CASE ~c.answered /\ ~d.answered
  <2>1. d.ringing # {}
    BY <1>1, <1>6 DEF Consistent, RegistryOK, EveryCallCanEnd, WellFormed, Live
  <2>2. onD # {} /\ onD \in SUBSET onC
    <3>1. \A s \in d.ringing : \E t \in c.ringing : device'[s] = device[t]
      BY <1>6 DEF Follows
    <3> QED
      BY <2>1, <3>1
  <2>3. Promise!IsRinging(Seen(c)) /\ Seen(c).on = onC
    BY <1>2, <1>6 DEF Promise!IsRinging
  <2>4. Seen(call[i])' = [Seen(c) EXCEPT !.on = onD]
    <3> DEFINE f == <<c.callerUid, c.callerDevice>>
    <3>1. Seen(c) = RingingView(f, c.calleeUid, onC)
      BY <1>2, <1>6 DEF RingingView
    <3>2. Seen(call[i])' = RingingView(f, c.calleeUid, onD)
      BY <1>3, <1>4, <1>6 DEF RingingView
    <3> HIDE DEF f, onC, onD
    <3> QED
      BY <3>1, <3>2, SilencedView
  <2>5. Promise!Silenced(Seen(c), Seen(call[i])')
    BY <2>2, <2>3, <2>4 DEF Promise!Silenced
  <2> QED
    BY <2>5 DEF Promise!Step
<1>7. CASE ~c.answered /\ d.answered
  <2>1. d.calleeDevice \in onC
    <3>1. PICK t \in c.ringing : d.calleeDevice = device[t]
      BY <1>7 DEF Follows
    <3> QED
      BY <3>1
  <2>2. Promise!IsRinging(Seen(c)) /\ Seen(c).on = onC
    BY <1>2, <1>7 DEF Promise!IsRinging
  <2>3. Seen(call[i])' = [state |-> "answered", from |-> Seen(c).from, to |-> Seen(c).to,
                    on |-> d.calleeDevice]
    BY <1>2, <1>3, <1>4, <1>7
  <2>4. Promise!Taken(Seen(c), Seen(call[i])')
    BY <2>1, <2>2, <2>3 DEF Promise!Taken
  <2> QED
    BY <2>4 DEF Promise!Step
<1> QED
  BY <1>5, <1>6, <1>7

\* The devices a call rings on are known, and a call whose connections keep
\* their devices is seen as before.
LEMMA RingersHaveDevices ==
    ASSUME Consistent, NEW i \in Live, NEW s \in call[i].ringing
    PROVE  s \in Sessions /\ device[s] \in Devices /\ i \in CallIds
BY DEF Consistent, RegistryOK, IndexAndSides, PartiesStandForTheirSides, SidesStand,
   StandsFor, TypeOK, Live, Call

LEMMA AsItWas ==
    ASSUME Consistent, NEW i \in CallIds, call'[i] = call[i],
           i \in Live => \A s \in call[i].ringing : device'[s] = device[s]
    PROVE  i \notin Live' \/ Follows(i)
BY DEF Follows, Live

-----------------------------------------------------------------------------
(* Connections.                                                            *)

LEMMA JoinPromised ==
    ASSUME Consistent, NEW s \in Sessions, Join(s), NEW i \in CallIds
    PROVE  i \notin Live' \/ Follows(i)
BY AsItWas DEF Join

LEMMA BindPromised ==
    ASSUME Consistent, NEW s \in Sessions, NEW u \in Users, NEW d \in Devices, Bind(s, u, d),
           NEW i \in CallIds
    PROVE  i \notin Live' \/ Follows(i)
<1>1. call' = call /\ device' = [device EXCEPT ![s] = d] /\ device[s] = None
  BY DEF Bind, BindReplacing
<1>2. i \in Live => \A t \in call[i].ringing : t # s /\ device'[t] = device[t]
  BY <1>1, RingersHaveDevices DEF Consistent, TypeOK
<1> QED
  BY <1>1, <1>2, AsItWas

\* Whoever takes the place of a device that rings is on that device.
LEMMA ForgetPromised ==
    ASSUME Consistent, NEW s \in Sessions, Forget(s), NEW i \in CallIds
    PROVE  i \notin Live' \/ Follows(i)
<1>1. device' = [device EXCEPT ![s] = None]
  BY DEF Forget
<1>2. CASE call'[i] = None
  BY <1>2 DEF Live
<1>3. CASE i \in Live /\ i \in Live' /\ call'[i] = Left(call[i], s)
  <2> DEFINE c == call[i]
             d == Left(call[i], s)
  <2>1. c \in Call
    BY <1>3 DEF Consistent, TypeOK, Live
  <2>2. /\ d.callerUid = c.callerUid /\ d.calleeUid = c.calleeUid
        /\ d.callerDevice = c.callerDevice /\ d.calleeDevice = c.calleeDevice
        /\ d.answered = c.answered
        /\ s \in c.ringing => d.ringing = (c.ringing \ {s}) \cup RingsOn(c, s)
        /\ s \notin c.ringing => d.ringing = c.ringing
    BY <2>1, LeftFact DEF Consistent
  <2>3. ASSUME NEW t \in d.ringing
        PROVE  \E r \in c.ringing : device'[t] = device[r]
    <3>1. CASE t \in c.ringing /\ t # s
      BY <1>1, <1>3, <3>1, RingersHaveDevices DEF Consistent, TypeOK
    <3>2. CASE s \in c.ringing /\ t \in RingsOn(c, s)
      <4>1. c.calleeUid \in Users
        BY <2>1 DEF Call
      <4>2. t \in Sessions /\ t # s /\ device[t] = device[s]
        BY <3>2, <4>1, DeviceSessionFact DEF RingsOn, Consistent
      <4> QED
        BY <1>1, <3>2, <4>2 DEF Consistent, TypeOK
    <3> QED
      BY <2>2, <2>3, <3>1, <3>2
  <2> QED
    BY <1>3, <2>2, <2>3 DEF Follows
<1>4. CASE call'[i] = call[i] /\ i \notin index[s]
  <2>1. i \in Live => \A t \in call[i].ringing : t # s
    BY <1>4 DEF Consistent, RegistryOK, IndexAndSides, IndexMatchesCalls, Parties
  <2> QED
    BY <1>1, <1>4, <2>1, AsItWas, RingersHaveDevices DEF Consistent, TypeOK
<1>5. CASE call'[i] = call[i] /\ i \notin Live
  BY <1>5 DEF Live
<1> QED
  BY <1>2, <1>3, <1>4, <1>5 DEF Forget, CallsAfterLeave, Live

LEMMA RetirePromised ==
    ASSUME Consistent, NEW s \in Sessions, RetireReplaced(s), NEW i \in CallIds
    PROVE  i \notin Live' \/ Follows(i)
<1>1. CASE replacing[s] \in Sessions /\ Forget(replacing[s])
  BY <1>1, ForgetPromised
<1>2. CASE UNCHANGED <<device, call>>
  BY <1>2, AsItWas
<1> QED
  BY <1>1, <1>2, RetireCases DEF Consistent

-----------------------------------------------------------------------------
(* Signals, and time. Connections keep their devices.                      *)

\* A signal touches one call.
LEMMA OtherCallsFollow ==
    ASSUME Consistent, UNCHANGED conns, NEW j \in CallIds, NEW c, Put(j, c),
           NEW i \in CallIds \ {j}
    PROVE  i \notin Live' \/ Follows(i)
BY AsItWas DEF Put, conns, Consistent, TypeOK

LEMMA ErasedFollows ==
    ASSUME Consistent, UNCHANGED conns, NEW j \in CallIds, Put(j, None), NEW i \in CallIds
    PROVE  i \notin Live' \/ Follows(i)
BY OtherCallsFollow DEF Put, Live, Consistent, TypeOK

\* A call whose sides, devices and ringing connections are left alone.
SameCall(c, d) ==
    /\ d.callerUid = c.callerUid /\ d.calleeUid = c.calleeUid
    /\ d.callerDevice = c.callerDevice /\ d.calleeDevice = c.calleeDevice
    /\ d.answered = c.answered /\ d.ringing \subseteq c.ringing

LEMMA SameCallFollows ==
    ASSUME Consistent, UNCHANGED conns, NEW j \in Live, NEW c \in Call, Put(j, c),
           SameCall(call[j], c), NEW i \in CallIds
    PROVE  i \notin Live' \/ Follows(i)
<1>1. j \in CallIds /\ device' = device
  BY DEF Live, conns
<1>2. CASE i # j
  BY <1>1, <1>2, OtherCallsFollow
<1>3. CASE i = j
  <2>1. call'[i] = c /\ c # None
    BY <1>1, <1>3 DEF Put, Consistent, TypeOK
  <2> QED
    BY <1>1, <1>3, <2>1 DEF SameCall, Follows, Live
<1> QED
  BY <1>2, <1>3

\* Finding a missing side, or taking one's place, leaves a call the same.
LEMMA HelpersKeepTheCall ==
    ASSUME Consistent, NEW c \in Call
    PROVE  /\ \A e : Reattached(c, e) \in Call /\ SameCall(c, Reattached(c, e))
           /\ \A x : Reached(c, x) \in Call /\ SameCall(c, Reached(c, x))
           /\ Settled(c) \in Call /\ SameCall(c, Settled(c))
           /\ \A s \in Sessions : AsCaller(s, c) \in Call /\ SameCall(c, AsCaller(s, c))
           /\ \A s \in Sessions : AsCallee(s, c) \in Call /\ SameCall(c, AsCallee(s, c))
<1>1. ASSUME NEW e PROVE Reattached(c, e) \in Call /\ SameCall(c, Reattached(c, e))
  BY ReattachedType, ReattachedFact DEF Consistent, SameCall
<1>2. SameCall(c, c)
  BY DEF SameCall
<1>3. Settled(c) \in Call /\ SameCall(c, Settled(c))
  BY SettledType DEF SameCall, Settled, Call
<1>4. ASSUME NEW s \in Sessions
      PROVE  /\ AsCaller(s, c) \in Call /\ SameCall(c, AsCaller(s, c))
             /\ AsCallee(s, c) \in Call /\ SameCall(c, AsCallee(s, c))
  BY DEF AsCaller, AsCallee, SameCall, Call
<1> QED
  BY <1>1, <1>2, <1>3, <1>4 DEF Reached

LEMMA SameCallTwice ==
    ASSUME NEW b, NEW c, NEW d, SameCall(b, c), SameCall(c, d)
    PROVE  SameCall(b, d)
BY DEF SameCall

LEMMA LiveConsistent ==
    ASSUME Consistent, NEW i \in Live
    PROVE  i \in CallIds /\ call[i] \in Call
BY DEF Consistent, TypeOK, Live

LEMMA EndsPromised ==
    ASSUME Consistent, NEW s \in Sessions, NEW j \in CallIds,
           CallerEnds(s, j) \/ CalleeEnds(s, j) \/ Decline(s, j), NEW i \in CallIds
    PROVE  i \notin Live' \/ Follows(i)
<1>1. Put(j, None) /\ UNCHANGED conns
  BY DEF CallerEnds, CalleeEnds, Decline, Erase
<1> QED
  BY <1>1, ErasedFollows

LEMMA PlacesPromised ==
    ASSUME Consistent, NEW s \in Sessions, NEW j \in CallIds,
           \/ CallerStreams(s, j) \/ CallerTakesPlace(s, j)
           \/ CalleeStreams(s, j) \/ CalleeTakesPlace(s, j) \/ LateAccept(s, j),
           NEW i \in CallIds
    PROVE  i \notin Live' \/ Follows(i)
<1>1. j \in Live /\ call[j] \in Call /\ UNCHANGED conns
  BY LiveConsistent DEF CallerStreams, CallerTakesPlace, CalleeStreams, CalleeTakesPlace, LateAccept
<1>2. PICK c \in Call : SameCall(call[j], c) /\ Put(j, c)
  <2>1. CASE CallerTakesPlace(s, j) \/ CalleeTakesPlace(s, j) \/ LateAccept(s, j)
    BY <1>1, <2>1, HelpersKeepTheCall DEF CallerTakesPlace, CalleeTakesPlace, LateAccept
  <2>2. CASE CallerStreams(s, j)
    <3> DEFINE c == AsCaller(s, call[j])
               d == Reached(c, c.callee)
    <3>1. c \in Call /\ SameCall(call[j], c)
      BY <1>1, HelpersKeepTheCall
    <3>2. d \in Call /\ SameCall(c, d)
      BY <3>1, HelpersKeepTheCall
    <3>3. Settled(d) \in Call /\ SameCall(d, Settled(d))
      BY <3>2, HelpersKeepTheCall
    <3>4. SameCall(call[j], Settled(d))
      BY <3>1, <3>2, <3>3, SameCallTwice
    <3> QED
      BY <2>2, <3>3, <3>4 DEF CallerStreams
  <2>3. CASE CalleeStreams(s, j)
    <3> DEFINE c == AsCallee(s, call[j])
               d == Reached(c, c.caller)
    <3>1. c \in Call /\ SameCall(call[j], c)
      BY <1>1, HelpersKeepTheCall
    <3>2. d \in Call /\ SameCall(c, d)
      BY <3>1, HelpersKeepTheCall
    <3>3. Settled(d) \in Call /\ SameCall(d, Settled(d))
      BY <3>2, HelpersKeepTheCall
    <3>4. SameCall(call[j], Settled(d))
      BY <3>1, <3>2, <3>3, SameCallTwice
    <3> QED
      BY <2>3, <3>3, <3>4 DEF CalleeStreams
  <2> QED
    BY <2>1, <2>2, <2>3
<1> QED
  BY <1>1, <1>2, SameCallFollows

LEMMA RingingPromised ==
    ASSUME Consistent, NEW s \in Sessions, NEW j \in CallIds, Ringing(s, j) \/ Busy(s, j),
           NEW i \in CallIds
    PROVE  i \notin Live' \/ Follows(i)
<1>1. j \in Live /\ call[j] \in Call /\ UNCHANGED conns
  BY LiveConsistent DEF Ringing, Busy, Rings, RingsOrRang
<1>2. CASE Ringing(s, j)
  <2> DEFINE d == Reached(call[j], call[j].caller)
  <2>1. d \in Call /\ SameCall(call[j], d)
    BY <1>1, HelpersKeepTheCall
  <2>2. Put(j, [d EXCEPT !.rang = TRUE])
    BY <1>2 DEF Ringing
  <2> HIDE DEF d
  <2>3. [d EXCEPT !.rang = TRUE] \in Call /\ SameCall(call[j], [d EXCEPT !.rang = TRUE])
    BY <2>1 DEF Call, SameCall
  <2> QED
    BY <1>1, <2>2, <2>3, SameCallFollows
<1>3. CASE Busy(s, j)
  <2> DEFINE c == [call[j] EXCEPT !.busy = TRUE, !.ringing = @ \ {s}]
  <2>1. c \in Call /\ SameCall(call[j], c)
    BY <1>1 DEF Call, SameCall
  <2>2. Put(j, c) \/ Put(j, None)
    BY <1>3 DEF Busy
  <2> HIDE DEF c
  <2> QED
    BY <1>1, <2>1, <2>2, SameCallFollows, ErasedFollows
<1> QED
  BY <1>2, <1>3

LEMMA AcceptPromised ==
    ASSUME Consistent, NEW s \in Sessions, NEW j \in CallIds, Accept(s, j), NEW i \in CallIds
    PROVE  i \notin Live' \/ Follows(i)
<1> DEFINE c == [call[j] EXCEPT !.answered = TRUE, !.callee = s,
                                !.calleeDevice = device[s], !.clock = "off"]
           d == Reattached(c, None)
           e == [d EXCEPT !.ringing = {}]
<1>1. /\ j \in Live /\ call[j] \in Call /\ UNCHANGED conns /\ Put(j, e)
      /\ ~call[j].answered /\ s \in call[j].ringing
  BY LiveConsistent DEF Accept, Rings, RingsOrRang
<1>2. device[s] \in Devices
  BY <1>1, RingersHaveDevices
<1>3. c \in Call
  BY <1>1, <1>2 DEF Call
<1>4. /\ c.answered /\ c.calleeDevice = device[s]
      /\ c.callerUid = call[j].callerUid /\ c.calleeUid = call[j].calleeUid
      /\ c.callerDevice = call[j].callerDevice
  BY <1>1 DEF Call
<1> HIDE DEF c
<1>5. d \in Call /\ SameCall(c, d)
  BY <1>3, HelpersKeepTheCall
<1> HIDE DEF d
<1>6. /\ e \in Call /\ e.answered /\ e.calleeDevice = device[s]
      /\ e.callerUid = call[j].callerUid /\ e.calleeUid = call[j].calleeUid
      /\ e.callerDevice = call[j].callerDevice
  BY <1>4, <1>5 DEF SameCall, Call
<1> HIDE DEF e
<1>7. CASE i # j
  BY <1>1, <1>7, OtherCallsFollow
<1>8. CASE i = j
  <2>1. call'[i] = e /\ e # None
    BY <1>1, <1>6, <1>8 DEF Put, Consistent, TypeOK
  <2> QED
    BY <1>1, <1>6, <1>8, <2>1 DEF Follows, Live
<1> QED
  BY <1>7, <1>8

LEMMA TimePromised ==
    ASSUME Consistent, SweepCalls \/ \E j \in CallIds : TimeRunsOut(j), NEW i \in CallIds
    PROVE  i \notin Live' \/ Follows(i)
<1>1. ASSUME NEW j \in CallIds, TimeRunsOut(j) PROVE i \notin Live' \/ Follows(i)
  <2> DEFINE c == [call[j] EXCEPT !.clock = "out"]
  <2>1. j \in Live /\ call[j] \in Call /\ UNCHANGED conns /\ Put(j, c)
    BY <1>1, LiveConsistent DEF TimeRunsOut
  <2>2. c \in Call /\ SameCall(call[j], c)
    BY <2>1 DEF Call, SameCall
  <2> HIDE DEF c
  <2> QED
    BY <2>1, <2>2, SameCallFollows
<1>2. ASSUME SweepCalls PROVE i \notin Live' \/ Follows(i)
  <2>1. call'[i] = None \/ (i \in Live /\ call'[i] = SweptCall(i))
    BY <1>2 DEF SweepCalls
  <2>2. device' = device
    BY <1>2 DEF SweepCalls, conns
  <2>3. CASE i \in Live /\ call'[i] = SweptCall(i)
    <3>1. call[i] \in Call
      BY <2>3, LiveConsistent
    <3>2. SweptCall(i) \in Call /\ SameCall(call[i], SweptCall(i))
      BY <3>1, HelpersKeepTheCall DEF SweptCall, SameCall
    <3> QED
      BY <2>2, <2>3, <3>2 DEF Follows, SameCall, Live
  <2> QED
    BY <2>1, <2>3 DEF Live
<1> QED
  BY <1>1, <1>2

-----------------------------------------------------------------------------
(* Steps.                                                                  *)

\* A new call rings on the devices its account is connected from.
LEMMA InviteIsPromised ==
    ASSUME Consistent, NEW s \in Sessions, NEW to \in Users, NEW j \in CallIds, Invite(s, to, j)
    PROVE  Promise!Step(Seen(call[j]), Seen(call[j])')
<1> DEFINE c == [callerUid |-> uid[s], calleeUid |-> to,
                 caller |-> s, callerDevice |-> device[s],
                 ringing |-> members[to], callee |-> None, calleeDevice |-> None,
                 answered |-> FALSE, rang |-> FALSE, busy |-> FALSE, clock |-> "on"]
           on == {device[t] : t \in members[to]}
<1>1. /\ call[j] = None /\ to # uid[s] /\ members[to] # {} /\ uid[s] # None
      /\ device' = device /\ Put(j, c)
  BY DEF Invite, CanSignal, conns
<1>2. uid[s] \in Users /\ device[s] \in Devices
  BY <1>1 DEF Consistent, TypeOK, ConnectionsOK
<1>3. ASSUME NEW t \in members[to] PROVE device[t] \in Devices
  BY <1>3 DEF Consistent, TypeOK, ConnectionsOK
<1>4. on # {} /\ on \in SUBSET Devices
  BY <1>1, <1>3
<1>5. c \in Call
  BY <1>2 DEF Consistent, TypeOK, Call
<1>6. call'[j] = c /\ c # None
  BY <1>1, <1>5 DEF Put, Consistent, TypeOK
<1>7. Seen(call[j])' = [state |-> "ringing", from |-> <<uid[s], device[s]>>, to |-> to, on |-> on]
  BY <1>1, <1>6 DEF Seen
<1>8. Seen(call[j]) = Promise!NoCall
  BY <1>1 DEF Seen, Promise!NoCall
<1> HIDE DEF on
<1>9. Promise!Placed(Seen(call[j]), Seen(call[j])')
  BY <1>1, <1>2, <1>4, <1>7, <1>8 DEF Promise!Placed, Promise!Ringing
<1> QED
  BY <1>9 DEF Promise!Step

\* Any other step lets a call go on or ends it.
LEMMA StepFollows ==
    ASSUME Consistent, [Next]_vars, NEW i \in CallIds
    PROVE  \/ i \notin Live' \/ Follows(i)
           \/ \E s \in Sessions, to \in Users : Invite(s, to, i)
<1> DEFINE Goal == \/ i \notin Live' \/ Follows(i)
                   \/ \E s \in Sessions, to \in Users : Invite(s, to, i)
<1>1. ASSUME NEW s \in Sessions, Join(s) \/ RetireReplaced(s) \/ Leave(s) PROVE Goal
  BY <1>1, JoinPromised, RetirePromised, ForgetPromised DEF Leave
<1>2. ASSUME NEW s \in Sessions, NEW u \in Users, NEW d \in Devices, Bind(s, u, d) PROVE Goal
  BY <1>2, BindPromised
<1>3. ASSUME NEW s \in Sessions, NEW j \in CallIds, Signal(s, j) PROVE Goal
  <2>1. ASSUME NEW to \in Users, Invite(s, to, j) PROVE Goal
    <3>1. CASE i = j
      BY <2>1, <3>1
    <3>2. CASE i # j
      <4>1. UNCHANGED conns /\ \E c : Put(j, c)
        BY <2>1 DEF Invite
      <4> QED
        BY <3>2, <4>1, OtherCallsFollow
    <3> QED
      BY <3>1, <3>2
  <2>2. ASSUME NEW to \in Users, InviteOffline(s, to, j) PROVE Goal
    BY <2>2, AsItWas DEF InviteOffline, conns
  <2> QED
    BY <1>3, <2>1, <2>2, SignalCases, EndsPromised, PlacesPromised, RingingPromised, AcceptPromised
<1>4. CASE SweepCalls \/ \E j \in CallIds : TimeRunsOut(j)
  BY <1>4, TimePromised
<1>5. CASE UNCHANGED vars
  BY <1>5, AsItWas DEF vars
<1> QED
  BY <1>1, <1>2, <1>3, <1>4, <1>5 DEF Next

LEMMA StepIsPromised ==
    ASSUME Consistent, Consistent', [Next]_vars, NEW i \in CallIds
    PROVE  Promise!Step(Seen(call[i]), Seen(call[i])')
BY StepFollows, OverIsPromised, FollowsIsPromised, InviteIsPromised

\* The registry keeps its promise: whatever reconnects, is replaced, answers
\* late or is swept, each call stays between the two accounts and devices it
\* was placed from and answered on, only devices that rang can answer it, and
\* a call no device rings on is over.
THEOREM RegistryKeepsThePromise == Spec => KeepsThePromise
<1>1. Init => Promise!Init
  BY DEF Init, Seen, Promise!Init, Promise!NoCall
<1>2. Init => Consistent
  BY InitTypeOK, InitConnectionsOK, InitRegistryOK DEF Consistent
<1>3. Consistent /\ [Next]_vars => Consistent'
  BY StepTypeOK, StepConnectionsOK, StepRegistryOK DEF Consistent
<1>4. Consistent /\ Consistent' /\ [Next]_vars
        => [Promise!Next]_([i \in CallIds |-> Seen(call[i])])
  BY StepIsPromised DEF Promise!Next
<1> QED
  BY <1>1, <1>2, <1>3, <1>4, PTL DEF Spec, KeepsThePromise, Promise!Spec

-----------------------------------------------------------------------------
(* What no step does.                                                      *)

LEMMA AlwaysConsistent == Spec => []Consistent
<1>1. Init => Consistent
  BY InitTypeOK, InitConnectionsOK, InitRegistryOK DEF Consistent
<1>2. Consistent /\ [Next]_vars => Consistent'
  BY StepTypeOK, StepConnectionsOK, StepRegistryOK DEF Consistent
<1> QED
  BY <1>1, <1>2, PTL DEF Spec

LEMMA LiveFact ==
    ASSUME Consistent, NEW i \in CallIds, call[i] # None
    PROVE  /\ i \in Live /\ call[i] \in Call /\ WellFormed(call[i]) /\ SidesStand(call[i])
           /\ call[i].answered => call[i].ringing = {} /\ call[i].calleeUid \in Users
           /\ call[i].calleeUid \in Users /\ call[i].callerUid \in Users
<1>1. i \in Live /\ call[i] \in Call
  BY DEF Live, Consistent, TypeOK
<1>2. WellFormed(call[i]) /\ SidesStand(call[i])
  BY <1>1, LiveWellFormed, LiveStands DEF Consistent, RegistryOK
<1> QED
  BY <1>1, <1>2 DEF WellFormed, Call

\* A signal changes the call it names, and no other.
LEMMA SignalsTouchOne ==
    ASSUME Consistent, NEW s \in Sessions, NEW j \in CallIds, Signal(s, j), NEW i \in CallIds, i # j
    PROVE  call'[i] = call[i]
<1>1. \A c : Put(j, c) => call'[i] = call[i]
  BY DEF Put, Consistent, TypeOK
<1>2. \A c : Erase(j, c) => call'[i] = call[i]
  BY <1>1 DEF Erase
<1>3. CASE CallerEnds(s, j) \/ CallerStreams(s, j) \/ CallerTakesPlace(s, j)
  BY <1>1, <1>2, <1>3 DEF CallerEnds, CallerStreams, CallerTakesPlace
<1>4. CASE CalleeEnds(s, j) \/ CalleeStreams(s, j) \/ CalleeTakesPlace(s, j) \/ LateAccept(s, j)
  BY <1>1, <1>2, <1>4 DEF CalleeEnds, CalleeStreams, CalleeTakesPlace, LateAccept
<1>5. CASE Ringing(s, j) \/ Accept(s, j) \/ Decline(s, j)
  BY <1>1, <1>2, <1>5 DEF Ringing, Accept, Decline
<1>6. CASE Busy(s, j)
  BY <1>1, <1>6 DEF Busy
<1>7. ASSUME NEW to \in Users, Invite(s, to, j) \/ InviteOffline(s, to, j)
      PROVE  call'[i] = call[i]
  BY <1>1, <1>7 DEF Invite, InviteOffline
<1> QED
  BY <1>3, <1>4, <1>5, <1>6, <1>7, SignalCases

LEMMA PutsIt ==
    ASSUME Consistent, NEW i \in CallIds, NEW c, Put(i, c)
    PROVE  call'[i] = c
BY DEF Put, Consistent, TypeOK

\* Connections end by Forget, in RetireReplaced as in Leave.
LEMMA EndsForget ==
    ASSUME Consistent, NEW s \in Sessions, RetireReplaced(s) \/ Leave(s)
    PROVE  \/ \E t \in Sessions : Forget(t)
           \/ sends' = {} /\ call' = call
<1>1. CASE RetireReplaced(s)
  BY <1>1, RetireCases DEF Consistent
<1>2. CASE Leave(s)
  BY <1>2 DEF Leave
<1> QED
  BY <1>1, <1>2

\* What Forget makes of a call.
LEMMA ForgetFact ==
    ASSUME Consistent, NEW t \in Sessions, Forget(t), NEW i \in CallIds, call[i] # None
    PROVE  /\ uid'[t] = None /\ device'[t] = None
           /\ \A p \in Sessions : p # t => uid'[p] = uid[p] /\ device'[p] = device[p]
           /\ \A u \in Users : members'[u] \subseteq members[u]
           /\ \/ call'[i] = call[i]
              \/ call'[i] = Left(call[i], t)
              \/ call'[i] = None /\ (RungOut(call[i], t) \/ Abandoned(call[i], t))
<1>1. /\ uid' = [uid EXCEPT ![t] = None] /\ device' = [device EXCEPT ![t] = None]
      /\ members' = [u \in Users |-> IF u = uid[t] THEN members[u] \ {t} ELSE members[u]]
      /\ call' = CallsAfterLeave(t)
  BY DEF Forget
<1>2. call'[i] = IF i \in index[t] /\ i \in Live
                   THEN IF RungOut(call[i], t) \/ Abandoned(call[i], t) THEN None ELSE Left(call[i], t)
                   ELSE call[i]
  BY <1>1 DEF CallsAfterLeave
<1>3. \/ call'[i] = call[i]
      \/ call'[i] = Left(call[i], t)
      \/ call'[i] = None /\ (RungOut(call[i], t) \/ Abandoned(call[i], t))
  <2>1. CASE ~(i \in index[t] /\ i \in Live)
    BY <1>2, <2>1
  <2>2. CASE i \in index[t] /\ i \in Live /\ (RungOut(call[i], t) \/ Abandoned(call[i], t))
    BY <1>2, <2>2
  <2>3. CASE i \in index[t] /\ i \in Live /\ ~(RungOut(call[i], t) \/ Abandoned(call[i], t))
    BY <1>2, <2>3
  <2> QED
    BY <2>1, <2>2, <2>3
<1> QED
  BY <1>1, <1>3 DEF Consistent, TypeOK

-----------------------------------------------------------------------------
(* Ringing.                                                                *)

\* What a ringing device that stops has heard, said, or waited for.
Told(i, s) ==
    \/ \E f \in sends' : f.to = s /\ f.id = i
    \/ Accept(s, i) \/ Decline(s, i) \/ Busy(s, i)
    \/ call[i].clock = "out"

LEMMA ToldBySend ==
    ASSUME NEW i \in CallIds, NEW s \in Sessions, NEW to, NEW k, s \in to, Send(to, k, i) \subseteq sends'
    PROVE  Told(i, s)
<1> DEFINE f == [to |-> s, kind |-> k, id |-> i]
<1>1. f \in Send(to, k, i)
  BY DEF Send
<1> QED
  BY <1>1 DEF Told

LEMMA SignalTells ==
    ASSUME Consistent, NEW i \in CallIds, NEW s \in Sessions, call[i] # None, s \in call[i].ringing,
           NEW t \in Sessions, Signal(t, i), call'[i] = None \/ s \notin call'[i].ringing
    PROVE  Told(i, s)
<1>1. call[i] \in Call /\ ~call[i].answered /\ call[i] # None
  BY LiveFact
<1>2. CASE CallerEnds(t, i)
  <2>1. sends' = Send(call[i].ringing, "END", i)
    BY <1>1, <1>2 DEF CallerEnds, AsCaller, Call
  <2> QED
    BY <2>1, ToldBySend
<1>3. CASE CallerTakesPlace(t, i)
  <2>1. call'[i] = AsCaller(t, call[i])
    BY <1>3, PutsIt DEF CallerTakesPlace
  <2>2. AsCaller(t, call[i]).ringing = call[i].ringing /\ AsCaller(t, call[i]) \in Call
    BY <1>1 DEF AsCaller, Call
  <2> QED
    BY <1>1, <2>1, <2>2
<1>4. CASE Ringing(t, i)
  <2> DEFINE d == Reached(call[i], call[i].caller)
  <2>1. call'[i] = [d EXCEPT !.rang = TRUE]
    BY <1>4, PutsIt DEF Ringing
  <2>2. d \in Call /\ d.ringing = call[i].ringing
    BY <1>1, ReachedType, ReachedParties DEF Consistent
  <2>3. [d EXCEPT !.rang = TRUE] \in Call /\ [d EXCEPT !.rang = TRUE].ringing = d.ringing
    BY <2>2 DEF Call
  <2> QED
    BY <2>1, <2>2, <2>3
<1>5. CASE Busy(t, i) /\ t # s
  <2> DEFINE c == [call[i] EXCEPT !.busy = TRUE, !.ringing = @ \ {t}]
  <2>1. c \in Call /\ c.ringing = call[i].ringing \ {t}
    BY <1>1 DEF Call
  <2>2. s \in c.ringing
    BY <1>5, <2>1
  <2>3. Put(i, c)
    BY <1>5, <2>2 DEF Busy
  <2>4. call'[i] = c
    BY <2>3, PutsIt
  <2> QED
    BY <2>1, <2>2, <2>4
<1>6. CASE Accept(t, i) /\ t # s
  <2>1. s \in Rivals(t, call[i]) /\ Send(Rivals(t, call[i]), "ANSWERED_ELSEWHERE", i) \subseteq sends'
    BY <1>6 DEF Accept, Rivals
  <2> QED
    BY <2>1, ToldBySend
<1>7. CASE Decline(t, i) /\ t # s
  <2> DEFINE d == Reached(call[i], call[i].caller)
  <2>1. d.ringing = call[i].ringing
    BY <1>1, ReachedParties DEF Consistent
  <2>2. s \in Rivals(t, d) /\ Send(Rivals(t, d), "DECLINED_ELSEWHERE", i) \subseteq sends'
    BY <1>7, <2>1 DEF Decline, Rivals
  <2> QED
    BY <2>2, ToldBySend
<1>8. CASE t = s /\ (Accept(t, i) \/ Decline(t, i) \/ Busy(t, i))
  BY <1>8 DEF Told
<1>9. CASE CallerStreams(t, i) \/ CalleeEnds(t, i) \/ CalleeStreams(t, i)
             \/ CalleeTakesPlace(t, i) \/ LateAccept(t, i)
  BY <1>1, <1>9 DEF CallerStreams, CalleeEnds, CalleeStreams, CalleeTakesPlace, LateAccept, IsCallee
<1>10. ASSUME NEW to \in Users, Invite(t, to, i) \/ InviteOffline(t, to, i) PROVE FALSE
  BY <1>1, <1>10 DEF Invite, InviteOffline
<1> QED
  BY <1>2, <1>3, <1>4, <1>5, <1>6, <1>7, <1>8, <1>9, <1>10, SignalCases

LEMMA ForgetTells ==
    ASSUME Consistent, NEW i \in CallIds, NEW s \in Sessions, call[i] # None, s \in call[i].ringing,
           NEW t \in Sessions, Forget(t), uid'[s] = call[i].calleeUid
    PROVE  call'[i] # None /\ s \in call'[i].ringing
<1>1. call[i] \in Call /\ ~call[i].answered /\ call[i].calleeUid \in Users
  BY LiveFact
<1>2. s # t
  BY <1>1, ForgetFact
<1>3. s \in Left(call[i], t).ringing /\ Left(call[i], t) \in Call /\ ~Left(call[i], t).answered
  BY <1>1, <1>2, LeftFact, LeftType DEF Consistent
<1>4. ~RungOut(call[i], t) /\ ~Abandoned(call[i], t)
  BY <1>3 DEF RungOut, Abandoned
<1> QED
  BY <1>1, <1>3, <1>4, ForgetFact

LEMMA TimeTells ==
    ASSUME Consistent, NEW i \in CallIds, NEW s \in Sessions, call[i] # None, s \in call[i].ringing,
           SweepCalls \/ \E j \in CallIds : TimeRunsOut(j),
           call'[i] = None \/ s \notin call'[i].ringing
    PROVE  Told(i, s)
<1>1. call[i] \in Call /\ ~call[i].answered /\ i \in Live
  BY LiveFact
<1>2. CASE SweepCalls
  <2>1. SweptCall(i) = call[i]
    BY <1>1 DEF SweptCall
  <2>2. call'[i] = IF i \in {j \in Live : Stale(j)} \/ i \notin Live THEN None ELSE SweptCall(i)
    BY <1>2 DEF SweepCalls
  <2>3. Stale(i)
    BY <1>1, <2>1, <2>2
  <2> QED
    BY <2>1, <2>3 DEF Stale, Told
<1>3. ASSUME NEW j \in CallIds, TimeRunsOut(j) PROVE Told(i, s)
  <2>1. CASE j = i
    <3>1. call'[i] = [call[i] EXCEPT !.clock = "out"]
      BY <1>3, <2>1, PutsIt DEF TimeRunsOut
    <3>2. [call[i] EXCEPT !.clock = "out"] \in Call
          /\ [call[i] EXCEPT !.clock = "out"].ringing = call[i].ringing
      BY <1>1 DEF Call
    <3> QED
      BY <3>1, <3>2
  <2>2. CASE j # i
    BY <1>3, <2>2 DEF TimeRunsOut, Put, Consistent, TypeOK
  <2> QED
    BY <2>1, <2>2
<1> QED
  BY <1>2, <1>3

LEMMA StepTells ==
    ASSUME Consistent, Next, NEW i \in CallIds, NEW s \in Sessions,
           call[i] # None, s \in call[i].ringing, uid'[s] = call[i].calleeUid,
           call'[i] = None \/ s \notin call'[i].ringing
    PROVE  Told(i, s)
<1>1. ASSUME NEW t \in Sessions, Join(t) PROVE FALSE
  BY <1>1 DEF Join
<1>2. ASSUME NEW t \in Sessions, RetireReplaced(t) \/ Leave(t) PROVE FALSE
  BY <1>2, EndsForget, ForgetTells
<1>3. ASSUME NEW t \in Sessions, NEW u \in Users, NEW d \in Devices, Bind(t, u, d) PROVE FALSE
  BY <1>3 DEF Bind, BindReplacing
<1>4. ASSUME NEW t \in Sessions, NEW j \in CallIds, Signal(t, j) PROVE Told(i, s)
  BY <1>4, SignalsTouchOne, SignalTells
<1>5. CASE SweepCalls \/ \E j \in CallIds : TimeRunsOut(j)
  BY <1>5, TimeTells
<1> QED
  BY <1>1, <1>2, <1>3, <1>4, <1>5 DEF Next

\* Whatever becomes of an incoming call, no device of the callee goes on
\* ringing for a call that is answered, declined or withdrawn elsewhere.
THEOREM NobodyIsLeftRinging == Spec => NobodyLeftRinging
<1>1. Consistent /\ [Next]_vars =>
        \A i \in CallIds, s \in Sessions :
          (call[i] # None /\ s \in call[i].ringing /\ uid'[s] = call[i].calleeUid
             /\ (call'[i] = None \/ s \notin call'[i].ringing))
             => \/ \E f \in sends' : f.to = s /\ f.id = i
                \/ Accept(s, i) \/ Decline(s, i) \/ Busy(s, i)
                \/ call[i].clock = "out"
  <2> SUFFICES ASSUME Consistent, [Next]_vars, NEW i \in CallIds, NEW s \in Sessions,
                      call[i] # None, s \in call[i].ringing, uid'[s] = call[i].calleeUid,
                      call'[i] = None \/ s \notin call'[i].ringing
               PROVE  Told(i, s)
    BY DEF Told
  <2>1. CASE UNCHANGED vars
    BY <2>1 DEF vars
  <2> QED
    BY <2>1, StepTells
<1> QED
  BY <1>1, AlwaysConsistent, PTL DEF Spec, NobodyLeftRinging

-----------------------------------------------------------------------------
(* Talking.                                                                *)

\* Both devices of an answered call are connected after the step.
BothThere(i) ==
    /\ \E s \in members'[call[i].callerUid] : device'[s] = call[i].callerDevice
    /\ \E s \in members'[call[i].calleeUid] : device'[s] = call[i].calleeDevice

LEMMA SignalEnds ==
    ASSUME Consistent, NEW i \in CallIds, call[i] # None, call[i].answered, call'[i] = None,
           NEW t \in Sessions, Signal(t, i)
    PROVE  CallerEnds(t, i) \/ CalleeEnds(t, i)
<1>1. call[i] \in Call
  BY LiveFact
<1>2. ASSUME CallerStreams(t, i) PROVE FALSE
  <2>1. AsCaller(t, call[i]) \in Call
    BY <1>1 DEF AsCaller, Call
  <2>2. \A x : Settled(Reached(AsCaller(t, call[i]), x)) \in Call
    BY <2>1, ReachedType, SettledType DEF Consistent
  <2>3. \E x : Put(i, Settled(Reached(AsCaller(t, call[i]), x)))
    BY <1>2 DEF CallerStreams
  <2> QED
    BY <2>2, <2>3, PutsIt
<1>3. ASSUME CalleeStreams(t, i) PROVE FALSE
  <2>1. AsCallee(t, call[i]) \in Call
    BY <1>1 DEF AsCallee, Call
  <2>2. \A x : Settled(Reached(AsCallee(t, call[i]), x)) \in Call
    BY <2>1, ReachedType, SettledType DEF Consistent
  <2>3. \E x : Put(i, Settled(Reached(AsCallee(t, call[i]), x)))
    BY <1>3 DEF CalleeStreams
  <2> QED
    BY <2>2, <2>3, PutsIt
<1>4. ASSUME CallerTakesPlace(t, i) \/ CalleeTakesPlace(t, i) PROVE FALSE
  <2>1. AsCaller(t, call[i]) \in Call /\ AsCallee(t, call[i]) \in Call
    BY <1>1 DEF AsCaller, AsCallee, Call
  <2>2. Put(i, AsCaller(t, call[i])) \/ Put(i, AsCallee(t, call[i]))
    BY <1>4 DEF CallerTakesPlace, CalleeTakesPlace
  <2> QED
    BY <2>1, <2>2, PutsIt
<1>5. ASSUME LateAccept(t, i) PROVE FALSE
  <2>1. Settled(call[i]) \in Call
    BY <1>1, SettledType
  <2>2. Put(i, Settled(call[i]))
    BY <1>5 DEF LateAccept
  <2> QED
    BY <2>1, <2>2, PutsIt
<1>6. ASSUME Ringing(t, i) \/ Busy(t, i) \/ Accept(t, i) \/ Decline(t, i) PROVE FALSE
  BY <1>6 DEF Ringing, Busy, Accept, Decline, Rings, RingsOrRang
<1>7. ASSUME NEW to \in Users, Invite(t, to, i) \/ InviteOffline(t, to, i) PROVE FALSE
  BY <1>7 DEF Invite, InviteOffline
<1> QED
  BY <1>2, <1>3, <1>4, <1>5, <1>6, <1>7, SignalCases

\* A connection that goes away is not the one its device is connected by.
LEMMA ForgetSpares ==
    ASSUME Consistent, NEW i \in CallIds, call[i] # None, call[i].answered, BothThere(i),
           NEW t \in Sessions, Forget(t)
    PROVE  call'[i] # None
<1>1. call[i] \in Call /\ call[i].callerUid \in Users /\ call[i].callerDevice # None
  BY LiveFact DEF Call
<1>2. PICK s \in members'[call[i].callerUid] : device'[s] = call[i].callerDevice
  BY DEF BothThere
<1>3. s \in members[call[i].callerUid] /\ s \in Sessions
  BY <1>1, <1>2, ForgetFact DEF Consistent, TypeOK
<1>4. s # t /\ device[s] = call[i].callerDevice
  BY <1>1, <1>2, <1>3, ForgetFact
<1>5. DeviceSession(call[i].callerUid, call[i].callerDevice, t) # None
  BY <1>1, <1>3, <1>4, DeviceSessionFact DEF Consistent
<1>6. Left(call[i], t).caller # None /\ Left(call[i], t) \in Call
  BY <1>1, <1>5, LeftFact, LeftType DEF Consistent
<1>7. ~RungOut(call[i], t) /\ ~Abandoned(call[i], t)
  BY <1>6 DEF RungOut, Abandoned
<1> QED
  BY <1>1, <1>6, <1>7, ForgetFact

\* The sweep finds both sides and stops the clock, whatever it said.
LEMMA TimeSpares ==
    ASSUME Consistent, NEW i \in CallIds, call[i] # None, call[i].answered, BothThere(i),
           SweepCalls \/ \E j \in CallIds : TimeRunsOut(j)
    PROVE  call'[i] # None
<1>1. /\ i \in Live /\ call[i] \in Call /\ call[i].callerUid \in Users /\ call[i].calleeUid \in Users
      /\ Reattached(call[i], None) \in Call
  BY LiveFact, ReattachedType DEF Consistent
<1>2. CASE SweepCalls
  <2>1. call'[i] = IF i \in {j \in Live : Stale(j)} \/ i \notin Live THEN None ELSE SweptCall(i)
    BY <1>2 DEF SweepCalls
  <2>2. SweptCall(i) # None /\ ~Stale(i)
    <3>1. CASE call[i].clock = "off"
      BY <1>1, <3>1 DEF SweptCall, Stale
    <3>2. CASE call[i].clock # "off"
      <4> DEFINE d == Reattached(call[i], None)
      <4>1. SweptCall(i) = d
        BY <3>2 DEF SweptCall
      <4>2. members' = members /\ device' = device
        BY <1>2 DEF SweepCalls, conns
      <4>3. /\ DeviceSession(call[i].callerUid, call[i].callerDevice, None) # None
            /\ DeviceSession(call[i].calleeUid, call[i].calleeDevice, None) # None
        <5>1. PICK s \in members[call[i].callerUid] : device[s] = call[i].callerDevice
          BY <4>2 DEF BothThere
        <5>2. PICK r \in members[call[i].calleeUid] : device[r] = call[i].calleeDevice
          BY <4>2 DEF BothThere
        <5>3. s # None /\ r # None
          BY <1>1, <5>1, <5>2 DEF Consistent, TypeOK
        <5> QED
          BY <1>1, <5>1, <5>2, <5>3, DeviceSessionFact DEF Consistent
      <4>4. d.caller # None /\ d.callee # None
        BY <1>1, <4>3, ReattachedFact DEF Consistent
      <4>5. d.clock = "off"
        BY <1>1, <4>4, ReattachedFact DEF Consistent
      <4> QED
        BY <1>1, <4>1, <4>5 DEF Stale
    <3> QED
      BY <3>1, <3>2
  <2> QED
    BY <1>1, <2>1, <2>2
<1>3. ASSUME NEW j \in CallIds, TimeRunsOut(j) PROVE call'[i] # None
  <2>1. CASE j = i
    <3>1. call'[i] = [call[i] EXCEPT !.clock = "out"]
      BY <1>3, <2>1, PutsIt DEF TimeRunsOut
    <3>2. [call[i] EXCEPT !.clock = "out"] \in Call
      BY <1>1 DEF Call
    <3> QED
      BY <3>1, <3>2
  <2>2. CASE j # i
    BY <1>3, <2>2 DEF TimeRunsOut, Put, Consistent, TypeOK
  <2> QED
    BY <2>1, <2>2
<1> QED
  BY <1>2, <1>3

\* Two devices that talk and are connected are only parted by themselves.
THEOREM TalkersStayConnected == Spec => TalkersAreNotCutOff
<1>1. Consistent /\ [Next]_vars =>
        \A i \in CallIds :
          (/\ call[i] # None /\ call[i].answered /\ call'[i] = None
           /\ \E s \in members'[call[i].callerUid] : device'[s] = call[i].callerDevice
           /\ \E s \in members'[call[i].calleeUid] : device'[s] = call[i].calleeDevice)
             => \E s \in Sessions : CallerEnds(s, i) \/ CalleeEnds(s, i)
  <2> SUFFICES ASSUME Consistent, [Next]_vars, NEW i \in CallIds,
                      call[i] # None, call[i].answered, call'[i] = None, BothThere(i)
               PROVE  \E s \in Sessions : CallerEnds(s, i) \/ CalleeEnds(s, i)
    BY DEF BothThere
  <2>1. ASSUME NEW t \in Sessions, Join(t) PROVE FALSE
    BY <2>1 DEF Join
  <2>2. ASSUME NEW t \in Sessions, RetireReplaced(t) \/ Leave(t) PROVE FALSE
    BY <2>2, EndsForget, ForgetSpares
  <2>3. ASSUME NEW t \in Sessions, NEW u \in Users, NEW d \in Devices, Bind(t, u, d) PROVE FALSE
    BY <2>3 DEF Bind, BindReplacing
  <2>4. ASSUME NEW t \in Sessions, NEW j \in CallIds, Signal(t, j)
        PROVE  CallerEnds(t, i) \/ CalleeEnds(t, i)
    BY <2>4, SignalsTouchOne, SignalEnds
  <2>5. ASSUME SweepCalls \/ \E j \in CallIds : TimeRunsOut(j) PROVE FALSE
    BY <2>5, TimeSpares
  <2>6. ASSUME UNCHANGED vars PROVE FALSE
    BY <2>6 DEF vars
  <2> QED
    BY <2>1, <2>2, <2>3, <2>4, <2>5, <2>6 DEF Next
<1> QED
  BY <1>1, AlwaysConsistent, PTL DEF Spec, TalkersAreNotCutOff

-----------------------------------------------------------------------------
(* Where signals go.                                                       *)

\* Connection p is one of the two devices in call c.
InTheCall(p, c) ==
    \/ device[p] = c.callerDevice /\ p \in members[c.callerUid] \cup {c.caller}
    \/ device[p] = c.calleeDevice /\ p \in members[c.calleeUid] \cup {c.callee}

\* The side a signal reaches, found again or not, is in the call.
LEMMA ReachedIsInTheCall ==
    ASSUME Consistent, NEW i \in CallIds, call[i] # None, call[i].answered,
           NEW c \in Call, NEW x,
           c.callerUid = call[i].callerUid, c.callerDevice = call[i].callerDevice,
           c.calleeUid = call[i].calleeUid, c.calleeDevice = call[i].calleeDevice,
           c.answered
    PROVE  /\ c.caller \in {call[i].caller, None} /\ Reached(c, x).caller # None
                 => InTheCall(Reached(c, x).caller, call[i])
           /\ c.callee \in {call[i].callee, None} /\ Reached(c, x).callee # None
                 => InTheCall(Reached(c, x).callee, call[i])
<1>1. call[i] \in Call /\ call[i].callerUid \in Users /\ call[i].calleeUid \in Users
      /\ SidesStand(call[i])
  BY LiveFact
<1>2. /\ call[i].caller # None => InTheCall(call[i].caller, call[i])
      /\ call[i].callee # None => InTheCall(call[i].callee, call[i])
  BY <1>1 DEF SidesStand, StandsFor, InTheCall
<1>3. /\ DeviceSession(call[i].callerUid, call[i].callerDevice, None) # None
            => InTheCall(DeviceSession(call[i].callerUid, call[i].callerDevice, None), call[i])
      /\ DeviceSession(call[i].calleeUid, call[i].calleeDevice, None) # None
            => InTheCall(DeviceSession(call[i].calleeUid, call[i].calleeDevice, None), call[i])
  BY <1>1, DeviceSessionFact DEF InTheCall, Consistent
<1>4. \/ Reached(c, x) = c
      \/ /\ Reached(c, x).caller = IF c.caller = None
                THEN DeviceSession(c.callerUid, c.callerDevice, None) ELSE c.caller
         /\ Reached(c, x).callee = IF c.callee = None
                THEN DeviceSession(c.calleeUid, c.calleeDevice, None) ELSE c.callee
  BY ReattachedFact DEF Reached, Consistent
<1> QED
  BY <1>2, <1>3, <1>4

LEMMA SentTo ==
    ASSUME NEW to, NEW k, NEW i, NEW f \in Send(to, k, i)
    PROVE  f.to \in to /\ f.to # None /\ f.kind = k /\ f.id = i
BY DEF Send

\* The signals of a step about call i, if it is answered.
StaysIn(i) ==
    \A f \in sends' : (f.id = i /\ f.kind # "ANSWERED_ELSEWHERE") => InTheCall(f.to, call[i])

LEMMA SignalStays ==
    ASSUME Consistent, NEW i \in CallIds, call[i] # None, call[i].answered,
           NEW t \in Sessions, Signal(t, i)
    PROVE  StaysIn(i)
<1>1. call[i] \in Call
  BY LiveFact
<1>2. CASE CallerEnds(t, i) \/ CallerStreams(t, i)
  <2> DEFINE c == AsCaller(t, call[i])
             d == Reached(c, c.callee)
  <2>1. c \in Call /\ c.callee = call[i].callee /\ c.answered
        /\ c.callerUid = call[i].callerUid /\ c.callerDevice = call[i].callerDevice
        /\ c.calleeUid = call[i].calleeUid /\ c.calleeDevice = call[i].calleeDevice
    BY <1>1 DEF AsCaller, Call
  <2>2. d.callee # None => InTheCall(d.callee, call[i])
    BY <2>1, ReachedIsInTheCall
  <2>3. \E k : sends' = Send({d.callee}, k, i)
    <3>1. CASE CallerEnds(t, i)
      BY <2>1, <3>1 DEF CallerEnds
    <3>2. CASE CallerStreams(t, i)
      BY <3>2 DEF CallerStreams
    <3> QED
      BY <1>2, <3>1, <3>2
  <2> HIDE DEF d
  <2> QED
    BY <2>2, <2>3, SentTo DEF StaysIn
<1>3. CASE CalleeEnds(t, i) \/ CalleeStreams(t, i)
  <2> DEFINE c == AsCallee(t, call[i])
             d == Reached(c, c.caller)
  <2>1. c \in Call /\ c.caller = call[i].caller /\ c.answered
        /\ c.callerUid = call[i].callerUid /\ c.callerDevice = call[i].callerDevice
        /\ c.calleeUid = call[i].calleeUid /\ c.calleeDevice = call[i].calleeDevice
    BY <1>1 DEF AsCallee, Call
  <2>2. d.caller # None => InTheCall(d.caller, call[i])
    BY <2>1, ReachedIsInTheCall
  <2>3. \E k : sends' = Send({d.caller}, k, i)
    BY <1>3 DEF CalleeEnds, CalleeStreams
  <2> HIDE DEF d
  <2> QED
    BY <2>2, <2>3, SentTo DEF StaysIn
<1>4. CASE LateAccept(t, i)
  <2>1. sends' = Send({t}, "ANSWERED_ELSEWHERE", i)
    BY <1>4 DEF LateAccept
  <2> QED
    BY <2>1, SentTo DEF StaysIn
<1>5. CASE CallerTakesPlace(t, i) \/ CalleeTakesPlace(t, i)
  BY <1>5 DEF CallerTakesPlace, CalleeTakesPlace, StaysIn
<1>6. CASE Ringing(t, i) \/ Busy(t, i) \/ Accept(t, i) \/ Decline(t, i)
  BY <1>6 DEF Ringing, Busy, Accept, Decline, Rings, RingsOrRang
<1>7. ASSUME NEW to \in Users, Invite(t, to, i) \/ InviteOffline(t, to, i) PROVE FALSE
  BY <1>7 DEF Invite, InviteOffline
<1> QED
  BY <1>2, <1>3, <1>4, <1>5, <1>6, <1>7, SignalCases

\* A signal is about the call it names.
LEMMA SignalsNameOne ==
    ASSUME NEW t \in Sessions, NEW j \in CallIds, Signal(t, j), NEW f \in sends'
    PROVE  f.id = j
<1>1. CASE \E to \in Users : Invite(t, to, j) \/ InviteOffline(t, to, j)
  BY <1>1, SentTo DEF Invite, InviteOffline
<1>2. CASE CallerEnds(t, j) \/ CallerStreams(t, j) \/ CallerTakesPlace(t, j)
  BY <1>2, SentTo DEF CallerEnds, CallerStreams, CallerTakesPlace
<1>3. CASE CalleeEnds(t, j) \/ CalleeStreams(t, j) \/ CalleeTakesPlace(t, j) \/ LateAccept(t, j)
  BY <1>3, SentTo DEF CalleeEnds, CalleeStreams, CalleeTakesPlace, LateAccept
<1>4. CASE Ringing(t, j) \/ Accept(t, j) \/ Decline(t, j)
  BY <1>4, SentTo DEF Ringing, Accept, Decline
<1>5. CASE Busy(t, j)
  BY <1>5, SentTo DEF Busy
<1> QED
  BY <1>1, <1>2, <1>3, <1>4, <1>5, SignalCases

\* The end of a connection is only told about calls that still ring.
LEMMA ForgetStays ==
    ASSUME Consistent, NEW i \in CallIds, call[i] # None, call[i].answered,
           NEW t \in Sessions, Forget(t), NEW f \in sends'
    PROVE  f.id # i
<1>1. sends' = SendsAfterLeave(t)
  BY DEF Forget
<1>2. PICK j \in CallIds : RungOut(call[j], t) /\ f \in Send({Left(call[j], t).caller}, "BUSY", j)
  BY <1>1 DEF SendsAfterLeave, Live
<1>3. f.id = j /\ ~call[j].answered
  BY <1>2, SentTo DEF RungOut
<1> QED
  BY <1>3

\* Nothing about an answered call reaches a device that is not in it.
THEOREM SignalsReachTheTwo == Spec => SignalsStayInTheCall
<1>1. Consistent /\ Consistent' /\ [Next]_vars =>
        [\A f \in sends' : LET c == call[f.id] IN
          (c # None /\ c.answered /\ f.kind # "ANSWERED_ELSEWHERE")
             => \/ device[f.to] = c.callerDevice /\ f.to \in members[c.callerUid] \cup {c.caller}
                \/ device[f.to] = c.calleeDevice /\ f.to \in members[c.calleeUid] \cup {c.callee}]_vars
  <2> SUFFICES ASSUME Consistent, Consistent', Next, NEW f \in sends',
                      call[f.id] # None, call[f.id].answered, f.kind # "ANSWERED_ELSEWHERE"
               PROVE  InTheCall(f.to, call[f.id])
    BY DEF InTheCall
  <2>0. f.id \in CallIds
    BY DEF Consistent, TypeOK
  <2>1. ASSUME NEW t \in Sessions, Join(t) PROVE FALSE
    BY <2>1 DEF Join
  <2>2. ASSUME NEW t \in Sessions, RetireReplaced(t) \/ Leave(t) PROVE FALSE
    BY <2>0, <2>2, EndsForget, ForgetStays
  <2>3. ASSUME NEW t \in Sessions, NEW u \in Users, NEW d \in Devices, Bind(t, u, d) PROVE FALSE
    BY <2>3 DEF Bind, BindReplacing
  <2>4. ASSUME NEW t \in Sessions, NEW j \in CallIds, Signal(t, j)
        PROVE  InTheCall(f.to, call[f.id])
    BY <2>0, <2>4, SignalsNameOne, SignalStays DEF StaysIn
  <2>5. ASSUME SweepCalls \/ \E j \in CallIds : TimeRunsOut(j) PROVE FALSE
    BY <2>5 DEF SweepCalls, TimeRunsOut
  <2> QED
    BY <2>1, <2>2, <2>3, <2>4, <2>5 DEF Next
<1> QED
  BY <1>1, AlwaysConsistent, PTL DEF Spec, SignalsStayInTheCall

-----------------------------------------------------------------------------
(* The invariants by themselves.                                           *)

\* Every connection in a call stands for its side: its account, its device,
\* still connected.
THEOREM PartiesAlwaysStand == Spec => []PartiesStandForTheirSides
BY RegistryCorrect, PTL

\* No call is ever in a state that no clock ends.
THEOREM CallsCanAlwaysEnd == Spec => []EveryCallCanEnd
BY RegistryCorrect, PTL

=============================================================================
