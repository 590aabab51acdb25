----------------------- MODULE PresenceDirectoryProofs -----------------------
(***************************************************************************)
(* What holds of PresenceDirectory for every set of connections, accounts, *)
(* devices and statuses, however logins, logouts, status changes and       *)
(* subscriptions interleave with the frames they post.                     *)
(***************************************************************************)
EXTENDS PresenceDirectory, TLAPS

USE NoneAssumption, NoPresenceAssumption, LoginsAssumption, StatusesAssumption, BoundsAssumption

-----------------------------------------------------------------------------
(* The invariant.  Beside the properties: the connections of an account    *)
(* are those signed in to it, a connection signs in once, what a handler   *)
(* is in the middle of fits whose connection it is, and an account that is *)
(* in the directory has its saving mutex.                                  *)

SignedIn ==
    /\ \A s \in Sessions, u \in Users : s \in members[u] <=> uid[s] = u
    /\ \A s \in Sessions : uid[s] # None => stage[s] = "open" /\ me[s] = uid[s]
    /\ \A s \in Sessions : job[s].step = "login" => me[s] = None
    /\ \A s \in Sessions : job[s].step \in {"wait", "save", "answer"} => me[s] # None
    /\ \A u \in Users : presence[u] # None => saving[u] # None

Directory == TypeOK /\ SignedIn /\ IdleEverywhere /\ WatchIndexMatches

-----------------------------------------------------------------------------
(* Helpers.                                                                *)

LEMMA JobFacts ==
    ASSUME NEW j \in Jobs
    PROVE  /\ j.step = "login" => j.user \in Users /\ j.device \in Devices /\ j.status \in Statuses
           /\ j.step = "retire" => j.old \in Sessions
           /\ j.step \in {"wait", "save"} => j.mutex \in Sessions /\ j.status \in Statuses
           /\ j.step = "answer" => j.added \in SUBSET Users
BY DEF Jobs, Rest

LEMMA JobMakers ==
    /\ Rest \in Jobs /\ Rest.step = "none"
    /\ \A u \in Users, d \in Devices, v \in Statuses :
          [step |-> "login", user |-> u, device |-> d, status |-> v] \in Jobs
    /\ \A s \in Sessions : [step |-> "retire", old |-> s] \in Jobs
    /\ \A m \in Sessions, v \in Statuses : [step |-> "wait", mutex |-> m, status |-> v] \in Jobs
    /\ \A m \in Sessions, v \in Statuses, b \in BOOLEAN :
          [step |-> "save", mutex |-> m, status |-> v, changed |-> b] \in Jobs
    /\ \A added \in SUBSET Users : [step |-> "answer", added |-> added] \in Jobs
BY DEF Jobs, Rest

LEMMA ViewType ==
    ASSUME NEW p \in Presence \cup {None}
    PROVE  View(p) \in Views
BY DEF View, Views, Presence, Effective, Offline, Visible

LEMMA ChangesType ==
    ASSUME NEW u \in Users, NEW was \in Presence \cup {None}, NEW is \in Presence \cup {None},
           NEW seenBy \in SUBSET Sessions, NEW own \in SUBSET Sessions,
           NEW s \in Sessions, NEW ends \in BOOLEAN
    PROVE  Changes(u, was, is, seenBy, own, s, ends) \subseteq Frames
<1>1. View(is) \in Views
  BY ViewType
<1>2. is # None => is \in Views
  BY DEF Views, Presence
<1>3. ASSUME NEW to \in Sessions, NEW shows \in Views
      PROVE  [to |-> to, about |-> u, shows |-> shows, by |-> s, ends |-> ends, latest |-> TRUE] \in Frames
  BY DEF Frames
<1> QED
  BY <1>1, <1>2, <1>3 DEF Changes

LEMMA QueueType ==
    ASSUME TypeOK, NEW new \in SUBSET Frames, Queue(new)
    PROVE  queued' \subseteq Frames
<1>1. \A f \in Frames : [f EXCEPT !.latest = FALSE] \in Frames
  BY DEF Frames
<1> QED
  BY <1>1 DEF Queue, TypeOK

LEMMA AwaitedType ==
    ASSUME TypeOK, NEW new
    PROVE  Awaited(new, heard) \in [Sessions -> [Users -> {"none", "waiting", "latest", "overtaken"}]]
BY DEF Awaited, TypeOK

LEMMA LookupFact ==
    ASSUME TypeOK, NEW u \in Users, NEW d
    PROVE  DeviceSession(u, d) = None \/ (DeviceSession(u, d) \in members[u] /\ DeviceSession(u, d) \in Sessions)
BY DEF DeviceSession, TypeOK

LEMMA InitDirectory == Init => Directory
<1> SUFFICES ASSUME Init PROVE Directory
  OBVIOUS
<1>1. TypeOK
  BY JobMakers DEF Init, TypeOK
<1>2. SignedIn /\ IdleEverywhere /\ WatchIndexMatches
  BY JobMakers DEF Init, SignedIn, IdleEverywhere, WatchIndexMatches
<1> QED
  BY <1>1, <1>2 DEF Directory

-----------------------------------------------------------------------------
(* The end of a connection.                                                *)

\* What a connection that goes leaves of its account, and what is announced.
RestOf(s) == members[uid[s]] \ {s}

PresenceWithout(s) ==
    IF RestOf(s) = {} THEN None ELSE [presence[uid[s]] EXCEPT !.idle = AllIdle(RestOf(s), idle)]

Goodbyes(s, by, ends) ==
    Changes(uid[s], presence[uid[s]], PresenceWithout(s), watchers[uid[s]] \ {s}, RestOf(s), by, ends)

LEMMA ForgetSession ==
    ASSUME NEW s \in Sessions, NEW by, NEW ends, Forget(s, by, ends)
    PROVE  /\ stage' = [stage EXCEPT ![s] = "gone"] /\ uid' = [uid EXCEPT ![s] = None]
           /\ device' = [device EXCEPT ![s] = None] /\ idle' = [idle EXCEPT ![s] = FALSE]
           /\ watching' = [watching EXCEPT ![s] = {}] /\ watchers' = Unwatched(s)
           /\ told' = [told EXCEPT ![s] = [v \in Users |-> None]]
BY DEF Forget

LEMMA ForgetSignedOut ==
    ASSUME Directory, NEW s \in Sessions, NEW by, NEW ends, Forget(s, by, ends), uid[s] = None
    PROVE  /\ UNCHANGED <<members, presence, saving, queued>>
           /\ heard' = [heard EXCEPT ![s] = [v \in Users |-> "none"]]
<1>1. UNCHANGED <<members, presence, saving>>
  BY DEF Forget, Directory, TypeOK
<1>2. Queue({}) /\ heard' = [Awaited({}, heard) EXCEPT ![s] = [v \in Users |-> "none"]]
  BY DEF Forget
<1>3. queued' = queued /\ Awaited({}, heard) = heard
  BY <1>2 DEF Queue, Addressed, Awaited, Directory, TypeOK
<1> QED
  BY <1>1, <1>2, <1>3

LEMMA ForgetSignedIn ==
    ASSUME Directory, NEW s \in Sessions, NEW by, NEW ends, Forget(s, by, ends), uid[s] # None
    PROVE  /\ uid[s] \in Users /\ s \in members[uid[s]] /\ RestOf(s) \in SUBSET Sessions
           /\ presence[uid[s]] \in Presence /\ PresenceWithout(s) \in Presence \cup {None}
           /\ PresenceWithout(s) = None <=> RestOf(s) = {}
           /\ PresenceWithout(s) # None =>
                 /\ PresenceWithout(s).status = presence[uid[s]].status
                 /\ PresenceWithout(s).idle <=> \A t \in RestOf(s) : idle[t]
           /\ members' = [members EXCEPT ![uid[s]] = RestOf(s)]
           /\ presence' = [presence EXCEPT ![uid[s]] = PresenceWithout(s)]
           /\ saving' = [saving EXCEPT ![uid[s]] = IF RestOf(s) = {} THEN None ELSE @]
           /\ Queue(Goodbyes(s, by, ends))
           /\ heard' = [Awaited(Goodbyes(s, by, ends), heard) EXCEPT ![s] = [v \in Users |-> "none"]]
<1>1. /\ uid[s] \in Users /\ s \in members[uid[s]] /\ RestOf(s) \in SUBSET Sessions
      /\ presence[uid[s]] \in Presence
  BY DEF Directory, TypeOK, SignedIn, IdleEverywhere, RestOf
<1>4. /\ members' = [members EXCEPT ![uid[s]] = RestOf(s)]
      /\ presence' = [presence EXCEPT ![uid[s]] = PresenceWithout(s)]
      /\ saving' = [saving EXCEPT ![uid[s]] = IF RestOf(s) = {} THEN None ELSE @]
  BY DEF Forget, Directory, TypeOK, RestOf, PresenceWithout
<1>5. /\ Queue(Goodbyes(s, by, ends))
      /\ heard' = [Awaited(Goodbyes(s, by, ends), heard) EXCEPT ![s] = [v \in Users |-> "none"]]
  BY DEF Forget, RestOf, PresenceWithout, Goodbyes
<1>6. /\ PresenceWithout(s) \in Presence \cup {None}
      /\ PresenceWithout(s) = None <=> RestOf(s) = {}
      /\ PresenceWithout(s) # None =>
            /\ PresenceWithout(s).status = presence[uid[s]].status
            /\ PresenceWithout(s).idle <=> \A t \in RestOf(s) : idle[t]
  <2>1. CASE RestOf(s) = {}
    BY <2>1 DEF PresenceWithout
  <2>2. CASE RestOf(s) # {}
    <3>1. PresenceWithout(s) = [presence[uid[s]] EXCEPT !.idle = AllIdle(RestOf(s), idle)]
      BY <2>2 DEF PresenceWithout
    <3>2. AllIdle(RestOf(s), idle) \in BOOLEAN
          /\ (AllIdle(RestOf(s), idle) <=> \A t \in RestOf(s) : idle[t])
      BY <2>2 DEF AllIdle
    <3>3. /\ PresenceWithout(s) \in Presence
          /\ PresenceWithout(s).status = presence[uid[s]].status
          /\ PresenceWithout(s).idle = AllIdle(RestOf(s), idle)
      BY <1>1, <3>1, <3>2 DEF Presence
    <3> QED
      BY <2>2, <3>2, <3>3
  <2> QED
    BY <2>1, <2>2
<1> QED
  BY <1>1, <1>4, <1>5, <1>6

LEMMA GoodbyesType ==
    ASSUME Directory, NEW s \in Sessions, NEW by \in Sessions, NEW ends \in BOOLEAN,
           Forget(s, by, ends), uid[s] # None
    PROVE  Goodbyes(s, by, ends) \in SUBSET Frames
<1>1. /\ uid[s] \in Users /\ presence[uid[s]] \in Presence /\ RestOf(s) \in SUBSET Sessions
      /\ PresenceWithout(s) \in Presence \cup {None}
  BY ForgetSignedIn
<1>2. watchers[uid[s]] \ {s} \in SUBSET Sessions
  BY <1>1 DEF Directory, TypeOK
<1> QED
  BY <1>1, <1>2, ChangesType DEF Goodbyes

LEMMA ForgetTypeOK ==
    ASSUME Directory, NEW s \in Sessions, NEW by \in Sessions, NEW ends \in BOOLEAN,
           Forget(s, by, ends), UNCHANGED <<me, db>>, job' \in [Sessions -> Jobs]
    PROVE  TypeOK'
<1>0. /\ stage' = [stage EXCEPT ![s] = "gone"] /\ uid' = [uid EXCEPT ![s] = None]
      /\ device' = [device EXCEPT ![s] = None] /\ idle' = [idle EXCEPT ![s] = FALSE]
      /\ watching' = [watching EXCEPT ![s] = {}] /\ watchers' = Unwatched(s)
      /\ told' = [told EXCEPT ![s] = [v \in Users |-> None]]
  BY ForgetSession
<1>1. /\ stage' \in [Sessions -> {"made", "open", "gone"}] /\ uid' \in [Sessions -> Users \cup {None}]
      /\ device' \in [Sessions -> Devices \cup {None}] /\ idle' \in [Sessions -> BOOLEAN]
  BY <1>0 DEF Directory, TypeOK
<1>2. /\ watching' \in [Sessions -> SUBSET Users] /\ watchers' \in [Users -> SUBSET Sessions]
      /\ told' \in [Sessions -> [Users -> Views \cup {None}]]
  <2>1. watching' \in [Sessions -> SUBSET Users] /\ watchers' \in [Users -> SUBSET Sessions]
    BY <1>0 DEF Directory, TypeOK, Unwatched
  <2>2. told' \in [Sessions -> [Users -> Views \cup {None}]]
    BY <1>0 DEF Directory, TypeOK
  <2> QED
    BY <2>1, <2>2
<1>3. /\ members' \in [Users -> SUBSET Sessions] /\ presence' \in [Users -> Presence \cup {None}]
      /\ saving' \in [Users -> Sessions \cup {None}] /\ queued' \subseteq Frames
      /\ heard' \in [Sessions -> [Users -> {"none", "waiting", "latest", "overtaken"}]]
  <2>1. CASE uid[s] = None
    <3>1. /\ UNCHANGED <<members, presence, saving, queued>>
          /\ heard' = [heard EXCEPT ![s] = [v \in Users |-> "none"]]
      BY <2>1, ForgetSignedOut
    <3> QED
      BY <3>1 DEF Directory, TypeOK
  <2>2. CASE uid[s] # None
    <3>1. /\ members' \in [Users -> SUBSET Sessions] /\ presence' \in [Users -> Presence \cup {None}]
          /\ saving' \in [Users -> Sessions \cup {None}]
      <4>1. /\ RestOf(s) \in SUBSET Sessions /\ PresenceWithout(s) \in Presence \cup {None}
            /\ members' = [members EXCEPT ![uid[s]] = RestOf(s)]
            /\ presence' = [presence EXCEPT ![uid[s]] = PresenceWithout(s)]
            /\ saving' = [saving EXCEPT ![uid[s]] = IF RestOf(s) = {} THEN None ELSE @]
        BY <2>2, ForgetSignedIn
      <4> QED
        BY <4>1 DEF Directory, TypeOK
    <3>2. queued' \subseteq Frames
      BY <2>2, ForgetSignedIn, GoodbyesType, QueueType DEF Directory
    <3>3. heard' = [Awaited(Goodbyes(s, by, ends), heard) EXCEPT ![s] = [v \in Users |-> "none"]]
      BY <2>2, ForgetSignedIn
    <3>4. heard' \in [Sessions -> [Users -> {"none", "waiting", "latest", "overtaken"}]]
      BY <3>3, AwaitedType DEF Directory
    <3> QED
      BY <3>1, <3>2, <3>4
  <2> QED
    BY <2>1, <2>2
<1> QED
  BY <1>1, <1>2, <1>3 DEF Directory, TypeOK

LEMMA ForgetDirectory ==
    ASSUME Directory, NEW s \in Sessions, NEW by \in Sessions, NEW ends \in BOOLEAN,
           Forget(s, by, ends), UNCHANGED <<me, db>>,
           job' \in [Sessions -> Jobs], \A t \in Sessions : job'[t] \in {job[t], Rest}
    PROVE  Directory'
<1>1. TypeOK'
  BY ForgetTypeOK
<1>2. /\ \A t \in Sessions : uid'[t] = IF t = s THEN None ELSE uid[t]
      /\ \A t \in Sessions : stage'[t] = IF t = s THEN "gone" ELSE stage[t]
      /\ \A t \in Sessions : t # s => idle'[t] = idle[t]
      /\ \A t \in Sessions : watching'[t] = IF t = s THEN {} ELSE watching[t]
      /\ \A u \in Users : watchers'[u] = watchers[u] \ {s}
  <2>1. /\ stage' = [stage EXCEPT ![s] = "gone"] /\ uid' = [uid EXCEPT ![s] = None]
        /\ device' = [device EXCEPT ![s] = None] /\ idle' = [idle EXCEPT ![s] = FALSE]
        /\ watching' = [watching EXCEPT ![s] = {}] /\ watchers' = Unwatched(s)
        /\ told' = [told EXCEPT ![s] = [v \in Users |-> None]]
    BY ForgetSession
  <2> QED
    BY <2>1 DEF Directory, TypeOK, Unwatched
<1>3. \A v \in Users : members'[v] = members[v] \ {s}
  <2>1. CASE uid[s] = None
    BY <2>1, ForgetSignedOut DEF Directory, TypeOK, SignedIn
  <2>2. CASE uid[s] # None
    BY <2>2, ForgetSignedIn DEF Directory, TypeOK, SignedIn, RestOf
  <2> QED
    BY <2>1, <2>2
<1>4. SignedIn'
  <2>1. \A t \in Sessions, v \in Users : t \in members'[v] <=> uid'[t] = v
    BY <1>2, <1>3 DEF Directory, SignedIn
  <2>2. \A t \in Sessions : uid'[t] # None => stage'[t] = "open" /\ me'[t] = uid'[t]
    BY <1>2 DEF Directory, SignedIn
  <2>3. /\ \A t \in Sessions : job'[t].step = "login" => me'[t] = None
        /\ \A t \in Sessions : job'[t].step \in {"wait", "save", "answer"} => me'[t] # None
    BY JobMakers DEF Directory, SignedIn
  <2>4. \A v \in Users : presence'[v] # None => saving'[v] # None
    <3>1. CASE uid[s] = None
      BY <3>1, ForgetSignedOut DEF Directory, SignedIn
    <3>2. CASE uid[s] # None
      <4>1. /\ PresenceWithout(s) = None <=> RestOf(s) = {}
            /\ presence' = [presence EXCEPT ![uid[s]] = PresenceWithout(s)]
            /\ saving' = [saving EXCEPT ![uid[s]] = IF RestOf(s) = {} THEN None ELSE @]
            /\ presence[uid[s]] \in Presence /\ uid[s] \in Users
        BY <3>2, ForgetSignedIn
      <4> QED
        BY <4>1 DEF Directory, TypeOK, SignedIn
    <3> QED
      BY <3>1, <3>2
  <2> QED
    BY <2>1, <2>2, <2>3, <2>4 DEF SignedIn
<1>5. IdleEverywhere'
  <2> SUFFICES ASSUME NEW v \in Users
               PROVE  /\ presence'[v] = None <=> members'[v] = {}
                      /\ presence'[v] # None => (presence'[v].idle <=> \A t \in members'[v] : idle'[t])
    BY DEF IdleEverywhere
  <2>1. CASE uid[s] # None /\ v = uid[s]
    <3>1. members'[v] = RestOf(s) /\ presence'[v] = PresenceWithout(s)
      BY <2>1, ForgetSignedIn DEF Directory, TypeOK
    <3>2. \A t \in RestOf(s) : idle'[t] = idle[t]
      BY <1>2, <2>1, ForgetSignedIn DEF RestOf
    <3> QED
      BY <2>1, <3>1, <3>2, ForgetSignedIn
  <2>2. CASE uid[s] = None \/ v # uid[s]
    <3>1. presence'[v] = presence[v]
      <4>1. CASE uid[s] = None
        BY <4>1, ForgetSignedOut
      <4>2. CASE uid[s] # None
        <5>1. presence' = [presence EXCEPT ![uid[s]] = PresenceWithout(s)]
          BY <4>2, ForgetSignedIn
        <5> QED
          BY <2>2, <4>2, <5>1 DEF Directory, TypeOK
      <4> QED
        BY <4>1, <4>2
    <3>2. members'[v] = members[v] /\ s \notin members[v] /\ members[v] \subseteq Sessions
      <4>1. s \notin members[v] /\ members[v] \subseteq Sessions
        BY <2>2 DEF Directory, SignedIn, TypeOK
      <4>2. members'[v] = members[v] \ {s}
        BY <1>3
      <4>3. members[v] \ {s} = members[v]
        BY <4>1
      <4> QED
        BY <4>1, <4>2, <4>3
    <3> QED
      BY <1>2, <3>1, <3>2 DEF Directory, IdleEverywhere
  <2> QED
    BY <2>1, <2>2
<1>6. WatchIndexMatches'
  BY <1>2 DEF Directory, WatchIndexMatches
<1> QED
  BY <1>1, <1>4, <1>5, <1>6 DEF Directory

-----------------------------------------------------------------------------
(* Logins.                                                                 *)

\* What a login that binds does, by name.
BoundMembers(s, old) == (members[job[s].user] \ {old}) \cup {s}

BoundPresence(s, old) ==
    IF presence[job[s].user] = None THEN [status |-> job[s].status, idle |-> FALSE]
    ELSE [presence[job[s].user] EXCEPT !.idle = AllIdle(BoundMembers(s, old), [idle EXCEPT ![s] = FALSE])]

Greetings(s, old) ==
    Changes(job[s].user, presence[job[s].user], BoundPresence(s, old),
            watchers[job[s].user] \ {old}, BoundMembers(s, old) \ {s}, s, FALSE)

LEMMA BindFact ==
    ASSUME Directory, NEW s \in Sessions, Bind(s)
    PROVE  \E old \in Sessions \cup {None} :
              /\ old # None => old \in members[job[s].user]
              /\ stage[s] = "open" /\ job[s].step = "login"
              /\ BindReplacing(s, old)
<1>1. /\ stage[s] = "open" /\ job[s].step = "login"
      /\ BindReplacing(s, DeviceSession(job[s].user, job[s].device))
  BY DEF Bind, GoesOn
<1>2. job[s].user \in Users
  BY <1>1, JobFacts DEF Directory, TypeOK
<1>3. \/ DeviceSession(job[s].user, job[s].device) = None
      \/ DeviceSession(job[s].user, job[s].device) \in members[job[s].user] \cap Sessions
  BY <1>2, LookupFact DEF Directory
<1> QED
  BY <1>1, <1>3

LEMMA BindingFact ==
    ASSUME Directory, NEW s \in Sessions, NEW old \in Sessions \cup {None},
           old # None => old \in members[job[s].user],
           stage[s] = "open", job[s].step = "login", BindReplacing(s, old)
    PROVE  LET u == job[s].user IN
           /\ u \in Users /\ uid[s] = None /\ me[s] = None /\ s # old
           /\ BoundMembers(s, old) \in SUBSET Sessions
           /\ BoundPresence(s, old) \in Presence
           /\ presence[u] # None => BoundPresence(s, old).status = presence[u].status
           /\ presence[u] = None => BoundPresence(s, old).status = job[s].status
           /\ BoundPresence(s, old).idle <=>
                 \A t \in BoundMembers(s, old) : [idle EXCEPT ![s] = FALSE][t]
           /\ uid' = [t \in Sessions |-> IF t = s THEN u ELSE IF t = old THEN None ELSE uid[t]]
           /\ device' = [device EXCEPT ![s] = job[s].device]
           /\ idle' = [idle EXCEPT ![s] = FALSE]
           /\ me' = [me EXCEPT ![s] = u]
           /\ watching' = [t \in Sessions |-> IF t = old THEN {} ELSE watching[t]]
           /\ watchers' = Unwatched(old)
           /\ members' = [members EXCEPT ![u] = BoundMembers(s, old)]
           /\ presence' = [presence EXCEPT ![u] = BoundPresence(s, old)]
           /\ saving' = [saving EXCEPT ![u] = IF presence[u] = None THEN s ELSE @]
           /\ UNCHANGED <<stage, db>>
           /\ Queue(Greetings(s, old))
           /\ told' = [told EXCEPT ![s][u] = BoundPresence(s, old)]
           /\ heard' = [Awaited(Greetings(s, old), heard) EXCEPT ![s][u] = "latest"]
           /\ job' = [job EXCEPT ![s] = AfterBind(old)]
<1> DEFINE u == job[s].user
<1>1. u \in Users /\ job[s].status \in Statuses
  BY JobFacts DEF Directory, TypeOK
<1>2. uid[s] = None /\ me[s] = None
  BY DEF Directory, SignedIn
<1>3. s # old /\ BoundMembers(s, old) \in SUBSET Sessions /\ s \in BoundMembers(s, old)
  BY <1>1, <1>2 DEF Directory, SignedIn, TypeOK, BoundMembers
<1>4. /\ BoundPresence(s, old) \in Presence
      /\ presence[u] # None => BoundPresence(s, old).status = presence[u].status
      /\ presence[u] = None => BoundPresence(s, old).status = job[s].status
      /\ BoundPresence(s, old).idle <=> \A t \in BoundMembers(s, old) : [idle EXCEPT ![s] = FALSE][t]
  <2>1. CASE presence[u] = None
    <3>1. BoundPresence(s, old) = [status |-> job[s].status, idle |-> FALSE]
      BY <2>1 DEF BoundPresence
    <3>2. [idle EXCEPT ![s] = FALSE][s] = FALSE
      BY DEF Directory, TypeOK
    <3>3. ~\A t \in BoundMembers(s, old) : [idle EXCEPT ![s] = FALSE][t]
      BY <1>3, <3>2
    <3> QED
      BY <1>1, <2>1, <3>1, <3>3 DEF Presence
  <2>2. CASE presence[u] # None
    <3> DEFINE all == AllIdle(BoundMembers(s, old), [idle EXCEPT ![s] = FALSE])
    <3>1. BoundPresence(s, old) = [presence[u] EXCEPT !.idle = all]
      BY <2>2 DEF BoundPresence
    <3>2. all \in BOOLEAN /\ (all <=> \A t \in BoundMembers(s, old) : [idle EXCEPT ![s] = FALSE][t])
      BY <1>3 DEF AllIdle
    <3>3. presence[u] \in Presence
      BY <1>1, <2>2 DEF Directory, TypeOK
    <3> HIDE DEF all
    <3>4. /\ BoundPresence(s, old) \in Presence
          /\ BoundPresence(s, old).status = presence[u].status
          /\ BoundPresence(s, old).idle = all
      BY <3>1, <3>2, <3>3 DEF Presence
    <3> QED
      BY <2>2, <3>2, <3>4
  <2> QED
    BY <2>1, <2>2
<1>5. /\ uid' = [t \in Sessions |-> IF t = s THEN u ELSE IF t = old THEN None ELSE uid[t]]
      /\ device' = [device EXCEPT ![s] = job[s].device]
      /\ idle' = [idle EXCEPT ![s] = FALSE]
      /\ me' = [me EXCEPT ![s] = u]
      /\ watching' = [t \in Sessions |-> IF t = old THEN {} ELSE watching[t]]
      /\ watchers' = Unwatched(old)
      /\ members' = [members EXCEPT ![u] = BoundMembers(s, old)]
      /\ presence' = [presence EXCEPT ![u] = BoundPresence(s, old)]
      /\ saving' = [saving EXCEPT ![u] = IF presence[u] = None THEN s ELSE @]
      /\ UNCHANGED <<stage, db>>
  BY DEF BindReplacing, BoundMembers, BoundPresence
<1>6. /\ Queue(Greetings(s, old))
      /\ told' = [told EXCEPT ![s][u] = BoundPresence(s, old)]
      /\ heard' = [Awaited(Greetings(s, old), heard) EXCEPT ![s][u] = "latest"]
      /\ job' = [job EXCEPT ![s] = AfterBind(old)]
  BY DEF BindReplacing, BoundMembers, BoundPresence, Greetings, Does
<1> QED
  BY <1>1, <1>2, <1>3, <1>4, <1>5, <1>6

LEMMA BindTypeOK ==
    ASSUME Directory, NEW s \in Sessions, NEW old \in Sessions \cup {None},
           old # None => old \in members[job[s].user],
           stage[s] = "open", job[s].step = "login", BindReplacing(s, old)
    PROVE  TypeOK'
<1> DEFINE u == job[s].user
<1>1. /\ u \in Users /\ job[s].device \in Devices /\ AfterBind(old) \in Jobs
      /\ BoundMembers(s, old) \in SUBSET Sessions /\ BoundPresence(s, old) \in Presence
  BY BindingFact, JobFacts, JobMakers DEF Directory, TypeOK, AfterBind
<1>2. /\ stage' \in [Sessions -> {"made", "open", "gone"}] /\ uid' \in [Sessions -> Users \cup {None}]
      /\ device' \in [Sessions -> Devices \cup {None}] /\ idle' \in [Sessions -> BOOLEAN]
      /\ me' \in [Sessions -> Users \cup {None}]
  <2>1. /\ uid' = [t \in Sessions |-> IF t = s THEN u ELSE IF t = old THEN None ELSE uid[t]]
        /\ device' = [device EXCEPT ![s] = job[s].device]
        /\ idle' = [idle EXCEPT ![s] = FALSE]
        /\ me' = [me EXCEPT ![s] = u] /\ stage' = stage
    BY BindingFact
  <2> QED
    BY <1>1, <2>1 DEF Directory, TypeOK
<1>3. /\ watching' \in [Sessions -> SUBSET Users] /\ watchers' \in [Users -> SUBSET Sessions]
      /\ members' \in [Users -> SUBSET Sessions] /\ presence' \in [Users -> Presence \cup {None}]
      /\ saving' \in [Users -> Sessions \cup {None}]
  <2>1. /\ watching' = [t \in Sessions |-> IF t = old THEN {} ELSE watching[t]]
        /\ watchers' = Unwatched(old)
        /\ members' = [members EXCEPT ![u] = BoundMembers(s, old)]
        /\ presence' = [presence EXCEPT ![u] = BoundPresence(s, old)]
        /\ saving' = [saving EXCEPT ![u] = IF presence[u] = None THEN s ELSE @]
    BY BindingFact
  <2> QED
    BY <1>1, <2>1 DEF Directory, TypeOK, Unwatched
<1>4. /\ job' \in [Sessions -> Jobs] /\ db' \in [Users -> Statuses]
      /\ told' \in [Sessions -> [Users -> Views \cup {None}]]
  <2>1. /\ told' = [told EXCEPT ![s][u] = BoundPresence(s, old)]
        /\ job' = [job EXCEPT ![s] = AfterBind(old)] /\ db' = db
    BY BindingFact
  <2>2. BoundPresence(s, old) \in Views
    BY <1>1 DEF Presence, Views
  <2> QED
    BY <1>1, <2>1, <2>2 DEF Directory, TypeOK
<1>5. Greetings(s, old) \in SUBSET Frames
  <2>1. presence[u] \in Presence \cup {None} /\ watchers[u] \ {old} \in SUBSET Sessions
    BY <1>1 DEF Directory, TypeOK
  <2>2. BoundMembers(s, old) \ {s} \in SUBSET Sessions
    BY <1>1
  <2> QED
    BY <1>1, <2>1, <2>2, ChangesType DEF Greetings
<1>6. queued' \subseteq Frames
  BY <1>5, BindingFact, QueueType DEF Directory
<1>7. heard' \in [Sessions -> [Users -> {"none", "waiting", "latest", "overtaken"}]]
  <2>1. heard' = [Awaited(Greetings(s, old), heard) EXCEPT ![s][u] = "latest"]
    BY BindingFact
  <2> QED
    BY <1>1, <2>1, AwaitedType DEF Directory
<1> QED
  BY <1>2, <1>3, <1>4, <1>6, <1>7 DEF TypeOK

LEMMA BindDirectory ==
    ASSUME Directory, NEW s \in Sessions, NEW old \in Sessions \cup {None},
           old # None => old \in members[job[s].user],
           stage[s] = "open", job[s].step = "login", BindReplacing(s, old)
    PROVE  Directory'
<1> DEFINE u == job[s].user
<1>1. TypeOK'
  BY BindTypeOK
<1>2. /\ u \in Users /\ uid[s] = None /\ me[s] = None /\ s # old
      /\ uid' = [t \in Sessions |-> IF t = s THEN u ELSE IF t = old THEN None ELSE uid[t]]
      /\ me' = [me EXCEPT ![s] = u] /\ stage' = stage
      /\ idle' = [idle EXCEPT ![s] = FALSE]
      /\ members' = [members EXCEPT ![u] = BoundMembers(s, old)]
      /\ presence' = [presence EXCEPT ![u] = BoundPresence(s, old)]
      /\ job' = [job EXCEPT ![s] = AfterBind(old)]
  BY BindingFact
<1>3. /\ watching' = [t \in Sessions |-> IF t = old THEN {} ELSE watching[t]]
      /\ watchers' = Unwatched(old)
      /\ saving' = [saving EXCEPT ![u] = IF presence[u] = None THEN s ELSE @]
      /\ BoundPresence(s, old) \in Presence
      /\ BoundPresence(s, old).idle <=> \A t \in BoundMembers(s, old) : [idle EXCEPT ![s] = FALSE][t]
  BY BindingFact
<1> HIDE DEF u
<1>4. SignedIn'
  <2>1. \A t \in Sessions, v \in Users : t \in members'[v] <=> uid'[t] = v
    <3> SUFFICES ASSUME NEW t \in Sessions, NEW v \in Users PROVE t \in members'[v] <=> uid'[t] = v
      OBVIOUS
    <3>1. uid'[t] = IF t = s THEN u ELSE IF t = old THEN None ELSE uid[t]
      BY <1>2
    <3>2. t \in members[v] <=> uid[t] = v
      BY DEF Directory, SignedIn
    <3>3. old # None => uid[old] = u
      BY <1>2 DEF Directory, SignedIn, u
    <3>4. CASE v = u
      <4>1. members'[v] = (members[u] \ {old}) \cup {s}
        BY <1>2, <3>4 DEF Directory, TypeOK, BoundMembers, u
      <4> QED
        BY <1>2, <3>1, <3>2, <3>4, <4>1
    <3>5. CASE v # u
      <4>1. members'[v] = members[v]
        BY <1>2, <3>5 DEF Directory, TypeOK
      <4> QED
        BY <1>2, <3>1, <3>2, <3>3, <3>5, <4>1
    <3> QED
      BY <3>4, <3>5
  <2>2. \A t \in Sessions : uid'[t] # None => stage'[t] = "open" /\ me'[t] = uid'[t]
    BY <1>2 DEF Directory, TypeOK, SignedIn
  <2>3. /\ \A t \in Sessions : job'[t].step = "login" => me'[t] = None
        /\ \A t \in Sessions : job'[t].step \in {"wait", "save", "answer"} => me'[t] # None
    <3>1. AfterBind(old).step \in {"none", "retire"}
      BY DEF AfterBind, Rest
    <3> QED
      BY <1>2, <3>1 DEF Directory, TypeOK, SignedIn
  <2>4. \A v \in Users : presence'[v] # None => saving'[v] # None
    BY <1>2, <1>3 DEF Directory, TypeOK, SignedIn
  <2> QED
    BY <2>1, <2>2, <2>3, <2>4 DEF SignedIn
<1>5. IdleEverywhere'
  <2> SUFFICES ASSUME NEW v \in Users
               PROVE  /\ presence'[v] = None <=> members'[v] = {}
                      /\ presence'[v] # None => (presence'[v].idle <=> \A t \in members'[v] : idle'[t])
    BY DEF IdleEverywhere
  <2>1. CASE v = u
    <3>1. presence'[v] = BoundPresence(s, old) /\ members'[v] = BoundMembers(s, old)
      BY <1>2, <2>1 DEF Directory, TypeOK
    <3>2. s \in BoundMembers(s, old)
      BY DEF BoundMembers
    <3> QED
      BY <1>2, <1>3, <3>1, <3>2
  <2>2. CASE v # u
    <3>1. presence'[v] = presence[v] /\ members'[v] = members[v]
      BY <1>2, <2>2 DEF Directory, TypeOK
    <3>2. s \notin members[v] /\ members[v] \subseteq Sessions
      BY <1>2 DEF Directory, TypeOK, SignedIn
    <3>3. \A t \in members[v] : idle'[t] = idle[t]
      BY <1>2, <3>2 DEF Directory, TypeOK
    <3> QED
      BY <3>1, <3>3 DEF Directory, IdleEverywhere
  <2> QED
    BY <2>1, <2>2
<1>6. WatchIndexMatches'
  <2>1. \A v \in Users : watchers'[v] = watchers[v] \ {old}
    BY <1>3 DEF Unwatched
  <2>2. \A t \in Sessions : watching'[t] = IF t = old THEN {} ELSE watching[t]
    BY <1>3
  <2>3. \A t \in Sessions : t # old => uid'[t] = IF t = s THEN u ELSE uid[t]
    BY <1>2
  <2> QED
    BY <1>2, <2>1, <2>2, <2>3 DEF Directory, WatchIndexMatches
<1> QED
  BY <1>1, <1>4, <1>5, <1>6 DEF Directory

-----------------------------------------------------------------------------
(* The other actions.                                                      *)

\* Nobody comes, goes or becomes idle, and no account is made or dropped.
LEMMA SameDirectory ==
    ASSUME Directory, TypeOK', UNCHANGED <<conns, watching, watchers, members, saving>>,
           \A u \in Users : /\ presence'[u] = None <=> presence[u] = None
                            /\ presence[u] # None => presence'[u].idle = presence[u].idle,
           \A t \in Sessions : /\ job'[t].step = "login" => me[t] = None
                               /\ job'[t].step \in {"wait", "save", "answer"} => me[t] # None
    PROVE  Directory'
<1>1. SignedIn'
  BY DEF Directory, SignedIn, conns
<1>2. IdleEverywhere'
  BY DEF Directory, IdleEverywhere, conns
<1>3. WatchIndexMatches'
  BY DEF Directory, WatchIndexMatches, conns
<1> QED
  BY <1>1, <1>2, <1>3 DEF Directory

\* A handler takes a step that changes nothing else.
LEMMA DoesDirectory ==
    ASSUME Directory, NEW s \in Sessions, NEW what \in Jobs, Does(s, what),
           what.step = "login" => me[s] = None,
           what.step \in {"wait", "save", "answer"} => me[s] # None,
           UNCHANGED <<conns, watching, watchers, members, presence, saving, queued>>,
           db' \in [Users -> Statuses],
           told' \in [Sessions -> [Users -> Views \cup {None}]],
           heard' \in [Sessions -> [Users -> {"none", "waiting", "latest", "overtaken"}]]
    PROVE  Directory'
<1>1. job' = [job EXCEPT ![s] = what] /\ job' \in [Sessions -> Jobs]
  BY DEF Does, Directory, TypeOK
<1>2. TypeOK'
  BY <1>1 DEF Directory, TypeOK, conns
<1>3. \A t \in Sessions : /\ job'[t].step = "login" => me[t] = None
                          /\ job'[t].step \in {"wait", "save", "answer"} => me[t] # None
  BY <1>1 DEF Directory, SignedIn, TypeOK
<1> QED
  BY <1>2, <1>3, SameDirectory

LEMMA JoinDirectory ==
    ASSUME Directory, NEW s \in Sessions, Join(s)
    PROVE  Directory'
<1>1. TypeOK'
  BY DEF Join, Directory, TypeOK
<1>2. SignedIn'
  BY DEF Join, Directory, TypeOK, SignedIn
<1>3. IdleEverywhere'
  BY DEF Join, Directory, IdleEverywhere
<1>4. WatchIndexMatches'
  BY DEF Join, Directory, TypeOK, WatchIndexMatches
<1> QED
  BY <1>1, <1>2, <1>3, <1>4 DEF Directory

LEMMA LeaveDirectory ==
    ASSUME Directory, NEW s \in Sessions, Leave(s)
    PROVE  Directory'
<1>1. /\ Forget(s, s, TRUE) /\ UNCHANGED <<me, db>>
      /\ job' = [job EXCEPT ![s] = IF @.step = "login" THEN Rest ELSE @]
  BY DEF Leave
<1>2. job' \in [Sessions -> Jobs] /\ \A t \in Sessions : job'[t] \in {job[t], Rest}
  BY <1>1, JobMakers DEF Directory, TypeOK
<1> QED
  BY <1>1, <1>2, ForgetDirectory

LEMMA RetireDirectory ==
    ASSUME Directory, NEW s \in Sessions, RetireReplaced(s)
    PROVE  Directory'
<1>1. job[s].old \in Sessions /\ Does(s, Rest)
  BY JobFacts DEF RetireReplaced, GoesOn, Directory, TypeOK
<1>2. CASE stage[job[s].old] = "open"
  <2>1. Forget(job[s].old, s, FALSE) /\ UNCHANGED <<me, db>>
    BY <1>2 DEF RetireReplaced
  <2>2. job' \in [Sessions -> Jobs] /\ \A t \in Sessions : job'[t] \in {job[t], Rest}
    BY <1>1, JobMakers DEF Does, Directory, TypeOK
  <2> QED
    BY <1>1, <2>1, <2>2, ForgetDirectory
<1>3. CASE stage[job[s].old] # "open"
  <2>1. UNCHANGED <<conns, watching, watchers, members, presence, saving, db, queued, told, heard>>
    BY <1>3 DEF RetireReplaced
  <2> QED
    BY <1>1, <2>1, JobMakers, DoesDirectory DEF Directory, TypeOK
<1> QED
  BY <1>2, <1>3

LEMMA ReadDirectory ==
    ASSUME Directory, NEW s \in Sessions, NEW u \in Users, NEW d \in Devices, ReadAccount(s, u, d)
    PROVE  Directory'
<1> DEFINE what == [step |-> "login", user |-> u, device |-> d, status |-> db[u]]
<1>1. what \in Jobs /\ what.step = "login"
  BY JobMakers DEF Directory, TypeOK
<1>2. /\ Does(s, what) /\ me[s] = None
      /\ UNCHANGED <<conns, watching, watchers, members, presence, saving, db, queued, told, heard>>
  BY DEF ReadAccount
<1> HIDE DEF what
<1> QED
  BY <1>1, <1>2, DoesDirectory DEF Directory, TypeOK

LEMMA UpdateStartDirectory ==
    ASSUME Directory, NEW s \in Sessions, NEW v \in Statuses, UpdateStart(s, v)
    PROVE  Directory'
<1> DEFINE what == [step |-> "wait", mutex |-> saving[me[s]], status |-> v]
<1>1. /\ Does(s, what) /\ me[s] # None /\ presence[me[s]] # None
      /\ UNCHANGED <<conns, watching, watchers, members, presence, saving, db, queued, told, heard>>
  BY DEF UpdateStart
<1>2. saving[me[s]] \in Sessions
  BY <1>1 DEF Directory, TypeOK, SignedIn
<1>3. what \in Jobs /\ what.step = "wait"
  BY <1>2, JobMakers
<1> HIDE DEF what
<1> QED
  BY <1>1, <1>3, DoesDirectory DEF Directory, TypeOK

LEMMA UpdateChangeDirectory ==
    ASSUME Directory, NEW s \in Sessions, UpdateChange(s)
    PROVE  Directory'
<1> DEFINE u == me[s]
<1> DEFINE is == [presence[u] EXCEPT !.status = job[s].status]
<1> DEFINE new == Changes(u, presence[u], is, watchers[u], members[u], s, FALSE)
<1> DEFINE what == [step |-> "save", mutex |-> job[s].mutex,
                    status |-> is.status, changed |-> presence[u] # is]
<1>1. job[s].step = "wait" /\ u \in Users /\ job[s].mutex \in Sessions /\ job[s].status \in Statuses
  BY JobFacts DEF UpdateChange, GoesOn, Directory, TypeOK, SignedIn
<1>2. CASE presence[u] = None
  <2>1. Does(s, Rest) /\ UNCHANGED <<conns, watching, watchers, members, presence, saving, db, queued, told, heard>>
    BY <1>2 DEF UpdateChange
  <2> QED
    BY <2>1, JobMakers, DoesDirectory DEF Directory, TypeOK
<1>3. CASE presence[u] # None
  <2>1. /\ presence' = [presence EXCEPT ![u] = is] /\ Queue(new) /\ heard' = Awaited(new, heard)
        /\ Does(s, what)
        /\ UNCHANGED <<conns, watching, watchers, members, saving, db, told>>
    BY <1>3 DEF UpdateChange
  <2>2. /\ presence[u] \in Presence /\ is \in Presence
        /\ is.status = job[s].status /\ is.idle = presence[u].idle
    <3>1. presence[u] \in Presence
      BY <1>1, <1>3 DEF Directory, TypeOK
    <3> QED
      BY <1>1, <3>1 DEF Presence
  <2>3. what \in Jobs /\ what.step = "save"
    BY <1>1, <2>2, JobMakers
  <2>4. new \in SUBSET Frames
    <3>1. watchers[u] \in SUBSET Sessions /\ members[u] \in SUBSET Sessions
      BY <1>1 DEF Directory, TypeOK
    <3> QED
      BY <1>1, <2>2, <3>1, ChangesType
  <2> HIDE DEF what, new, is, u
  <2>5. job' = [job EXCEPT ![s] = what] /\ job' \in [Sessions -> Jobs]
    BY <2>1, <2>3 DEF Does, Directory, TypeOK
  <2>6. queued' \subseteq Frames
    BY <2>1, <2>4, QueueType DEF Directory
  <2>7. heard' \in [Sessions -> [Users -> {"none", "waiting", "latest", "overtaken"}]]
    BY <2>1, AwaitedType DEF Directory
  <2>8. presence' \in [Users -> Presence \cup {None}]
    BY <2>1, <2>2 DEF Directory, TypeOK
  <2>9. TypeOK'
    BY <2>1, <2>5, <2>6, <2>7, <2>8 DEF Directory, TypeOK, conns
  <2>10. \A v \in Users : /\ presence'[v] = None <=> presence[v] = None
                          /\ presence[v] # None => presence'[v].idle = presence[v].idle
    BY <1>1, <1>3, <2>1, <2>2 DEF Directory, TypeOK
  <2>11. me[s] # None
    BY <1>1 DEF Directory, SignedIn
  <2>12. \A t \in Sessions : /\ job'[t].step = "login" => me[t] = None
                             /\ job'[t].step \in {"wait", "save", "answer"} => me[t] # None
    BY <2>3, <2>5, <2>11 DEF Directory, SignedIn, TypeOK
  <2> QED
    BY <2>1, <2>9, <2>10, <2>12, SameDirectory
<1> QED
  BY <1>2, <1>3

LEMMA UpdateSaveDirectory ==
    ASSUME Directory, NEW s \in Sessions, UpdateSave(s)
    PROVE  Directory'
<1>1. job[s].status \in Statuses
  BY JobFacts DEF UpdateSave, GoesOn, Directory, TypeOK
<1>2. db' \in [Users -> Statuses]
  BY <1>1 DEF UpdateSave, Directory, TypeOK
<1>3. Does(s, Rest) /\ UNCHANGED <<conns, watching, watchers, members, presence, saving, queued, told, heard>>
  BY DEF UpdateSave
<1> QED
  BY <1>2, <1>3, JobMakers, DoesDirectory DEF Directory, TypeOK

LEMMA SetIdleDirectory ==
    ASSUME Directory, NEW s \in Sessions, SetIdle(s)
    PROVE  Directory'
<1> DEFINE u == uid[s]
<1> DEFINE idles == [idle EXCEPT ![s] = ~@]
<1> DEFINE is == [presence[u] EXCEPT !.idle = AllIdle(members[u], idles)]
<1> DEFINE new == Changes(u, presence[u], is, watchers[u], members[u], s, FALSE)
<1>1. /\ u \in Users /\ s \in members[u] /\ presence[u] \in Presence /\ idles \in [Sessions -> BOOLEAN]
  BY DEF SetIdle, Directory, TypeOK, SignedIn, IdleEverywhere
<1>2. /\ idle' = idles /\ presence' = [presence EXCEPT ![u] = is] /\ Queue(new) /\ heard' = Awaited(new, heard)
      /\ UNCHANGED <<stage, uid, device, me, watching, watchers, members, saving, job, db, told>>
  BY DEF SetIdle
<1>3. AllIdle(members[u], idles) \in BOOLEAN
      /\ (AllIdle(members[u], idles) <=> \A t \in members[u] : idles[t])
  BY <1>1 DEF AllIdle
<1>4. is \in Presence /\ (is.idle <=> \A t \in members[u] : idles[t])
  BY <1>1, <1>3 DEF Presence
<1>5. new \in SUBSET Frames
  <2>1. watchers[u] \in SUBSET Sessions /\ members[u] \in SUBSET Sessions
    BY <1>1 DEF Directory, TypeOK
  <2> QED
    BY <1>1, <1>4, <2>1, ChangesType
<1>6. \A t \in Sessions : t # s => idles[t] = idle[t]
  BY DEF Directory, TypeOK
<1> HIDE DEF new, is, u, idles
<1>7. TypeOK'
  <2>1. queued' \subseteq Frames
    BY <1>2, <1>5, QueueType DEF Directory
  <2>2. heard' \in [Sessions -> [Users -> {"none", "waiting", "latest", "overtaken"}]]
    BY <1>2, AwaitedType DEF Directory
  <2> QED
    BY <1>1, <1>2, <1>4, <2>1, <2>2 DEF Directory, TypeOK
<1>8. \A v \in Users : presence'[v] = IF v = u THEN is ELSE presence[v]
  BY <1>1, <1>2 DEF Directory, TypeOK
<1>9. SignedIn'
  BY <1>1, <1>2, <1>8 DEF Directory, SignedIn
<1>10. IdleEverywhere'
  <2> SUFFICES ASSUME NEW v \in Users
               PROVE  /\ presence'[v] = None <=> members'[v] = {}
                      /\ presence'[v] # None => (presence'[v].idle <=> \A t \in members'[v] : idle'[t])
    BY DEF IdleEverywhere
  <2>1. CASE v = u
    BY <1>1, <1>2, <1>4, <1>8, <2>1
  <2>2. CASE v # u
    <3>1. s \notin members[v] /\ members[v] \subseteq Sessions
      BY <2>2 DEF Directory, TypeOK, SignedIn, u
    <3> QED
      BY <1>2, <1>6, <1>8, <2>2, <3>1 DEF Directory, IdleEverywhere
  <2> QED
    BY <2>1, <2>2
<1>11. WatchIndexMatches'
  BY <1>2 DEF Directory, WatchIndexMatches
<1> QED
  BY <1>7, <1>9, <1>10, <1>11 DEF Directory

LEMMA WatchDirectory ==
    ASSUME Directory, NEW s \in Sessions, NEW set \in SUBSET Users, Watch(s, set)
    PROVE  Directory'
<1> DEFINE added == set \ watching[s]
<1> DEFINE removed == watching[s] \ set
<1> DEFINE what == IF added = {} THEN Rest ELSE [step |-> "answer", added |-> added]
<1>1. /\ stage[s] = "open" /\ uid[s] # None /\ uid[s] = me[s]
      /\ watching' = [watching EXCEPT ![s] = set]
      /\ watchers' = [u \in Users |-> IF u \in set THEN watchers[u] \cup {s} ELSE watchers[u] \ {s}]
      /\ Does(s, what)
      /\ UNCHANGED <<conns, members, presence, saving, db>>
  BY DEF Watch, Handles
<1>2. /\ queued' = {IF f.to = s /\ f.about \in removed THEN [f EXCEPT !.latest = FALSE] ELSE f : f \in queued}
      /\ told'  = [told EXCEPT ![s] = [u \in Users |-> IF u \in removed THEN None ELSE @[u]]]
      /\ heard' = [heard EXCEPT ![s] = [u \in Users |-> IF u \in removed THEN "none" ELSE @[u]]]
  BY DEF Watch
<1>3. what \in Jobs /\ what.step \in {"none", "answer"}
  <2>1. added \in SUBSET Users
    OBVIOUS
  <2> QED
    BY <2>1, JobMakers
<1> HIDE DEF what, removed, added
<1>4. job' = [job EXCEPT ![s] = what] /\ job' \in [Sessions -> Jobs]
  BY <1>1, <1>3 DEF Does, Directory, TypeOK
<1>5. TypeOK'
  <2>1. queued' \subseteq Frames
    <3>1. \A f \in Frames : [f EXCEPT !.latest = FALSE] \in Frames
      BY DEF Frames
    <3> QED
      BY <1>2, <3>1 DEF Directory, TypeOK
  <2>2. told' \in [Sessions -> [Users -> Views \cup {None}]]
    BY <1>2 DEF Directory, TypeOK
  <2>3. heard' \in [Sessions -> [Users -> {"none", "waiting", "latest", "overtaken"}]]
    BY <1>2 DEF Directory, TypeOK
  <2>4. watching' \in [Sessions -> SUBSET Users] /\ watchers' \in [Users -> SUBSET Sessions]
    BY <1>1 DEF Directory, TypeOK
  <2> QED
    BY <1>1, <1>4, <2>1, <2>2, <2>3, <2>4 DEF Directory, TypeOK, conns
<1>6. SignedIn'
  BY <1>1, <1>3, <1>4 DEF Directory, TypeOK, SignedIn, conns
<1>7. IdleEverywhere'
  BY <1>1 DEF Directory, IdleEverywhere, conns
<1>8. WatchIndexMatches'
  <2>1. \A t \in Sessions : watching'[t] = IF t = s THEN set ELSE watching[t]
    BY <1>1 DEF Directory, TypeOK
  <2>2. \A t \in Sessions, u \in Users : t \in watchers'[u] <=> u \in watching'[t]
    BY <1>1, <2>1 DEF Directory, WatchIndexMatches
  <2>3. \A t \in Sessions : watching'[t] # {} => uid'[t] # None /\ stage'[t] = "open"
    BY <1>1, <2>1 DEF Directory, WatchIndexMatches, conns
  <2> QED
    BY <2>2, <2>3 DEF WatchIndexMatches
<1> QED
  BY <1>5, <1>6, <1>7, <1>8 DEF Directory

LEMMA AnswerDirectory ==
    ASSUME Directory, NEW s \in Sessions, WatchAnswer(s)
    PROVE  Directory'
<1>1. /\ Does(s, Rest) /\ UNCHANGED <<conns, watching, watchers, members, presence, saving, db, queued>>
  BY DEF WatchAnswer
<1>2. \A u \in Users : View(presence[u]) \in Views
  BY ViewType DEF Directory, TypeOK
<1>3. /\ told' \in [Sessions -> [Users -> Views \cup {None}]]
      /\ heard' \in [Sessions -> [Users -> {"none", "waiting", "latest", "overtaken"}]]
  <2>1. told \in [Sessions -> [Users -> Views \cup {None}]]
        /\ heard \in [Sessions -> [Users -> {"none", "waiting", "latest", "overtaken"}]]
    BY DEF Directory, TypeOK
  <2>2. CASE stage[s] = "open" /\ uid[s] = me[s]
    <3> DEFINE t == [u \in Users |-> IF u \in Answered(s) THEN View(presence[u]) ELSE told[s][u]]
    <3> DEFINE h == [u \in Users |-> IF u \in Answered(s) THEN "latest" ELSE heard[s][u]]
    <3>1. told' = [told EXCEPT ![s] = t] /\ heard' = [heard EXCEPT ![s] = h]
      BY <2>2 DEF WatchAnswer
    <3>2. t \in [Users -> Views \cup {None}] /\ h \in [Users -> {"none", "waiting", "latest", "overtaken"}]
      BY <1>2, <2>1
    <3> HIDE DEF t, h
    <3> QED
      BY <2>1, <3>1, <3>2
  <2>3. CASE ~(stage[s] = "open" /\ uid[s] = me[s])
    BY <2>1, <2>3 DEF WatchAnswer
  <2> QED
    BY <2>2, <2>3
<1> QED
  BY <1>1, <1>3, JobMakers, DoesDirectory DEF Directory, TypeOK

LEMMA PostDirectory ==
    ASSUME Directory, NEW f \in queued, Post(f)
    PROVE  Directory'
<1>1. f.to \in Sessions /\ f.about \in Users /\ f.shows \in Views
  BY DEF Directory, TypeOK, Frames
<1>2. /\ queued' \subseteq Frames
      /\ UNCHANGED <<conns, watching, watchers, members, presence, saving, job, db>>
  BY DEF Post, Directory, TypeOK
<1>3. told \in [Sessions -> [Users -> Views \cup {None}]]
      /\ heard \in [Sessions -> [Users -> {"none", "waiting", "latest", "overtaken"}]]
  BY DEF Directory, TypeOK
<1>4. /\ told' \in [Sessions -> [Users -> Views \cup {None}]]
      /\ heard' \in [Sessions -> [Users -> {"none", "waiting", "latest", "overtaken"}]]
  <2>1. CASE stage[f.to] = "open"
    <3> DEFINE now == IF f.latest THEN "latest"
                      ELSE IF heard[f.to][f.about] = "latest" THEN "overtaken" ELSE heard[f.to][f.about]
    <3>1. /\ told' = [told EXCEPT ![f.to][f.about] = f.shows]
          /\ heard' = [heard EXCEPT ![f.to][f.about] = now]
      BY <2>1 DEF Post
    <3>2. now \in {"none", "waiting", "latest", "overtaken"}
      BY <1>1, <1>3
    <3> HIDE DEF now
    <3>3. told' \in [Sessions -> [Users -> Views \cup {None}]]
      BY <1>1, <1>3, <3>1
    <3>4. heard' \in [Sessions -> [Users -> {"none", "waiting", "latest", "overtaken"}]]
      BY <1>1, <1>3, <3>1, <3>2
    <3> QED
      BY <3>3, <3>4
  <2>2. CASE stage[f.to] # "open"
    BY <1>3, <2>2 DEF Post
  <2> QED
    BY <2>1, <2>2
<1>5. TypeOK'
  BY <1>2, <1>4 DEF Directory, TypeOK, conns
<1>6. \A t \in Sessions : /\ job'[t].step = "login" => me[t] = None
                          /\ job'[t].step \in {"wait", "save", "answer"} => me[t] # None
  BY <1>2 DEF Directory, SignedIn
<1> QED
  BY <1>2, <1>5, <1>6, SameDirectory

LEMMA StepDirectory == Directory /\ [Next]_vars => Directory'
<1> SUFFICES ASSUME Directory, [Next]_vars PROVE Directory'
  OBVIOUS
<1>1. ASSUME NEW s \in Sessions, Bind(s) PROVE Directory'
  BY <1>1, BindFact, BindDirectory
<1>2. ASSUME NEW s \in Sessions, BindFull(s) PROVE Directory'
  <2>1. Does(s, Rest) /\ UNCHANGED <<conns, watching, watchers, members, presence, saving, db, queued, told, heard>>
    BY <1>2 DEF BindFull
  <2> QED
    BY <2>1, JobMakers, DoesDirectory DEF Directory, TypeOK
<1>3. CASE UNCHANGED vars
  BY <1>3 DEF vars, Directory, TypeOK, SignedIn, IdleEverywhere, WatchIndexMatches
<1> QED
  BY <1>1, <1>2, <1>3, JoinDirectory, LeaveDirectory, RetireDirectory, ReadDirectory,
     UpdateStartDirectory, UpdateChangeDirectory, UpdateSaveDirectory, SetIdleDirectory,
     WatchDirectory, AnswerDirectory, PostDirectory
  DEF Next

\* Every state of the directory is one the code's types allow.
THEOREM AlwaysTyped == Spec => []TypeOK
<1>1. Directory => TypeOK
  BY DEF Directory
<1> QED
  BY InitDirectory, StepDirectory, <1>1, PTL DEF Spec

\* watchers_ never holds a connection that is not there, or misses one.
THEOREM IndexAlwaysMatches == Spec => []WatchIndexMatches
<1>1. Directory => WatchIndexMatches
  BY DEF Directory
<1> QED
  BY InitDirectory, StepDirectory, <1>1, PTL DEF Spec

\* An account is idle exactly while each of its connections is, whichever
\* came, went, moved or was replaced last.
THEOREM AwayOnlyTogether == Spec => []IdleEverywhere
<1>1. Directory => IdleEverywhere
  BY DEF Directory
<1> QED
  BY InitDirectory, StepDirectory, <1>1, PTL DEF Spec

-----------------------------------------------------------------------------
(* Invisible accounts.                                                     *)

\* Of an account that stays unseen only its own connections are told.
LEMMA UnseenFrames ==
    ASSUME NEW u, NEW was, NEW is, NEW seenBy, NEW own, NEW s, NEW ends \in BOOLEAN,
           NEW f \in Changes(u, was, is, seenBy, own, s, ends)
    PROVE  /\ f.about = u /\ f.latest
           /\ \/ f.to \in seenBy /\ Differs(was, is) /\ f.shows = View(is)
              \/ f.to \in own /\ is # was /\ is # None /\ f.shows = is
<1> DEFINE frame(to, shows) == [to |-> to, about |-> u, shows |-> shows,
                                by |-> s, ends |-> ends, latest |-> TRUE]
<1>1. CASE f \in (IF Differs(was, is) THEN {frame(w, View(is)) : w \in seenBy} ELSE {})
  <2>1. Differs(was, is) /\ \E w \in seenBy : f = frame(w, View(is))
    BY <1>1
  <2> QED
    BY <2>1
<1>2. CASE f \in (IF is # was /\ is # None THEN {frame(o, is) : o \in own} ELSE {})
  <2>1. is # was /\ is # None /\ \E o \in own : f = frame(o, is)
    BY <1>2
  <2> QED
    BY <2>1
<1> QED
  BY <1>1, <1>2 DEF Changes

LEMMA UnseenStays ==
    ASSUME NEW was, NEW is, ~Visible(was), ~Visible(is)
    PROVE  ~Differs(was, is)
BY DEF Differs, View

\* What is newest in the queue is what the step announced.
LEMMA NewestAreNew ==
    ASSUME TypeOK, NEW new, Queue(new), NEW f \in queued' \ queued, f.latest
    PROVE  f \in new
<1>1. \A g \in Frames : [g EXCEPT !.latest = FALSE].latest = FALSE
  BY DEF Frames
<1>2. queued' = {IF Addressed(new, g.to, g.about) THEN [g EXCEPT !.latest = FALSE] ELSE g : g \in queued} \cup new
  BY DEF Queue
<1>3. ASSUME NEW g \in queued, f = IF Addressed(new, g.to, g.about) THEN [g EXCEPT !.latest = FALSE] ELSE g
      PROVE  FALSE
  <2>1. g \in Frames
    BY DEF TypeOK
  <2>2. CASE Addressed(new, g.to, g.about)
    BY <1>1, <1>3, <2>1, <2>2
  <2>3. CASE ~Addressed(new, g.to, g.about)
    BY <1>3, <2>3
  <2> QED
    BY <2>2, <2>3
<1> QED
  BY <1>2, <1>3

LEMMA ForgetUnseen ==
    ASSUME Directory, NEW x \in Sessions, NEW by \in Sessions, NEW ends \in BOOLEAN, Forget(x, by, ends),
           NEW u \in Users, ~Visible(presence[u]), ~Visible(presence'[u])
    PROVE  /\ \A f \in queued' \ queued : f.about = u /\ f.latest => uid'[f.to] = u
           /\ \A s \in Sessions : told'[s][u] # told[s][u] => told'[s][u] = None
<1>1. uid' = [uid EXCEPT ![x] = None] /\ told' = [told EXCEPT ![x] = [v \in Users |-> None]]
  BY ForgetSession
<1>2. \A s \in Sessions : told'[s][u] # told[s][u] => told'[s][u] = None
  BY <1>1 DEF Directory, TypeOK
<1>3. ASSUME NEW f \in queued' \ queued, f.about = u, f.latest
      PROVE  uid'[f.to] = u
  <2>1. uid[x] # None
    BY <1>3, ForgetSignedOut
  <2>2. /\ Queue(Goodbyes(x, by, ends)) /\ uid[x] \in Users
        /\ presence' = [presence EXCEPT ![uid[x]] = PresenceWithout(x)]
    BY <2>1, ForgetSignedIn
  <2>3. f \in Goodbyes(x, by, ends)
    BY <1>3, <2>2, NewestAreNew DEF Directory
  <2>4. uid[x] = u
    BY <1>3, <2>3, UnseenFrames DEF Goodbyes
  <2>5. presence'[u] = PresenceWithout(x)
    BY <2>2, <2>4 DEF Directory, TypeOK
  <2>6. ~Differs(presence[uid[x]], PresenceWithout(x))
    BY <2>4, <2>5, UnseenStays
  <2>7. f.to \in RestOf(x)
    BY <2>3, <2>6, UnseenFrames DEF Goodbyes
  <2> QED
    BY <1>1, <2>4, <2>7 DEF RestOf, Directory, TypeOK, SignedIn
<1> QED
  BY <1>2, <1>3

LEMMA BindUnseen ==
    ASSUME Directory, NEW s \in Sessions, NEW old \in Sessions \cup {None},
           old # None => old \in members[job[s].user],
           stage[s] = "open", job[s].step = "login", BindReplacing(s, old),
           NEW u \in Users, ~Visible(presence[u]), ~Visible(presence'[u])
    PROVE  /\ \A f \in queued' \ queued : f.about = u /\ f.latest => uid'[f.to] = u
           /\ \A t \in Sessions : told'[t][u] # told[t][u] => uid'[t] = u
<1> DEFINE v == job[s].user
<1>1. /\ v \in Users /\ BoundMembers(s, old) \in SUBSET Sessions
      /\ uid' = [t \in Sessions |-> IF t = s THEN v ELSE IF t = old THEN None ELSE uid[t]]
      /\ presence' = [presence EXCEPT ![v] = BoundPresence(s, old)]
      /\ Queue(Greetings(s, old))
      /\ told' = [told EXCEPT ![s][v] = BoundPresence(s, old)]
  BY BindingFact
<1>2. \A t \in Sessions : told'[t][u] # told[t][u] => uid'[t] = u
  BY <1>1 DEF Directory, TypeOK
<1>3. ASSUME NEW f \in queued' \ queued, f.about = u, f.latest
      PROVE  uid'[f.to] = u
  <2>1. f \in Greetings(s, old)
    BY <1>1, <1>3, NewestAreNew DEF Directory
  <2> DEFINE from == watchers[v] \ {old}
  <2> DEFINE own == BoundMembers(s, old) \ {s}
  <2> DEFINE was == presence[v]
  <2> DEFINE is == BoundPresence(s, old)
  <2> DEFINE no == FALSE
  <2>0. no \in BOOLEAN /\ f \in Changes(v, was, is, from, own, s, no)
    BY <2>1 DEF Greetings
  <2> HIDE DEF v, from, own, was, is, no
  <2>2. v = u
    <3>1. f.about = v
      BY <2>0, UnseenFrames
    <3> QED
      BY <1>3, <3>1
  <2>3. ~Differs(presence[v], BoundPresence(s, old))
    BY <1>1, <2>2, UnseenStays DEF Directory, TypeOK, v
  <2>4. f.to \in own
    <3>1. ~Differs(was, is)
      BY <2>3 DEF was, is
    <3>2. f.to \in own
      BY <2>0, <3>1, UnseenFrames
    <3> QED
      BY <3>2
  <2>5. f.to \in members[u] /\ f.to # old /\ f.to \in Sessions
    BY <1>1, <2>2, <2>4 DEF BoundMembers, own, v
  <2> QED
    BY <1>1, <2>4, <2>5 DEF Directory, SignedIn, own
<1> QED
  BY <1>2, <1>3

LEMMA NextUnseen ==
    ASSUME Directory, Next, NEW u \in Users, ~Visible(presence[u]), ~Visible(presence'[u])
    PROVE  /\ \A f \in queued' \ queued : f.about = u /\ f.latest => uid'[f.to] = u
           /\ \A s \in Sessions : told'[s][u] # told[s][u] =>
                 \/ told'[s][u] \in {None, Offline} \/ uid'[s] = u
                 \/ \E f \in queued : Post(f) /\ f.to = s /\ f.about = u
<1> DEFINE Silent ==
           /\ \A f \in queued' \ queued : f.about = u /\ f.latest => uid'[f.to] = u
           /\ \A s \in Sessions : told'[s][u] # told[s][u] =>
                 \/ told'[s][u] \in {None, Offline} \/ uid'[s] = u
                 \/ \E f \in queued : Post(f) /\ f.to = s /\ f.about = u
<1>1. ASSUME UNCHANGED <<queued, told>> PROVE Silent
  BY <1>1
<1>2. ASSUME NEW s \in Sessions, Join(s) PROVE Silent
  BY <1>1, <1>2 DEF Join
<1>3. ASSUME NEW s \in Sessions, Leave(s) PROVE Silent
  BY <1>3, ForgetUnseen DEF Leave
<1>4. ASSUME NEW s \in Sessions, Bind(s) PROVE Silent
  BY <1>4, BindFact, BindUnseen
<1>5. ASSUME NEW s \in Sessions, BindFull(s) PROVE Silent
  BY <1>1, <1>5 DEF BindFull
<1>6. ASSUME NEW s \in Sessions, RetireReplaced(s) PROVE Silent
  <2>1. job[s].old \in Sessions
    BY <1>6, JobFacts DEF RetireReplaced, GoesOn, Directory, TypeOK
  <2>2. CASE Forget(job[s].old, s, FALSE)
    BY <2>1, <2>2, ForgetUnseen
  <2>3. CASE ~Forget(job[s].old, s, FALSE)
    BY <1>1, <1>6, <2>3 DEF RetireReplaced
  <2> QED
    BY <2>2, <2>3
<1>7. ASSUME NEW s \in Sessions, UpdateChange(s) PROVE Silent
  <2> DEFINE v == me[s]
  <2> DEFINE is == [presence[v] EXCEPT !.status = job[s].status]
  <2> DEFINE new == Changes(v, presence[v], is, watchers[v], members[v], s, FALSE)
  <2>1. CASE presence[v] = None
    BY <1>1, <1>7, <2>1 DEF UpdateChange
  <2>2. CASE presence[v] # None
    <3>1. /\ presence' = [presence EXCEPT ![v] = is] /\ Queue(new) /\ told' = told /\ uid' = uid
      BY <1>7, <2>2 DEF UpdateChange, conns
    <3>2. v \in Users
      BY <1>7 DEF UpdateChange, GoesOn, Directory, TypeOK, SignedIn
    <3>3. ASSUME NEW f \in queued' \ queued, f.about = u, f.latest
          PROVE  uid'[f.to] = u
      <4>1. f \in new
        BY <3>1, <3>3, NewestAreNew DEF Directory
      <4> DEFINE no == FALSE
      <4>0. no \in BOOLEAN /\ f \in Changes(v, presence[v], is, watchers[v], members[v], s, no)
        BY <4>1
      <4> HIDE DEF is, no, v
      <4>2. v = u
        BY <3>3, <4>0, UnseenFrames
      <4>3. ~Differs(presence[v], is)
        BY <3>1, <3>2, <4>2, UnseenStays DEF Directory, TypeOK
      <4>4. f.to \in members[v]
        BY <4>0, <4>3, UnseenFrames
      <4> QED
        BY <3>1, <3>2, <4>2, <4>4 DEF Directory, TypeOK, SignedIn
    <3> QED
      BY <3>1, <3>3
  <2> QED
    BY <2>1, <2>2
<1>8. ASSUME NEW s \in Sessions, UpdateSave(s) PROVE Silent
  BY <1>1, <1>8 DEF UpdateSave
<1>9. ASSUME NEW s \in Sessions, SetIdle(s) PROVE Silent
  <2> DEFINE v == uid[s]
  <2> DEFINE is == [presence[v] EXCEPT !.idle = AllIdle(members[v], [idle EXCEPT ![s] = ~@])]
  <2> DEFINE new == Changes(v, presence[v], is, watchers[v], members[v], s, FALSE)
  <2>1. /\ presence' = [presence EXCEPT ![v] = is] /\ Queue(new) /\ told' = told /\ uid' = uid
    BY <1>9 DEF SetIdle
  <2>2. v \in Users
    BY <1>9 DEF SetIdle, Directory, TypeOK
  <2>3. ASSUME NEW f \in queued' \ queued, f.about = u, f.latest
        PROVE  uid'[f.to] = u
    <3>1. f \in new
      BY <2>1, <2>3, NewestAreNew DEF Directory
    <3> DEFINE no == FALSE
    <3>0. no \in BOOLEAN /\ f \in Changes(v, presence[v], is, watchers[v], members[v], s, no)
      BY <3>1
    <3> HIDE DEF is, no, v
    <3>2. v = u
      BY <2>3, <3>0, UnseenFrames
    <3>3. ~Differs(presence[v], is)
      BY <2>1, <2>2, <3>2, UnseenStays DEF Directory, TypeOK
    <3>4. f.to \in members[v]
      BY <3>0, <3>3, UnseenFrames
    <3> QED
      BY <2>1, <2>2, <3>2, <3>4 DEF Directory, TypeOK, SignedIn
  <2> QED
    BY <2>1, <2>3
<1>10. ASSUME NEW s \in Sessions, WatchAnswer(s) PROVE Silent
  <2>1. queued' = queued
    BY <1>10 DEF WatchAnswer
  <2>2. View(presence[u]) = Offline
    BY DEF View
  <2>3. \A t \in Sessions : told'[t][u] # told[t][u] => told'[t][u] = Offline
    <3>1. CASE stage[s] = "open" /\ uid[s] = me[s]
      <4> DEFINE now == [v \in Users |-> IF v \in Answered(s) THEN View(presence[v]) ELSE told[s][v]]
      <4>1. told' = [told EXCEPT ![s] = now]
        BY <1>10, <3>1 DEF WatchAnswer
      <4>2. now[u] = IF u \in Answered(s) THEN Offline ELSE told[s][u]
        BY <2>2
      <4> HIDE DEF now
      <4> QED
        BY <4>1, <4>2 DEF Directory, TypeOK
    <3>2. CASE ~(stage[s] = "open" /\ uid[s] = me[s])
      BY <1>10, <3>2 DEF WatchAnswer
    <3> QED
      BY <3>1, <3>2
  <2> QED
    BY <2>1, <2>3
<1>11. ASSUME NEW s \in Sessions, NEW w \in Users, NEW d \in Devices, ReadAccount(s, w, d) PROVE Silent
  BY <1>1, <1>11 DEF ReadAccount
<1>12. ASSUME NEW s \in Sessions, NEW v \in Statuses, UpdateStart(s, v) PROVE Silent
  BY <1>1, <1>12 DEF UpdateStart
<1>13. ASSUME NEW s \in Sessions, NEW set \in SUBSET Users, Watch(s, set) PROVE Silent
  <2>1. \A f \in queued' \ queued : ~f.latest
    <3>1. \A g \in Frames : [g EXCEPT !.latest = FALSE].latest = FALSE
      BY DEF Frames
    <3>2. queued' = {IF f.to = s /\ f.about \in watching[s] \ set THEN [f EXCEPT !.latest = FALSE] ELSE f : f \in queued}
      BY <1>13 DEF Watch
    <3>3. ASSUME NEW f \in queued' \ queued, f.latest,
                 NEW g \in queued,
                 f = IF g.to = s /\ g.about \in watching[s] \ set THEN [g EXCEPT !.latest = FALSE] ELSE g
          PROVE  FALSE
      <4>1. g \in Frames
        BY DEF Directory, TypeOK
      <4> QED
        BY <3>1, <3>3, <4>1
    <3> QED
      BY <3>2, <3>3
  <2>2. \A t \in Sessions : told'[t][u] # told[t][u] => told'[t][u] = None
    <3>1. told'  = [told EXCEPT ![s] = [w \in Users |-> IF w \in watching[s] \ set THEN None ELSE @[w]]]
      BY <1>13 DEF Watch
    <3> QED
      BY <3>1 DEF Directory, TypeOK
  <2> QED
    BY <2>1, <2>2
<1>14. ASSUME NEW f \in queued, Post(f) PROVE Silent
  <2>1. queued' \subseteq queued
    BY <1>14 DEF Post
  <2>2. f.to \in Sessions /\ f.about \in Users
    BY DEF Directory, TypeOK, Frames
  <2>3. \A s \in Sessions : told'[s][u] # told[s][u] => f.to = s /\ f.about = u
    BY <1>14, <2>2 DEF Post, Directory, TypeOK
  <2> QED
    BY <1>14, <2>1, <2>3
<1> HIDE DEF Silent
<1>15. Silent
  BY <1>2, <1>3, <1>4, <1>5, <1>6, <1>7, <1>8, <1>9, <1>10, <1>11, <1>12, <1>13, <1>14 DEF Next
<1> QED
  BY <1>15 DEF Silent

\* No interleaving lets an invisible account show: watchers hear nothing of
\* it, and who begins to watch hears that it is offline.
THEOREM InvisibleNeverShows == Spec => InvisibleIsAirtight
<1>1. Directory /\ [Next]_vars =>
        [\A u \in Users :
          (~Visible(presence[u]) /\ ~Visible(presence'[u])) =>
             /\ \A f \in queued' \ queued : f.about = u /\ f.latest => uid'[f.to] = u
             /\ \A s \in Sessions : told'[s][u] # told[s][u] =>
                   \/ told'[s][u] \in {None, Offline} \/ uid'[s] = u
                   \/ \E f \in queued : Post(f) /\ f.to = s /\ f.about = u]_vars
  BY NextUnseen
<1> QED
  BY InitDirectory, StepDirectory, <1>1, PTL DEF Spec, InvisibleIsAirtight

-----------------------------------------------------------------------------
(* Nothing is lost.  NothingIsLost is not inductive as it stands: a frame  *)
(* that is still the latest has to show the account as it is now, and to   *)
(* be for a connection that shows the account.                             *)

Cares(s, u) == uid[s] = u \/ u \in watching[s]

Hears(s, u) ==
    \/ \E f \in queued : f.to = s /\ f.about = u /\ f.latest
    \/ job[s].step = "answer" /\ u \in job[s].added
    \/ heard[s][u] = "latest" /\ told[s][u] = Shown(s, u)
    \/ heard[s][u] = "overtaken"

LatestAreTrue ==
    \A f \in queued :
        /\ me[f.to] # None
        /\ f.latest /\ uid[f.to] # None => Cares(f.to, f.about) /\ f.shows = Shown(f.to, f.about)

OthersOnly ==
    /\ \A s \in Sessions : uid[s] \notin watching[s]
    /\ \A s \in Sessions : job[s].step = "answer" => me[s] \notin job[s].added

Told == Directory /\ LatestAreTrue /\ OthersOnly /\ NothingIsLost

LEMMA LostHears == NothingIsLost <=> \A s \in Sessions, u \in Users : Cares(s, u) => Hears(s, u)
BY DEF NothingIsLost, Cares, Hears

LEMMA InitTold == Init => Told
<1> SUFFICES ASSUME Init PROVE Told
  OBVIOUS
<1>1. LatestAreTrue /\ OthersOnly /\ NothingIsLost
  BY JobMakers DEF Init, LatestAreTrue, OthersOnly, NothingIsLost
<1> QED
  BY <1>1, InitDirectory DEF Told

\* A step that announces nothing.  Who is signed in after it was before, and
\* keeps what it watches and what it was told.
LEMMA QuietTold ==
    ASSUME Told, Directory', UNCHANGED <<presence, queued>>,
           \A t \in Sessions : uid'[t] # None =>
              /\ uid'[t] = uid[t] /\ watching'[t] = watching[t]
              /\ told'[t] = told[t] /\ heard'[t] = heard[t]
              /\ job'[t] = job[t] \/ job[t].step # "answer",
           \A t \in Sessions : me[t] # None => me'[t] = me[t],
           \A t \in Sessions : job'[t].step = "answer" => job'[t] = job[t] /\ me'[t] = me[t]
    PROVE  Told'
<1>1. OthersOnly'
  <2>1. \A t \in Sessions : uid'[t] \notin watching'[t]
    <3>1. \A t \in Sessions : None \notin watching'[t]
      BY DEF Directory, TypeOK
    <3> QED
      BY <3>1 DEF Told, OthersOnly
  <2> QED
    BY <2>1 DEF Told, OthersOnly
<1>2. LatestAreTrue'
  <2> SUFFICES ASSUME NEW f \in queued
               PROVE  /\ me'[f.to] # None
                      /\ f.latest /\ uid'[f.to] # None =>
                            Cares(f.to, f.about)' /\ f.shows = Shown(f.to, f.about)'
    BY DEF LatestAreTrue
  <2>1. f.to \in Sessions
    BY DEF Told, Directory, TypeOK, Frames
  <2>2. me'[f.to] # None
    BY <2>1 DEF Told, LatestAreTrue
  <2>3. ASSUME f.latest, uid'[f.to] # None
        PROVE  Cares(f.to, f.about)' /\ f.shows = Shown(f.to, f.about)'
    <3>1. uid'[f.to] = uid[f.to] /\ watching'[f.to] = watching[f.to]
      BY <2>1, <2>3
    <3>2. Cares(f.to, f.about) /\ f.shows = Shown(f.to, f.about)
      BY <2>3, <3>1 DEF Told, LatestAreTrue
    <3> QED
      BY <3>1, <3>2 DEF Cares, Shown
  <2> QED
    BY <2>2, <2>3
<1>3. NothingIsLost'
  <2> SUFFICES ASSUME NEW t \in Sessions, NEW v \in Users, Cares(t, v)'
               PROVE  Hears(t, v)'
    BY DEF NothingIsLost, Cares, Hears
  <2>1. uid'[t] # None
    BY DEF Cares, Directory, WatchIndexMatches
  <2>2. /\ uid'[t] = uid[t] /\ watching'[t] = watching[t]
        /\ told'[t] = told[t] /\ heard'[t] = heard[t]
        /\ job'[t] = job[t] \/ job[t].step # "answer"
    BY <2>1
  <2>3. Hears(t, v)
    BY <2>2, LostHears DEF Cares, Told
  <2> QED
    BY <2>2, <2>3 DEF Hears, Shown
<1> QED
  BY <1>1, <1>2, <1>3 DEF Told

\* What the announcements of one change are: "bound" is the connection that
\* signs in with the change and is told in the response.
News(u, bound, by, ends) ==
    Changes(u, presence[u], presence'[u], watchers'[u], members'[u] \ bound, by, ends)

LEMMA NewsIsTrue ==
    ASSUME Directory', OthersOnly', NEW u \in Users, NEW bound \in SUBSET Sessions,
           NEW by, NEW ends \in BOOLEAN, NEW g \in News(u, bound, by, ends)
    PROVE  /\ g.to \in Sessions /\ g.about = u /\ g.latest /\ uid'[g.to] # None
           /\ Cares(g.to, g.about)' /\ g.shows = Shown(g.to, g.about)'
<1> DEFINE was == presence[u]
<1> DEFINE is == presence'[u]
<1> DEFINE seenBy == watchers'[u]
<1> DEFINE own == members'[u] \ bound
<1>1. g \in Changes(u, was, is, seenBy, own, by, ends)
  BY DEF News
<1> HIDE DEF was, is, seenBy, own
<1>2. /\ g.about = u /\ g.latest
      /\ \/ g.to \in seenBy /\ g.shows = View(is)
         \/ g.to \in own /\ g.shows = is
  BY <1>1, UnseenFrames
<1>3. CASE g.to \in seenBy /\ g.shows = View(is)
  <2>1. g.to \in Sessions /\ u \in watching'[g.to]
    BY <1>3 DEF seenBy, Directory, TypeOK, WatchIndexMatches
  <2>2. uid'[g.to] # None /\ uid'[g.to] # u
    BY <2>1 DEF Directory, WatchIndexMatches, OthersOnly
  <2> QED
    BY <1>2, <1>3, <2>1, <2>2 DEF Cares, Shown, is
<1>4. CASE g.to \in own /\ g.shows = is
  <2>1. g.to \in Sessions /\ uid'[g.to] = u
    BY <1>4 DEF own, Directory, TypeOK, SignedIn
  <2> QED
    BY <1>2, <1>4, <2>1 DEF Cares, Shown, is
<1> QED
  BY <1>2, <1>3, <1>4

LEMMA NoNewsNoChange ==
    ASSUME Directory', NEW u \in Users, NEW bound \in SUBSET Sessions,
           NEW by, NEW ends \in BOOLEAN, NEW t \in Sessions \ bound,
           Cares(t, u)', uid'[t] = uid[t], ~Addressed(News(u, bound, by, ends), t, u)
    PROVE  Shown(t, u)' = Shown(t, u)
<1> DEFINE frame(to, shows) == [to |-> to, about |-> u, shows |-> shows,
                                by |-> by, ends |-> ends, latest |-> TRUE]
<1>1. CASE uid'[t] = u
  <2>1. t \in members'[u] \ bound /\ presence'[u] # None
    BY <1>1 DEF Directory, SignedIn, IdleEverywhere
  <2>2. presence'[u] = presence[u]
    <3>1. SUFFICES ASSUME presence'[u] # presence[u] PROVE FALSE
      OBVIOUS
    <3>2. frame(t, presence'[u]) \in News(u, bound, by, ends)
      BY <2>1, <3>1 DEF News, Changes
    <3>3. frame(t, presence'[u]).to = t /\ frame(t, presence'[u]).about = u
      OBVIOUS
    <3> QED
      BY <3>2, <3>3 DEF Addressed
  <2> QED
    BY <1>1, <2>2 DEF Shown
<1>2. CASE uid'[t] # u
  <2>1. t \in watchers'[u]
    BY <1>2 DEF Cares, Directory, WatchIndexMatches
  <2>2. ~Differs(presence[u], presence'[u])
    <3>1. SUFFICES ASSUME Differs(presence[u], presence'[u]) PROVE FALSE
      OBVIOUS
    <3>2. frame(t, View(presence'[u])) \in News(u, bound, by, ends)
      BY <2>1, <3>1 DEF News, Changes
    <3>3. frame(t, View(presence'[u])).to = t /\ frame(t, View(presence'[u])).about = u
      OBVIOUS
    <3> QED
      BY <3>2, <3>3 DEF Addressed
  <2> QED
    BY <1>2, <2>2 DEF Shown, Differs
<1> QED
  BY <1>1, <1>2

\* One account changes (or comes, or goes), and that is announced.
Announced(u, bound, by, ends) ==
    /\ Queue(News(u, bound, by, ends))
    /\ \A v \in Users \ {u} : presence'[v] = presence[v]
    /\ \A t \in Sessions \ bound : uid'[t] # None =>
          /\ uid'[t] = uid[t] /\ watching'[t] = watching[t] /\ told'[t] = told[t]
          /\ heard'[t] = Awaited(News(u, bound, by, ends), heard)[t]
          /\ job'[t] = job[t] \/ job[t].step # "answer"
    /\ \A t \in bound :
          /\ me[t] = None /\ uid'[t] = u /\ watching'[t] = {}
          /\ told'[t][u] = presence'[u] /\ heard'[t][u] = "latest"
    /\ \A t \in Sessions : me[t] # None => me'[t] = me[t]
    /\ \A t \in Sessions : job'[t].step = "answer" => job'[t] = job[t] /\ me'[t] = me[t]

LEMMA AnnouncedTold ==
    ASSUME Told, Directory', NEW u \in Users, NEW bound \in SUBSET Sessions,
           NEW by, NEW ends \in BOOLEAN, Announced(u, bound, by, ends)
    PROVE  Told'
<1>0. /\ Queue(News(u, bound, by, ends))
      /\ \A v \in Users \ {u} : presence'[v] = presence[v]
      /\ \A t \in Sessions \ bound : uid'[t] # None =>
            /\ uid'[t] = uid[t] /\ watching'[t] = watching[t] /\ told'[t] = told[t]
            /\ heard'[t] = Awaited(News(u, bound, by, ends), heard)[t]
            /\ job'[t] = job[t] \/ job[t].step # "answer"
      /\ \A t \in bound :
            /\ me[t] = None /\ uid'[t] = u /\ watching'[t] = {}
            /\ told'[t][u] = presence'[u] /\ heard'[t][u] = "latest"
      /\ \A t \in Sessions : me[t] # None => me'[t] = me[t]
      /\ \A t \in Sessions : job'[t].step = "answer" => job'[t] = job[t] /\ me'[t] = me[t]
  BY DEF Announced
<1> USE <1>0
<1> DEFINE new == News(u, bound, by, ends)
<1>1. OthersOnly'
  <2>1. \A t \in Sessions : uid'[t] \notin watching'[t]
    <3>1. \A t \in Sessions : None \notin watching'[t]
      BY DEF Directory, TypeOK
    <3> QED
      BY <3>1 DEF Told, OthersOnly
  <2> QED
    BY <2>1 DEF Told, OthersOnly
<1>2. \A g \in new : /\ g.to \in Sessions /\ g.about = u /\ g.latest /\ uid'[g.to] # None
                     /\ Cares(g.to, g.about)' /\ g.shows = Shown(g.to, g.about)'
  BY <1>1, NewsIsTrue
<1>3. \A t \in Sessions \ bound :
         Cares(t, u)' /\ uid'[t] = uid[t] /\ ~Addressed(new, t, u) => Shown(t, u)' = Shown(t, u)
  BY NoNewsNoChange
<1>4. queued' = {IF Addressed(new, f.to, f.about) THEN [f EXCEPT !.latest = FALSE] ELSE f : f \in queued} \cup new
  BY DEF Queue
<1>5. \A t \in Sessions, v \in Users : Awaited(new, heard)[t][v] = IF Addressed(new, t, v) THEN "waiting" ELSE heard[t][v]
  BY DEF Awaited
<1>6. \A t \in Sessions, v \in Users : Addressed(new, t, v) => v = u
  BY <1>2 DEF Addressed
<1>7. queued \subseteq Frames
  BY DEF Told, Directory, TypeOK
<1> HIDE DEF new
<1>8. ASSUME NEW t \in Sessions \ bound, NEW v \in Users, uid'[t] # None, Cares(t, v), ~Addressed(new, t, v)
      PROVE  Cares(t, v)' /\ Shown(t, v)' = Shown(t, v)
  <2>1. uid'[t] = uid[t] /\ watching'[t] = watching[t]
    BY <1>8
  <2>2. Cares(t, v)'
    BY <1>8, <2>1 DEF Cares
  <2>3. Shown(t, v)' = Shown(t, v)
    <3>1. CASE v = u
      BY <1>3, <1>8, <2>1, <2>2, <3>1
    <3>2. CASE v # u
      BY <2>1, <3>2 DEF Shown
    <3> QED
      BY <3>1, <3>2
  <2> QED
    BY <2>2, <2>3
<1>9. LatestAreTrue'
  <2> SUFFICES ASSUME NEW f \in queued'
               PROVE  /\ me'[f.to] # None
                      /\ f.latest /\ uid'[f.to] # None =>
                            Cares(f.to, f.about)' /\ f.shows = Shown(f.to, f.about)'
    BY DEF LatestAreTrue
  <2>1. CASE f \in new
    <3>1. f.to \in Sessions /\ uid'[f.to] # None
      BY <1>2, <2>1
    <3>2. me'[f.to] # None
      BY <3>1 DEF Directory, SignedIn
    <3> QED
      BY <1>2, <2>1, <3>2
  <2>2. ASSUME NEW g \in queued, Addressed(new, g.to, g.about), f = [g EXCEPT !.latest = FALSE]
        PROVE  me'[f.to] # None /\ ~f.latest
    <3>1. g \in Frames /\ f.to = g.to /\ ~f.latest
      BY <1>7, <2>2 DEF Frames
    <3>2. g.to \in Sessions /\ me[g.to] # None
      BY <3>1 DEF Frames, Told, LatestAreTrue
    <3> QED
      BY <3>1, <3>2
  <2>3. ASSUME f \in queued, ~Addressed(new, f.to, f.about)
        PROVE  /\ me'[f.to] # None
               /\ f.latest /\ uid'[f.to] # None =>
                     Cares(f.to, f.about)' /\ f.shows = Shown(f.to, f.about)'
    <3>1. f.to \in Sessions /\ f.about \in Users /\ me[f.to] # None
      BY <1>7, <2>3 DEF Frames, Told, LatestAreTrue
    <3>2. me'[f.to] # None /\ f.to \notin bound
      BY <3>1
    <3>3. ASSUME f.latest, uid'[f.to] # None
          PROVE  Cares(f.to, f.about)' /\ f.shows = Shown(f.to, f.about)'
      <4>1. uid[f.to] # None
        BY <3>1, <3>2, <3>3
      <4>2. Cares(f.to, f.about) /\ f.shows = Shown(f.to, f.about)
        BY <2>3, <3>3, <4>1 DEF Told, LatestAreTrue
      <4>3. Cares(f.to, f.about)' /\ Shown(f.to, f.about)' = Shown(f.to, f.about)
        BY <1>8, <2>3, <3>1, <3>2, <3>3, <4>2
      <4> QED
        BY <4>2, <4>3
    <3> QED
      BY <3>2, <3>3
  <2>4. \/ f \in new
        \/ \E g \in queued : Addressed(new, g.to, g.about) /\ f = [g EXCEPT !.latest = FALSE]
        \/ f \in queued /\ ~Addressed(new, f.to, f.about)
    BY <1>4
  <2> QED
    BY <2>1, <2>2, <2>3, <2>4
<1>10. NothingIsLost'
  <2> SUFFICES ASSUME NEW t \in Sessions, NEW v \in Users, Cares(t, v)'
               PROVE  Hears(t, v)'
    BY DEF NothingIsLost, Cares, Hears
  <2>1. uid'[t] # None
    BY DEF Cares, Directory, WatchIndexMatches
  <2>2. CASE t \in bound
    <3>1. uid'[t] = u /\ v = u
      BY <2>2 DEF Cares
    <3> QED
      BY <2>2, <3>1 DEF Hears, Shown
  <2>3. CASE t \notin bound /\ Addressed(new, t, v)
    <3>1. PICK g \in new : g.to = t /\ g.about = v
      BY <2>3 DEF Addressed
    <3>2. g \in queued' /\ g.latest
      BY <1>2, <1>4
    <3> QED
      BY <3>1, <3>2 DEF Hears
  <2>4. CASE t \notin bound /\ ~Addressed(new, t, v)
    <3>1. /\ uid'[t] = uid[t] /\ watching'[t] = watching[t] /\ told'[t] = told[t]
          /\ heard'[t][v] = heard[t][v]
          /\ job'[t] = job[t] \/ job[t].step # "answer"
      BY <1>5, <2>1, <2>4 DEF new
    <3>2. Cares(t, v)
      BY <3>1 DEF Cares
    <3>3. Hears(t, v) /\ Shown(t, v)' = Shown(t, v)
      BY <1>8, <2>1, <2>4, <3>2, LostHears DEF Told
    <3>4. ASSUME NEW f \in queued, f.to = t, f.about = v, f.latest
          PROVE  f \in queued'
      BY <1>4, <2>4, <3>4
    <3> QED
      BY <3>1, <3>3, <3>4 DEF Hears
  <2> QED
    BY <2>2, <2>3, <2>4
<1> QED
  BY <1>1, <1>9, <1>10 DEF Told

LEMMA ForgetTold ==
    ASSUME Told, Directory', NEW s \in Sessions, NEW by \in Sessions, NEW ends \in BOOLEAN,
           Forget(s, by, ends), UNCHANGED <<me, db>>,
           \A t \in Sessions : job'[t] = job[t] \/ job[t].step # "answer",
           \A t \in Sessions : job'[t].step = "answer" => job'[t] = job[t]
    PROVE  Told'
<1>1. Directory
  BY DEF Told
<1>2. /\ uid' = [uid EXCEPT ![s] = None] /\ watching' = [watching EXCEPT ![s] = {}]
      /\ watchers' = Unwatched(s) /\ told' = [told EXCEPT ![s] = [v \in Users |-> None]]
  BY ForgetSession
<1>3. \A t \in Sessions : uid'[t] # None =>
         t # s /\ uid'[t] = uid[t] /\ watching'[t] = watching[t] /\ told'[t] = told[t]
  BY <1>1, <1>2 DEF Directory, TypeOK
<1>4. CASE uid[s] = None
  <2>1. /\ UNCHANGED <<members, presence, saving, queued>>
        /\ heard' = [heard EXCEPT ![s] = [v \in Users |-> "none"]]
    BY <1>1, <1>4, ForgetSignedOut
  <2>2. \A t \in Sessions : t # s => heard'[t] = heard[t]
    BY <1>1, <2>1 DEF Directory, TypeOK
  <2> QED
    BY <1>3, <2>1, <2>2, QuietTold
<1>5. CASE uid[s] # None
  <2> DEFINE u == uid[s]
  <2>1. /\ u \in Users /\ members' = [members EXCEPT ![u] = RestOf(s)]
        /\ presence' = [presence EXCEPT ![u] = PresenceWithout(s)]
        /\ Queue(Goodbyes(s, by, ends))
        /\ heard' = [Awaited(Goodbyes(s, by, ends), heard) EXCEPT ![s] = [v \in Users |-> "none"]]
    BY <1>1, <1>5, ForgetSignedIn
  <2>2. /\ presence'[u] = PresenceWithout(s) /\ members'[u] = RestOf(s)
        /\ watchers'[u] = watchers[u] \ {s}
        /\ \A v \in Users \ {u} : presence'[v] = presence[v]
    BY <1>1, <1>2, <2>1 DEF Unwatched, Directory, TypeOK
  <2>3. RestOf(s) \ {} = RestOf(s)
    OBVIOUS
  <2>4. News(u, {}, by, ends) = Goodbyes(s, by, ends)
    BY <2>2, <2>3 DEF News, Goodbyes
  <2>5. \A t \in Sessions : t # s => heard'[t] = Awaited(News(u, {}, by, ends), heard)[t]
    BY <2>1, <2>4 DEF Awaited
  <2>6. Queue(News(u, {}, by, ends))
    BY <2>1, <2>4
  <2> HIDE DEF u
  <2>7. \A t \in Sessions \ {} : uid'[t] # None =>
              /\ uid'[t] = uid[t] /\ watching'[t] = watching[t] /\ told'[t] = told[t]
              /\ heard'[t] = Awaited(News(u, {}, by, ends), heard)[t]
              /\ job'[t] = job[t] \/ job[t].step # "answer"
    BY <1>3, <2>5
  <2>8. Announced(u, {}, by, ends)
    BY <2>2, <2>6, <2>7 DEF Announced
  <2> QED
    BY <2>1, <2>8, AnnouncedTold
<1> QED
  BY <1>4, <1>5

LEMMA BindTold ==
    ASSUME Told, Directory', NEW s \in Sessions, NEW old \in Sessions \cup {None},
           old # None => old \in members[job[s].user],
           stage[s] = "open", job[s].step = "login", BindReplacing(s, old)
    PROVE  Told'
<1> DEFINE u == job[s].user
<1>1. Directory
  BY DEF Told
<1>2. /\ u \in Users /\ uid[s] = None /\ me[s] = None /\ s # old
      /\ BoundMembers(s, old) \in SUBSET Sessions
      /\ uid' = [t \in Sessions |-> IF t = s THEN u ELSE IF t = old THEN None ELSE uid[t]]
      /\ me' = [me EXCEPT ![s] = u]
      /\ watching' = [t \in Sessions |-> IF t = old THEN {} ELSE watching[t]]
      /\ watchers' = Unwatched(old)
      /\ members' = [members EXCEPT ![u] = BoundMembers(s, old)]
      /\ presence' = [presence EXCEPT ![u] = BoundPresence(s, old)]
  BY <1>1, BindingFact
<1>3. /\ Queue(Greetings(s, old))
      /\ told' = [told EXCEPT ![s][u] = BoundPresence(s, old)]
      /\ heard' = [Awaited(Greetings(s, old), heard) EXCEPT ![s][u] = "latest"]
      /\ job' = [job EXCEPT ![s] = AfterBind(old)]
  BY <1>1, BindingFact
<1>4. /\ presence'[u] = BoundPresence(s, old) /\ members'[u] = BoundMembers(s, old)
      /\ watchers'[u] = watchers[u] \ {old}
      /\ \A v \in Users \ {u} : presence'[v] = presence[v]
  BY <1>1, <1>2 DEF Unwatched, Directory, TypeOK
<1>5. News(u, {s}, s, FALSE) = Greetings(s, old)
  BY <1>4 DEF News, Greetings
<1> DEFINE no == FALSE
<1>6. no \in BOOLEAN /\ Queue(News(u, {s}, s, no)) /\ {s} \in SUBSET Sessions
  BY <1>3, <1>5
<1>7. ASSUME NEW t \in Sessions \ {s}, uid'[t] # None
      PROVE  /\ uid'[t] = uid[t] /\ watching'[t] = watching[t] /\ told'[t] = told[t]
             /\ heard'[t] = Awaited(News(u, {s}, s, no), heard)[t]
             /\ job'[t] = job[t] \/ job[t].step # "answer"
  <2>1. uid'[t] = uid[t] /\ watching'[t] = watching[t]
    BY <1>2, <1>7
  <2>2. told'[t] = told[t] /\ job'[t] = job[t]
    BY <1>1, <1>3, <1>7 DEF Directory, TypeOK
  <2>3. heard'[t] = Awaited(Greetings(s, old), heard)[t]
    BY <1>3, <1>7 DEF Awaited
  <2> QED
    BY <1>5, <2>1, <2>2, <2>3
<1>8. /\ me[s] = None /\ uid'[s] = u /\ watching'[s] = {}
      /\ told'[s][u] = presence'[u] /\ heard'[s][u] = "latest"
  <2>1. watching[s] = {}
    BY <1>1, <1>2 DEF Directory, WatchIndexMatches
  <2>2. told'[s][u] = presence'[u]
    BY <1>1, <1>2, <1>3, <1>4 DEF Directory, TypeOK
  <2>3. heard'[s][u] = "latest"
    BY <1>2, <1>3 DEF Awaited
  <2> QED
    BY <1>2, <2>1, <2>2, <2>3
<1>9. \A t \in Sessions : me[t] # None => me'[t] = me[t]
  BY <1>1, <1>2 DEF Directory, TypeOK
<1>10. \A t \in Sessions : job'[t].step = "answer" => job'[t] = job[t] /\ me'[t] = me[t]
  <2>1. AfterBind(old).step # "answer"
    BY DEF AfterBind, Rest
  <2> QED
    BY <1>1, <1>2, <1>3, <2>1 DEF Directory, TypeOK
<1> DEFINE bound == {s}
<1>11. /\ bound \in SUBSET Sessions /\ Queue(News(u, bound, s, no))
       /\ \A t \in Sessions \ bound : uid'[t] # None =>
             /\ uid'[t] = uid[t] /\ watching'[t] = watching[t] /\ told'[t] = told[t]
             /\ heard'[t] = Awaited(News(u, bound, s, no), heard)[t]
             /\ job'[t] = job[t] \/ job[t].step # "answer"
  BY <1>6, <1>7
<1>12. \A t \in bound :
          /\ me[t] = None /\ uid'[t] = u /\ watching'[t] = {}
          /\ told'[t][u] = presence'[u] /\ heard'[t][u] = "latest"
  BY <1>8
<1> HIDE DEF u, no, bound
<1>13. Announced(u, bound, s, no)
  BY <1>4, <1>9, <1>10, <1>11, <1>12 DEF Announced
<1> QED
  BY <1>2, <1>6, <1>11, <1>13, AnnouncedTold

\* A change of an account by one of its devices: UpdateChange and SetIdle.
LEMMA ChangeTold ==
    ASSUME Told, Directory', NEW s \in Sessions, NEW u \in Users, NEW is,
           presence' = [presence EXCEPT ![u] = is],
           Queue(Changes(u, presence[u], is, watchers[u], members[u], s, FALSE)),
           heard' = Awaited(Changes(u, presence[u], is, watchers[u], members[u], s, FALSE), heard),
           UNCHANGED <<uid, me, watching, watchers, members, told>>,
           \A t \in Sessions : job'[t] = job[t] \/ job[t].step # "answer",
           \A t \in Sessions : job'[t].step = "answer" => job'[t] = job[t]
    PROVE  Told'
<1>1. presence'[u] = is /\ \A v \in Users \ {u} : presence'[v] = presence[v]
  BY DEF Told, Directory, TypeOK
<1> DEFINE no == FALSE
<1> DEFINE nobody == {}
<1>2. members[u] \ {} = members[u]
  OBVIOUS
<1>3. Changes(u, presence[u], is, watchers[u], members[u], s, FALSE) = News(u, nobody, s, no)
  BY <1>1, <1>2 DEF News
<1>4. no \in BOOLEAN /\ nobody \in SUBSET Sessions /\ \A t \in nobody : FALSE
  OBVIOUS
<1>5. Queue(News(u, nobody, s, no)) /\ heard' = Awaited(News(u, nobody, s, no), heard)
  BY <1>3
<1>6. \A t \in Sessions \ nobody : uid'[t] # None =>
             /\ uid'[t] = uid[t] /\ watching'[t] = watching[t] /\ told'[t] = told[t]
             /\ heard'[t] = Awaited(News(u, nobody, s, no), heard)[t]
             /\ job'[t] = job[t] \/ job[t].step # "answer"
  BY <1>5
<1>7. \A t \in nobody :
          /\ me[t] = None /\ uid'[t] = u /\ watching'[t] = {}
          /\ told'[t][u] = presence'[u] /\ heard'[t][u] = "latest"
  BY <1>4
<1>8. /\ \A t \in Sessions : me[t] # None => me'[t] = me[t]
      /\ \A t \in Sessions : job'[t].step = "answer" => job'[t] = job[t] /\ me'[t] = me[t]
  OBVIOUS
<1> HIDE DEF no, nobody
<1>9. Announced(u, nobody, s, no)
  BY <1>1, <1>5, <1>6, <1>7, <1>8 DEF Announced
<1> QED
  BY <1>4, <1>9, AnnouncedTold

LEMMA UpdateChangeTold ==
    ASSUME Told, Directory', NEW s \in Sessions, UpdateChange(s)
    PROVE  Told'
<1> DEFINE u == me[s]
<1> DEFINE is == [presence[u] EXCEPT !.status = job[s].status]
<1> DEFINE what == [step |-> "save", mutex |-> job[s].mutex,
                    status |-> is.status, changed |-> presence[u] # is]
<1>1. job[s].step = "wait" /\ u \in Users
  BY DEF UpdateChange, GoesOn, Told, Directory, TypeOK, SignedIn
<1>2. CASE presence[u] = None
  <2>1. Does(s, Rest) /\ UNCHANGED <<conns, watching, watchers, members, presence, saving, db, queued, told, heard>>
    BY <1>2 DEF UpdateChange
  <2>2. job' = [job EXCEPT ![s] = Rest] /\ Rest.step = "none"
    BY <2>1 DEF Does, Rest
  <2>3. \A t \in Sessions : job'[t] = job[t] \/ (job[t].step # "answer" /\ job'[t].step # "answer")
    BY <1>1, <2>2 DEF Told, Directory, TypeOK
  <2> QED
    BY <2>1, <2>3, QuietTold DEF conns
<1>3. CASE presence[u] # None
  <2>1. /\ presence' = [presence EXCEPT ![u] = is]
        /\ Queue(Changes(u, presence[u], is, watchers[u], members[u], s, FALSE))
        /\ heard' = Awaited(Changes(u, presence[u], is, watchers[u], members[u], s, FALSE), heard)
        /\ job' = [job EXCEPT ![s] = what]
        /\ UNCHANGED <<uid, me, watching, watchers, members, told>>
    BY <1>3 DEF UpdateChange, Does, conns
  <2>2. what.step = "save"
    OBVIOUS
  <2> HIDE DEF what, is, u
  <2>3. \A t \in Sessions : job'[t] = job[t] \/ (job[t].step # "answer" /\ job'[t].step # "answer")
    BY <1>1, <2>1, <2>2 DEF Told, Directory, TypeOK
  <2> QED
    BY <1>1, <2>1, <2>3, ChangeTold
<1> QED
  BY <1>2, <1>3

LEMMA SetIdleTold ==
    ASSUME Told, Directory', NEW s \in Sessions, SetIdle(s)
    PROVE  Told'
<1> DEFINE u == uid[s]
<1> DEFINE is == [presence[u] EXCEPT !.idle = AllIdle(members[u], [idle EXCEPT ![s] = ~@])]
<1>1. /\ presence' = [presence EXCEPT ![u] = is]
      /\ Queue(Changes(u, presence[u], is, watchers[u], members[u], s, FALSE))
      /\ heard' = Awaited(Changes(u, presence[u], is, watchers[u], members[u], s, FALSE), heard)
      /\ UNCHANGED <<uid, me, watching, watchers, members, told, job>>
  BY DEF SetIdle
<1>2. u \in Users
  BY DEF SetIdle, Told, Directory, TypeOK
<1> HIDE DEF is, u
<1> QED
  BY <1>1, <1>2, ChangeTold

LEMMA WatchTold ==
    ASSUME Told, Directory', NEW s \in Sessions, NEW set \in SUBSET Users, Watch(s, set)
    PROVE  Told'
<1> DEFINE added == set \ watching[s]
<1> DEFINE removed == watching[s] \ set
<1> DEFINE what == IF added = {} THEN Rest ELSE [step |-> "answer", added |-> added]
<1>1. /\ uid[s] # None /\ uid[s] = me[s] /\ uid[s] \notin set /\ job[s] = Rest
      /\ watching' = [watching EXCEPT ![s] = set]
      /\ job' = [job EXCEPT ![s] = what]
      /\ UNCHANGED <<uid, me, presence>>
  BY DEF Watch, Handles, Does, conns
<1>2. /\ queued' = {IF f.to = s /\ f.about \in removed THEN [f EXCEPT !.latest = FALSE] ELSE f : f \in queued}
      /\ told'  = [told EXCEPT ![s] = [u \in Users |-> IF u \in removed THEN None ELSE @[u]]]
      /\ heard' = [heard EXCEPT ![s] = [u \in Users |-> IF u \in removed THEN "none" ELSE @[u]]]
  BY DEF Watch
<1>3. /\ what.step = "answer" => what.added = added
      /\ added # {} => what.step = "answer"
      /\ Rest.step = "none"
  BY DEF Rest
<1>4. \A u \in Users : /\ u \in removed <=> u \in watching[s] /\ u \notin set
                       /\ u \in added <=> u \in set /\ u \notin watching[s]
  OBVIOUS
<1>5. uid[s] \notin watching[s] /\ uid[s] \notin removed /\ uid[s] \notin added
  BY <1>1 DEF Told, OthersOnly
<1> HIDE DEF what, removed, added
<1>6. \A t \in Sessions : /\ watching'[t] = IF t = s THEN set ELSE watching[t]
                          /\ job'[t] = IF t = s THEN what ELSE job[t]
  BY <1>1 DEF Told, Directory, TypeOK
<1>7. \A t \in Sessions, u \in Users :
         ~(t = s /\ u \in removed) => told'[t][u] = told[t][u] /\ heard'[t][u] = heard[t][u]
  BY <1>2 DEF Told, Directory, TypeOK
<1>8. queued \subseteq Frames
  BY DEF Told, Directory, TypeOK
<1>9. OthersOnly'
  <2>1. \A t \in Sessions : uid'[t] \notin watching'[t]
    BY <1>1, <1>6 DEF Told, OthersOnly
  <2>2. \A t \in Sessions : job'[t].step = "answer" => me'[t] \notin job'[t].added
    BY <1>1, <1>3, <1>5, <1>6 DEF Told, OthersOnly
  <2> QED
    BY <2>1, <2>2 DEF OthersOnly
<1>10. LatestAreTrue'
  <2> SUFFICES ASSUME NEW f \in queued'
               PROVE  /\ me'[f.to] # None
                      /\ f.latest /\ uid'[f.to] # None =>
                            Cares(f.to, f.about)' /\ f.shows = Shown(f.to, f.about)'
    BY DEF LatestAreTrue
  <2>1. ASSUME NEW g \in queued, f = [g EXCEPT !.latest = FALSE]
        PROVE  me'[f.to] # None /\ ~f.latest
    <3>1. g \in Frames /\ f.to = g.to /\ ~f.latest
      BY <1>8, <2>1 DEF Frames
    <3> QED
      BY <1>1, <3>1 DEF Told, LatestAreTrue
  <2>2. ASSUME f \in queued, ~(f.to = s /\ f.about \in removed)
        PROVE  /\ me'[f.to] # None
               /\ f.latest /\ uid'[f.to] # None =>
                     Cares(f.to, f.about)' /\ f.shows = Shown(f.to, f.about)'
    <3>1. f.to \in Sessions /\ f.about \in Users
      BY <1>8, <2>2 DEF Frames
    <3>2. me'[f.to] # None
      BY <1>1, <2>2 DEF Told, LatestAreTrue
    <3>3. ASSUME f.latest, uid'[f.to] # None
          PROVE  Cares(f.to, f.about)' /\ f.shows = Shown(f.to, f.about)'
      <4>1. Cares(f.to, f.about) /\ f.shows = Shown(f.to, f.about)
        BY <1>1, <2>2, <3>3 DEF Told, LatestAreTrue
      <4>2. Cares(f.to, f.about)'
        BY <1>1, <1>4, <1>6, <2>2, <3>1, <4>1 DEF Cares
      <4> QED
        BY <1>1, <4>1, <4>2 DEF Shown
    <3> QED
      BY <3>2, <3>3
  <2>3. \/ \E g \in queued : f = [g EXCEPT !.latest = FALSE]
        \/ f \in queued /\ ~(f.to = s /\ f.about \in removed)
    BY <1>2
  <2> QED
    BY <2>1, <2>2, <2>3
<1>11. NothingIsLost'
  <2> SUFFICES ASSUME NEW t \in Sessions, NEW v \in Users, Cares(t, v)'
               PROVE  Hears(t, v)'
    BY DEF NothingIsLost, Cares, Hears
  <2>1. CASE t = s /\ v \in added
    <3>1. added # {}
      BY <2>1
    <3> QED
      BY <1>3, <1>6, <2>1, <3>1 DEF Hears
  <2>2. CASE ~(t = s /\ v \in added)
    <3>1. Cares(t, v) /\ ~(t = s /\ v \in removed)
      BY <1>1, <1>4, <1>5, <1>6, <2>2 DEF Cares
    <3>2. Hears(t, v) /\ Shown(t, v)' = Shown(t, v)
      BY <1>1, <3>1, LostHears DEF Told, Shown
    <3>3. told'[t][v] = told[t][v] /\ heard'[t][v] = heard[t][v]
      BY <1>7, <3>1
    <3>4. job'[t] = job[t] \/ job[t].step # "answer"
      BY <1>1, <1>3, <1>6
    <3>5. ASSUME NEW f \in queued, f.to = t, f.about = v
          PROVE  f \in queued'
      BY <1>2, <3>1, <3>5
    <3> QED
      BY <3>2, <3>3, <3>4, <3>5 DEF Hears
  <2> QED
    BY <2>1, <2>2
<1> QED
  BY <1>9, <1>10, <1>11 DEF Told

LEMMA AnswerTold ==
    ASSUME Told, Directory', NEW s \in Sessions, WatchAnswer(s)
    PROVE  Told'
<1>1. /\ job[s].step = "answer" /\ job' = [job EXCEPT ![s] = Rest]
      /\ UNCHANGED <<uid, me, watching, presence, queued>>
  BY DEF WatchAnswer, GoesOn, Does, conns
<1>2. \A t \in Sessions : /\ job'[t] = IF t = s THEN Rest ELSE job[t]
                          /\ Rest.step = "none"
  BY <1>1 DEF Rest, Told, Directory, TypeOK
<1>3. CASE uid[s] = None
  <2>1. ~(stage[s] = "open" /\ uid[s] = me[s])
    BY <1>1, <1>3 DEF Told, Directory, SignedIn
  <2>2. UNCHANGED <<told, heard>>
    BY <2>1 DEF WatchAnswer
  <2>3. \A t \in Sessions : uid'[t] # None =>
              /\ uid'[t] = uid[t] /\ watching'[t] = watching[t]
              /\ told'[t] = told[t] /\ heard'[t] = heard[t]
              /\ job'[t] = job[t] \/ job[t].step # "answer"
    BY <1>1, <1>2, <1>3, <2>2
  <2>4. \A t \in Sessions : job'[t].step = "answer" => job'[t] = job[t] /\ me'[t] = me[t]
    BY <1>1, <1>2
  <2> QED
    BY <1>1, <2>3, <2>4, QuietTold
<1>4. CASE uid[s] # None
  <2>1. stage[s] = "open" /\ uid[s] = me[s] /\ uid[s] \notin job[s].added
    BY <1>1, <1>4 DEF Told, Directory, SignedIn, OthersOnly
  <2>2. /\ told'  = [told EXCEPT ![s] = [u \in Users |->
                       IF u \in Answered(s) THEN View(presence[u]) ELSE @[u]]]
        /\ heard' = [heard EXCEPT ![s] = [u \in Users |->
                       IF u \in Answered(s) THEN "latest" ELSE @[u]]]
    BY <2>1 DEF WatchAnswer
  <2>3. \A t \in Sessions, u \in Users :
           IF t = s /\ u \in Answered(s)
             THEN told'[t][u] = View(presence[u]) /\ heard'[t][u] = "latest"
             ELSE told'[t][u] = told[t][u] /\ heard'[t][u] = heard[t][u]
    BY <2>2 DEF Told, Directory, TypeOK
  <2>4. OthersOnly'
    BY <1>1, <1>2 DEF Told, OthersOnly
  <2>5. LatestAreTrue'
    BY <1>1 DEF Told, LatestAreTrue, Cares, Shown
  <2>6. NothingIsLost'
    <3> SUFFICES ASSUME NEW t \in Sessions, NEW v \in Users, Cares(t, v)'
                 PROVE  Hears(t, v)'
      BY DEF NothingIsLost, Cares, Hears
    <3>1. Cares(t, v)
      BY <1>1 DEF Cares
    <3>2. CASE t = s /\ v \in Answered(s)
      <4>1. uid[s] # v
        BY <2>1, <3>2 DEF Answered
      <4> QED
        BY <1>1, <2>3, <3>2, <4>1 DEF Hears, Shown
    <3>3. CASE ~(t = s /\ v \in Answered(s))
      <4>1. ~(t = s /\ v \in job[s].added)
        BY <2>1, <3>1, <3>3 DEF Answered, Cares
      <4>2. told'[t][v] = told[t][v] /\ heard'[t][v] = heard[t][v]
        BY <2>3, <3>3
      <4>3. Hears(t, v)
        BY <3>1, LostHears DEF Told
      <4> QED
        BY <1>1, <1>2, <4>1, <4>2, <4>3 DEF Hears, Shown
    <3> QED
      BY <3>2, <3>3
  <2> QED
    BY <2>4, <2>5, <2>6 DEF Told
<1> QED
  BY <1>3, <1>4

LEMMA PostTold ==
    ASSUME Told, Directory', NEW f \in queued, Post(f)
    PROVE  Told'
<1>1. /\ queued' = queued \ {f}
      /\ UNCHANGED <<stage, uid, me, watching, presence, job>>
  BY DEF Post, conns
<1>2. f.to \in Sessions /\ f.about \in Users
  BY DEF Told, Directory, TypeOK, Frames
<1>3. \A t \in Sessions, v \in Users : ~(t = f.to /\ v = f.about) =>
         told'[t][v] = told[t][v] /\ heard'[t][v] = heard[t][v]
  BY <1>2 DEF Post, Told, Directory, TypeOK
<1>4. stage[f.to] = "open" =>
         /\ told'[f.to][f.about] = f.shows
         /\ heard'[f.to][f.about] = IF f.latest THEN "latest"
                                    ELSE IF heard[f.to][f.about] = "latest" THEN "overtaken"
                                    ELSE heard[f.to][f.about]
  BY <1>2 DEF Post, Told, Directory, TypeOK
<1>5. OthersOnly'
  BY <1>1 DEF Told, OthersOnly
<1>6. LatestAreTrue'
  BY <1>1 DEF Told, LatestAreTrue, Cares, Shown
<1>7. NothingIsLost'
  <2> SUFFICES ASSUME NEW t \in Sessions, NEW v \in Users, Cares(t, v)'
               PROVE  Hears(t, v)'
    BY DEF NothingIsLost, Cares, Hears
  <2>1. Cares(t, v)
    BY <1>1 DEF Cares
  <2>2. Hears(t, v)
    BY <2>1, LostHears DEF Told
  <2>3. CASE ~(t = f.to /\ v = f.about)
    <3>1. ASSUME NEW g \in queued, g.to = t, g.about = v
          PROVE  g \in queued'
      BY <1>1, <2>3, <3>1
    <3> QED
      BY <1>1, <1>3, <2>2, <2>3, <3>1 DEF Hears, Shown
  <2>4. CASE t = f.to /\ v = f.about
    <3>1. uid[t] # None /\ stage[t] = "open"
      BY <2>1 DEF Cares, Told, Directory, SignedIn, WatchIndexMatches
    <3>2. CASE f.latest
      <4>1. f.shows = Shown(t, v)
        BY <2>4, <3>1, <3>2 DEF Told, LatestAreTrue
      <4> QED
        BY <1>1, <1>4, <2>4, <3>1, <3>2, <4>1 DEF Hears, Shown
    <3>3. CASE ~f.latest
      <4>1. ASSUME NEW g \in queued, g.latest
            PROVE  g \in queued'
        BY <1>1, <3>3, <4>1
      <4> QED
        BY <1>1, <1>4, <2>2, <2>4, <3>1, <3>3, <4>1 DEF Hears, Shown
    <3> QED
      BY <3>2, <3>3
  <2> QED
    BY <2>3, <2>4
<1> QED
  BY <1>5, <1>6, <1>7 DEF Told

\* A handler takes a step that changes nothing others can see.
LEMMA DoesTold ==
    ASSUME Told, Directory', NEW s \in Sessions, NEW what \in Jobs, Does(s, what),
           job[s].step # "answer", what.step # "answer",
           \A t \in Sessions : me[t] # None => me'[t] = me[t],
           UNCHANGED <<uid, me, watching, presence, queued, told, heard>>
    PROVE  Told'
<1>1. \A t \in Sessions : job'[t] = IF t = s THEN what ELSE job[t]
  BY DEF Does, Told, Directory, TypeOK
<1>2. \A t \in Sessions : uid'[t] # None =>
              /\ uid'[t] = uid[t] /\ watching'[t] = watching[t]
              /\ told'[t] = told[t] /\ heard'[t] = heard[t]
              /\ job'[t] = job[t] \/ job[t].step # "answer"
  BY <1>1
<1>3. \A t \in Sessions : job'[t].step = "answer" => job'[t] = job[t] /\ me'[t] = me[t]
  BY <1>1
<1> QED
  BY <1>2, <1>3, QuietTold

LEMMA RetireTold ==
    ASSUME Told, Directory', NEW s \in Sessions, RetireReplaced(s)
    PROVE  Told'
<1>1. job[s].step = "retire" /\ job[s].old \in Sessions /\ Does(s, Rest)
  BY JobFacts DEF RetireReplaced, GoesOn, Told, Directory, TypeOK
<1>2. \A t \in Sessions : job'[t] = job[t] \/ (job[t].step # "answer" /\ job'[t].step # "answer")
  BY <1>1, JobMakers DEF Does, Told, Directory, TypeOK
<1>3. CASE stage[job[s].old] = "open"
  <2>1. Forget(job[s].old, s, FALSE) /\ UNCHANGED <<me, db>>
    BY <1>3 DEF RetireReplaced
  <2> QED
    BY <1>1, <1>2, <2>1, ForgetTold
<1>4. CASE stage[job[s].old] # "open"
  <2>1. UNCHANGED <<conns, watching, watchers, members, presence, saving, db, queued, told, heard>>
    BY <1>4 DEF RetireReplaced
  <2> QED
    BY <1>1, <2>1, JobMakers, DoesTold DEF conns
<1> QED
  BY <1>3, <1>4

LEMMA LeaveTold ==
    ASSUME Told, Directory', NEW s \in Sessions, Leave(s)
    PROVE  Told'
<1>1. /\ Forget(s, s, TRUE) /\ UNCHANGED <<me, db>>
      /\ job' = [job EXCEPT ![s] = IF @.step = "login" THEN Rest ELSE @]
  BY DEF Leave
<1>2. \A t \in Sessions : job'[t] = job[t] \/ (job[t].step # "answer" /\ job'[t].step # "answer")
  BY <1>1, JobMakers DEF Told, Directory, TypeOK
<1> QED
  BY <1>1, <1>2, ForgetTold

LEMMA StepTold == Told /\ [Next]_vars => Told'
<1> SUFFICES ASSUME Told, [Next]_vars PROVE Told'
  OBVIOUS
<1> USE StepDirectory
<1>0. Directory' /\ Rest \in Jobs /\ Rest.step = "none"
  BY JobMakers DEF Told
<1>1. ASSUME NEW s \in Sessions, Join(s) PROVE Told'
  <2>1. UNCHANGED <<uid, me, watching, presence, queued, told, heard, job>>
    BY <1>1 DEF Join
  <2> QED
    BY <1>0, <2>1, QuietTold
<1>2. ASSUME NEW s \in Sessions, Leave(s) PROVE Told'
  BY <1>0, <1>2, LeaveTold
<1>3. ASSUME NEW s \in Sessions, Bind(s) PROVE Told'
  <2>1. PICK old \in Sessions \cup {None} :
              /\ old # None => old \in members[job[s].user]
              /\ stage[s] = "open" /\ job[s].step = "login"
              /\ BindReplacing(s, old)
    BY <1>3, BindFact DEF Told
  <2> QED
    BY <1>0, <2>1, BindTold
<1>4. ASSUME NEW s \in Sessions, BindFull(s) PROVE Told'
  <2>1. /\ Does(s, Rest) /\ job[s].step # "answer"
        /\ UNCHANGED <<uid, me, watching, presence, queued, told, heard>>
    BY <1>4 DEF BindFull, GoesOn, conns
  <2> QED
    BY <1>0, <2>1, DoesTold
<1>5. ASSUME NEW s \in Sessions, RetireReplaced(s) PROVE Told'
  BY <1>0, <1>5, RetireTold
<1>6. ASSUME NEW s \in Sessions, NEW u \in Users, NEW d \in Devices, ReadAccount(s, u, d) PROVE Told'
  <2> DEFINE what == [step |-> "login", user |-> u, device |-> d, status |-> db[u]]
  <2>1. what \in Jobs /\ what.step # "answer"
    BY JobMakers DEF Told, Directory, TypeOK
  <2>2. /\ Does(s, what) /\ job[s].step # "answer"
        /\ UNCHANGED <<uid, me, watching, presence, queued, told, heard>>
    BY <1>0, <1>6 DEF ReadAccount, Handles, conns
  <2> HIDE DEF what
  <2> QED
    BY <1>0, <2>1, <2>2, DoesTold
<1>7. ASSUME NEW s \in Sessions, NEW v \in Statuses, UpdateStart(s, v) PROVE Told'
  <2> DEFINE what == [step |-> "wait", mutex |-> saving[me[s]], status |-> v]
  <2>1. /\ Does(s, what) /\ job[s].step # "answer" /\ me[s] # None /\ presence[me[s]] # None
        /\ UNCHANGED <<uid, me, watching, presence, queued, told, heard>>
    BY <1>0, <1>7 DEF UpdateStart, Handles, conns
  <2>2. saving[me[s]] \in Sessions
    BY <2>1 DEF Told, Directory, TypeOK, SignedIn
  <2>3. what \in Jobs /\ what.step # "answer"
    BY <2>2, JobMakers
  <2> HIDE DEF what
  <2> QED
    BY <1>0, <2>1, <2>3, DoesTold
<1>8. ASSUME NEW s \in Sessions, UpdateSave(s) PROVE Told'
  <2>1. /\ Does(s, Rest) /\ job[s].step # "answer"
        /\ UNCHANGED <<uid, me, watching, presence, queued, told, heard>>
    BY <1>8 DEF UpdateSave, GoesOn, conns
  <2> QED
    BY <1>0, <2>1, DoesTold
<1>9. CASE UNCHANGED vars
  <2>1. UNCHANGED <<uid, me, watching, presence, queued, told, heard, job>>
    BY <1>9 DEF vars
  <2> QED
    BY <1>0, <2>1, QuietTold
<1> QED
  BY <1>0, <1>1, <1>2, <1>3, <1>4, <1>5, <1>6, <1>7, <1>8, <1>9,
     UpdateChangeTold, SetIdleTold, WatchTold, AnswerTold, PostTold
  DEF Next

\* Whoever shows an account has heard the newest of it, or it is on the way,
\* or an older frame overtook it: the directory drops no announcement.
THEOREM NothingIsEverLost == Spec => []NothingIsLost
<1>1. Told => NothingIsLost
  BY DEF Told
<1> QED
  BY InitTold, StepTold, <1>1, PTL DEF Spec

-----------------------------------------------------------------------------
(* Saves in order.  While no connection of an account has gone, the        *)
(* account keeps the saving mutex its first login made; whoever changes it *)
(* holds that mutex until the change is saved, so at most one save is out, *)
(* and it is of the directory's status.                                    *)

Unmet(u) == \A s \in Sessions : me[s] # u

Ungone(u) == \A s \in Sessions : me[s] = u => stage[s] = "open"

Holders(u) == {s \in Sessions : me[s] = u /\ job[s].step = "save"}

OneSaver ==
    \A s, t \in Sessions :
        job[s].step = "save" /\ job[t].step = "save" /\ job[s].mutex = job[t].mutex => s = t

NewIsOnline(u) ==
    /\ db[u] = "online"
    /\ \A s \in Sessions : job[s].step = "login" /\ job[s].user = u => job[s].status = "online"

InStep(u) ==
    /\ presence[u] # None
    /\ \A s \in Sessions : me[s] = u /\ job[s].step \in {"wait", "save"} => job[s].mutex = saving[u]
    /\ \A s \in Holders(u) : job[s].status = presence[u].status
    /\ db[u] = presence[u].status \/ \E s \in Holders(u) : job[s].changed

Saved ==
    /\ Directory
    /\ OneSaver
    /\ \A s \in Sessions : me[s] # None => stage[s] # "made"
    /\ \A u \in Users : /\ Unmet(u) => NewIsOnline(u)
                        /\ Ungone(u) /\ ~Unmet(u) => InStep(u)

LEMMA InitSaved == Init => Saved
<1> SUFFICES ASSUME Init PROVE Saved
  OBVIOUS
<1>1. /\ OneSaver /\ \A s \in Sessions : me[s] # None => stage[s] # "made"
      /\ \A u \in Users : Unmet(u) /\ NewIsOnline(u)
  BY JobMakers DEF Init, OneSaver, Unmet, NewIsOnline
<1> QED
  BY <1>1, InitDirectory DEF Saved

LEMMA SavedIsInOrder == Saved => SavesInOrder
<1> SUFFICES ASSUME Saved, NEW u \in Users, AtRest(u), \A s \in Sessions : me[s] = u => stage[s] = "open"
             PROVE  db[u] = presence[u].status
  BY DEF SavesInOrder
<1>1. members[u] # {} /\ members[u] \subseteq Sessions
  BY DEF AtRest, Saved, Directory, TypeOK, IdleEverywhere
<1>2. ~Unmet(u)
  BY <1>1 DEF Unmet, Saved, Directory, SignedIn
<1>3. InStep(u)
  BY <1>2 DEF Saved, Ungone
<1>4. Holders(u) = {}
  BY JobMakers DEF AtRest, Holders
<1> QED
  BY <1>3, <1>4 DEF InStep

\* A step that changes no status and neither begins nor ends a save.
LEMMA KeepsSaved ==
    ASSUME Saved, Directory', UNCHANGED <<me, db>>,
           \A t \in Sessions : /\ stage'[t] = "open" /\ me[t] # None => stage[t] = "open"
                               /\ stage'[t] = "made" => stage[t] = "made",
           \A t \in Sessions : \/ job'[t] = job[t]
                               \/ job[t].step # "save" /\ job'[t].step \in {"none", "retire", "answer"},
           \A u \in Users :
              (\A t \in Sessions : me[t] = u => stage'[t] = "open") /\ presence[u] # None =>
                 /\ presence'[u] # None /\ presence'[u].status = presence[u].status
                 /\ saving'[u] = saving[u]
    PROVE  Saved'
<1>1. OneSaver'
  BY DEF Saved, OneSaver
<1>2. \A s \in Sessions : me'[s] # None => stage'[s] # "made"
  BY DEF Saved
<1>3. ASSUME NEW u \in Users, Unmet(u)'
      PROVE  NewIsOnline(u)'
  <2>1. Unmet(u)
    BY <1>3 DEF Unmet
  <2> QED
    BY <2>1 DEF Saved, NewIsOnline
<1>4. ASSUME NEW u \in Users, Ungone(u)', ~Unmet(u)'
      PROVE  InStep(u)'
  <2>1. Ungone(u) /\ ~Unmet(u) /\ \A t \in Sessions : me[t] = u => stage'[t] = "open"
    BY <1>4 DEF Unmet, Ungone
  <2>2. InStep(u)
    BY <2>1 DEF Saved
  <2>3. presence'[u] # None /\ presence'[u].status = presence[u].status /\ saving'[u] = saving[u]
    BY <2>1, <2>2 DEF InStep
  <2>4. \A t \in Sessions : t \in Holders(u)' <=> t \in Holders(u)
    BY DEF Holders
  <2>5. \A t \in Holders(u) : t \in Sessions /\ job'[t] = job[t] /\ t \in Holders(u)'
    BY <2>4 DEF Holders
  <2>6. \A t \in Sessions : me'[t] = u /\ job'[t].step \in {"wait", "save"} => job'[t].mutex = saving'[u]
    BY <2>2, <2>3 DEF InStep
  <2>7. \A t \in Holders(u)' : job'[t].status = presence'[u].status
    BY <2>2, <2>3, <2>4, <2>5 DEF InStep, Holders
  <2>8. db'[u] = presence'[u].status \/ \E t \in Holders(u)' : job'[t].changed
    BY <2>2, <2>3, <2>5 DEF InStep
  <2> QED
    BY <2>3, <2>6, <2>7, <2>8 DEF InStep
<1> QED
  BY <1>1, <1>2, <1>3, <1>4 DEF Saved

LEMMA ForgetSaved ==
    ASSUME Saved, Directory', NEW s \in Sessions, NEW by \in Sessions, NEW ends \in BOOLEAN,
           Forget(s, by, ends), UNCHANGED <<me, db>>,
           \A t \in Sessions : \/ job'[t] = job[t]
                               \/ job[t].step # "save" /\ job'[t].step \in {"none", "retire", "answer"}
    PROVE  Saved'
<1>1. Directory
  BY DEF Saved
<1>2. \A t \in Sessions : stage'[t] = IF t = s THEN "gone" ELSE stage[t]
  BY <1>1, ForgetSession DEF Directory, TypeOK
<1>3. ASSUME NEW u \in Users, \A t \in Sessions : me[t] = u => stage'[t] = "open"
      PROVE  presence'[u] = presence[u] /\ saving'[u] = saving[u]
  <2>1. me[s] # u
    BY <1>2, <1>3
  <2>2. CASE uid[s] = None
    BY <1>1, <2>2, ForgetSignedOut
  <2>3. CASE uid[s] # None
    <3>1. /\ presence' = [presence EXCEPT ![uid[s]] = PresenceWithout(s)]
          /\ saving' = [saving EXCEPT ![uid[s]] = IF RestOf(s) = {} THEN None ELSE @]
      BY <1>1, <2>3, ForgetSignedIn
    <3>2. uid[s] # u
      BY <1>1, <2>1, <2>3 DEF Directory, SignedIn
    <3> QED
      BY <1>1, <3>1, <3>2 DEF Directory, TypeOK
  <2> QED
    BY <2>2, <2>3
<1> QED
  BY <1>2, <1>3, KeepsSaved

LEMMA ReadSaved ==
    ASSUME Saved, Directory', NEW s \in Sessions, NEW u \in Users, NEW d \in Devices, ReadAccount(s, u, d)
    PROVE  Saved'
<1> DEFINE what == [step |-> "login", user |-> u, device |-> d, status |-> db[u]]
<1>1. /\ me[s] = None /\ job[s] = Rest /\ UNCHANGED <<stage, me, db, presence, saving>>
      /\ job' = [job EXCEPT ![s] = what]
  BY DEF ReadAccount, Handles, Does, conns
<1>2. what.step = "login" /\ what.user = u /\ what.status = db[u]
  OBVIOUS
<1> HIDE DEF what
<1>3. \A t \in Sessions : job'[t] = IF t = s THEN what ELSE job[t]
  BY <1>1 DEF Saved, Directory, TypeOK
<1>4. OneSaver'
  BY <1>2, <1>3 DEF Saved, OneSaver
<1>5. ASSUME NEW v \in Users, Unmet(v)'
      PROVE  NewIsOnline(v)'
  <2>1. NewIsOnline(v)
    BY <1>1, <1>5 DEF Unmet, Saved
  <2> QED
    BY <1>1, <1>2, <1>3, <2>1 DEF NewIsOnline
<1>6. ASSUME NEW v \in Users, Ungone(v)', ~Unmet(v)'
      PROVE  InStep(v)'
  <2>1. InStep(v)
    BY <1>1, <1>6 DEF Unmet, Ungone, Saved
  <2>2. Holders(v)' = Holders(v) /\ s \notin Holders(v)
    BY <1>1, <1>3 DEF Holders
  <2>3. \A t \in Holders(v) : job'[t] = job[t]
    BY <1>3, <2>2 DEF Holders
  <2> QED
    BY <1>1, <1>2, <1>3, <2>1, <2>2, <2>3 DEF InStep
<1> QED
  BY <1>1, <1>4, <1>5, <1>6 DEF Saved

LEMMA UpdateStartSaved ==
    ASSUME Saved, Directory', NEW s \in Sessions, NEW x \in Statuses, UpdateStart(s, x)
    PROVE  Saved'
<1> DEFINE what == [step |-> "wait", mutex |-> saving[me[s]], status |-> x]
<1>1. /\ job[s] = Rest /\ UNCHANGED <<stage, me, db, presence, saving>>
      /\ job' = [job EXCEPT ![s] = what]
  BY DEF UpdateStart, Handles, Does, conns
<1>2. what.step = "wait" /\ what.mutex = saving[me[s]]
  OBVIOUS
<1> HIDE DEF what
<1>3. \A t \in Sessions : job'[t] = IF t = s THEN what ELSE job[t]
  BY <1>1 DEF Saved, Directory, TypeOK
<1>4. OneSaver'
  BY <1>2, <1>3 DEF Saved, OneSaver
<1>5. ASSUME NEW v \in Users, Unmet(v)'
      PROVE  NewIsOnline(v)'
  <2>1. NewIsOnline(v)
    BY <1>1, <1>5 DEF Unmet, Saved
  <2> QED
    BY <1>1, <1>2, <1>3, <2>1 DEF NewIsOnline
<1>6. ASSUME NEW v \in Users, Ungone(v)', ~Unmet(v)'
      PROVE  InStep(v)'
  <2>1. InStep(v)
    BY <1>1, <1>6 DEF Unmet, Ungone, Saved
  <2>2. Holders(v)' = Holders(v) /\ s \notin Holders(v)
    BY <1>1, <1>2, <1>3, JobMakers DEF Holders
  <2>3. \A t \in Holders(v) : job'[t] = job[t]
    BY <1>3, <2>2 DEF Holders
  <2> QED
    BY <1>1, <1>2, <1>3, <2>1, <2>2, <2>3 DEF InStep
<1> QED
  BY <1>1, <1>4, <1>5, <1>6 DEF Saved

LEMMA UpdateChangeSaved ==
    ASSUME Saved, Directory', NEW s \in Sessions, UpdateChange(s)
    PROVE  Saved'
<1> DEFINE u == me[s]
<1> DEFINE is == [presence[u] EXCEPT !.status = job[s].status]
<1> DEFINE what == [step |-> "save", mutex |-> job[s].mutex,
                    status |-> is.status, changed |-> presence[u] # is]
<1>1. /\ job[s].step = "wait" /\ FreeMutex(job[s].mutex) /\ u \in Users
      /\ UNCHANGED <<stage, me, db, saving>>
  BY DEF UpdateChange, GoesOn, Saved, Directory, TypeOK, SignedIn, conns
<1>2. CASE presence[u] = None
  <2>1. job' = [job EXCEPT ![s] = Rest] /\ presence' = presence /\ Rest.step = "none"
    BY <1>2 DEF UpdateChange, Does, Rest
  <2>2. \A t \in Sessions : \/ job'[t] = job[t]
                            \/ job[t].step # "save" /\ job'[t].step \in {"none", "retire", "answer"}
    BY <1>1, <2>1 DEF Saved, Directory, TypeOK
  <2> QED
    BY <1>1, <2>1, <2>2, KeepsSaved
<1>3. CASE presence[u] # None
  <2>1. presence' = [presence EXCEPT ![u] = is] /\ job' = [job EXCEPT ![s] = what]
    BY <1>3 DEF UpdateChange, Does
  <2>2. presence[u] \in Presence /\ is # None /\ job[s].status \in Statuses
    <3>1. presence[u] \in Presence /\ job[s].status \in Statuses
      BY <1>1, <1>3, JobFacts DEF Saved, Directory, TypeOK
    <3>2. is \in Presence
      BY <3>1 DEF Presence
    <3> QED
      BY <3>1, <3>2
  <2>3. /\ what.step = "save" /\ what.mutex = job[s].mutex /\ what.status = is.status
        /\ (what.changed <=> presence[u] # is)
    OBVIOUS
  <2> HIDE DEF what, is, u
  <2>4. \A t \in Sessions : job'[t] = IF t = s THEN what ELSE job[t]
    BY <2>1 DEF Saved, Directory, TypeOK
  <2>5. \A v \in Users : presence'[v] = IF v = u THEN is ELSE presence[v]
    BY <2>1 DEF Saved, Directory, TypeOK
  <2>6. OneSaver'
    BY <1>1, <2>3, <2>4 DEF Saved, OneSaver, FreeMutex
  <2>7. ASSUME NEW v \in Users, Unmet(v)'
        PROVE  NewIsOnline(v)'
    <3>1. NewIsOnline(v)
      BY <1>1, <2>7 DEF Unmet, Saved
    <3> QED
      BY <1>1, <2>3, <2>4, <3>1 DEF NewIsOnline
  <2>8. ASSUME NEW v \in Users, Ungone(v)', ~Unmet(v)'
        PROVE  InStep(v)'
    <3>1. InStep(v)
      BY <1>1, <2>8 DEF Unmet, Ungone, Saved
    <3>2. CASE v # u
      <4>1. Holders(v)' = Holders(v) /\ s \notin Holders(v)
        BY <1>1, <2>4, <3>2 DEF Holders, u
      <4>2. \A t \in Holders(v) : job'[t] = job[t]
        BY <2>4, <4>1 DEF Holders
      <4>3. \A t \in Sessions : me'[t] = v /\ job'[t].step \in {"wait", "save"} => job'[t].mutex = saving'[v]
        BY <1>1, <2>4, <3>1, <3>2 DEF InStep, u
      <4> QED
        BY <1>1, <2>5, <3>1, <3>2, <4>1, <4>2, <4>3 DEF InStep
    <3>3. CASE v = u
      <4>1. job[s].mutex = saving[v]
        BY <1>1, <3>1, <3>3 DEF InStep, u
      <4>2. Holders(v) = {}
        BY <1>1, <3>1, <3>3, <4>1 DEF InStep, Holders, FreeMutex
      <4>3. Holders(v)' = {s}
        BY <1>1, <2>3, <2>4, <3>3, <4>2 DEF Holders, u
      <4>4. db[v] = presence[v].status
        BY <3>1, <3>3, <4>2 DEF InStep
      <4>5. db'[v] = presence'[v].status \/ \E t \in Holders(v)' : job'[t].changed
        <5>1. CASE presence[v] = is
          BY <1>1, <2>5, <3>3, <4>4, <5>1
        <5>2. CASE presence[v] # is
          BY <2>3, <2>4, <3>3, <4>3, <5>2
        <5> QED
          BY <5>1, <5>2
      <4>6. \A t \in Sessions : me'[t] = v /\ job'[t].step \in {"wait", "save"} => job'[t].mutex = saving'[v]
        BY <1>1, <2>3, <2>4, <3>1, <3>3, <4>1 DEF InStep
      <4>7. \A t \in Holders(v)' : job'[t].status = presence'[v].status
        BY <1>1, <2>3, <2>4, <2>5, <3>3, <4>3
      <4> QED
        BY <1>1, <2>2, <2>5, <3>3, <4>5, <4>6, <4>7 DEF InStep
    <3> QED
      BY <3>2, <3>3
  <2> QED
    BY <1>1, <2>6, <2>7, <2>8 DEF Saved
<1> QED
  BY <1>2, <1>3

LEMMA UpdateSaveSaved ==
    ASSUME Saved, Directory', NEW s \in Sessions, UpdateSave(s)
    PROVE  Saved'
<1> DEFINE u == me[s]
<1>1. /\ job[s].step = "save" /\ u \in Users /\ job' = [job EXCEPT ![s] = Rest]
      /\ UNCHANGED <<stage, me, presence, saving>> /\ Rest.step = "none"
      /\ db' = IF job[s].changed THEN [db EXCEPT ![u] = job[s].status] ELSE db
  BY DEF UpdateSave, GoesOn, Does, Rest, Saved, Directory, TypeOK, SignedIn, conns
<1> HIDE DEF u
<1>2. \A t \in Sessions : job'[t] = IF t = s THEN Rest ELSE job[t]
  BY <1>1 DEF Saved, Directory, TypeOK
<1>3. \A v \in Users : db'[v] = IF v = u /\ job[s].changed THEN job[s].status ELSE db[v]
  BY <1>1 DEF Saved, Directory, TypeOK
<1>4. OneSaver'
  BY <1>1, <1>2 DEF Saved, OneSaver
<1>5. ASSUME NEW v \in Users, Unmet(v)'
      PROVE  NewIsOnline(v)'
  <2>1. NewIsOnline(v) /\ v # u
    BY <1>1, <1>5 DEF Unmet, Saved, u
  <2> QED
    BY <1>1, <1>2, <1>3, <2>1 DEF NewIsOnline
<1>6. ASSUME NEW v \in Users, Ungone(v)', ~Unmet(v)'
      PROVE  InStep(v)'
  <2>1. InStep(v)
    BY <1>1, <1>6 DEF Unmet, Ungone, Saved
  <2>2. \A t \in Sessions : t \in Holders(v)' <=> t \in Holders(v) /\ t # s
    BY <1>1, <1>2 DEF Holders
  <2>3. \A t \in Sessions : me'[t] = v /\ job'[t].step \in {"wait", "save"} => job'[t].mutex = saving'[v]
    BY <1>1, <1>2, <2>1 DEF InStep
  <2>4. \A t \in Holders(v)' : job'[t].status = presence'[v].status
    <3>1. \A t \in Holders(v)' : t \in Holders(v) /\ job'[t] = job[t]
      BY <1>2, <2>2 DEF Holders
    <3> QED
      BY <1>1, <2>1, <3>1 DEF InStep
  <2>5. db'[v] = presence'[v].status \/ \E t \in Holders(v)' : job'[t].changed
    <3>1. CASE v = u /\ job[s].changed
      <4>1. s \in Holders(v)
        BY <1>1, <3>1 DEF Holders, u
      <4> QED
        BY <1>1, <1>3, <2>1, <3>1, <4>1 DEF InStep
    <3>2. CASE ~(v = u /\ job[s].changed)
      <4>1. db'[v] = db[v]
        BY <1>3, <3>2
      <4>2. ASSUME NEW t \in Holders(v), job[t].changed
            PROVE  t \in Holders(v)' /\ job'[t].changed
        <5>1. t \in Sessions /\ me[t] = v
          BY <4>2 DEF Holders
        <5>2. t # s
          BY <3>2, <4>2, <5>1 DEF u
        <5> QED
          BY <1>2, <2>2, <4>2, <5>1, <5>2
      <4> QED
        BY <1>1, <2>1, <4>1, <4>2 DEF InStep
    <3> QED
      BY <3>1, <3>2
  <2> QED
    BY <1>1, <2>1, <2>3, <2>4, <2>5 DEF InStep
<1> QED
  BY <1>1, <1>4, <1>5, <1>6 DEF Saved

LEMMA BindSaved ==
    ASSUME Saved, Directory', NEW s \in Sessions, NEW old \in Sessions \cup {None},
           old # None => old \in members[job[s].user],
           stage[s] = "open", job[s].step = "login", BindReplacing(s, old)
    PROVE  Saved'
<1> DEFINE u == job[s].user
<1>1. Directory
  BY DEF Saved
<1>2. /\ u \in Users /\ uid[s] = None /\ me[s] = None
      /\ presence[u] # None => BoundPresence(s, old).status = presence[u].status
      /\ presence[u] = None => BoundPresence(s, old).status = job[s].status
      /\ BoundPresence(s, old) \in Presence
      /\ me' = [me EXCEPT ![s] = u] /\ UNCHANGED <<stage, db>>
      /\ presence' = [presence EXCEPT ![u] = BoundPresence(s, old)]
  BY <1>1, BindingFact
<1>3. /\ saving' = [saving EXCEPT ![u] = IF presence[u] = None THEN s ELSE @]
      /\ job' = [job EXCEPT ![s] = AfterBind(old)]
  BY <1>1, BindingFact
<1>4. AfterBind(old).step \in {"none", "retire"}
  BY DEF AfterBind, Rest
<1> HIDE DEF u
<1>5. \A t \in Sessions : /\ job'[t] = IF t = s THEN AfterBind(old) ELSE job[t]
                          /\ me'[t] = IF t = s THEN u ELSE me[t]
  BY <1>1, <1>2, <1>3 DEF Directory, TypeOK
<1>6. \A v \in Users : /\ presence'[v] = IF v = u THEN BoundPresence(s, old) ELSE presence[v]
                       /\ presence[v] # None => saving'[v] = saving[v]
                       /\ v # u => saving'[v] = saving[v]
  BY <1>1, <1>2, <1>3 DEF Directory, TypeOK
<1>7. OneSaver'
  BY <1>4, <1>5 DEF Saved, OneSaver
<1>8. \A t \in Sessions : me'[t] # None => stage'[t] # "made"
  BY <1>2, <1>5 DEF Saved
<1>9. ASSUME NEW v \in Users, Unmet(v)'
      PROVE  NewIsOnline(v)'
  <2>1. Unmet(v)
    BY <1>2, <1>5, <1>9 DEF Unmet
  <2>2. NewIsOnline(v)
    BY <2>1 DEF Saved
  <2> QED
    BY <1>2, <1>4, <1>5, <2>2 DEF NewIsOnline
<1>10. \A v \in Users, t \in Sessions : t \in Holders(v)' <=> t \in Holders(v)
  BY <1>2, <1>4, <1>5 DEF Holders
<1>11. \A v \in Users : \A t \in Holders(v) : t \in Sessions /\ job'[t] = job[t] /\ t \in Holders(v)'
  BY <1>4, <1>5, <1>10 DEF Holders
<1>12. ASSUME NEW v \in Users, Ungone(v)', ~Unmet(v)'
       PROVE  InStep(v)'
  <2>1. Ungone(v)
    BY <1>2, <1>5, <1>12 DEF Ungone
  <2>2. CASE ~Unmet(v)
    <3>1. InStep(v)
      BY <2>1, <2>2 DEF Saved
    <3>2. presence'[v] # None /\ presence'[v].status = presence[v].status /\ saving'[v] = saving[v]
      BY <1>2, <1>6, <3>1 DEF InStep, u
    <3>3. \A t \in Sessions : me'[t] = v /\ job'[t].step \in {"wait", "save"} => job'[t].mutex = saving'[v]
      BY <1>4, <1>5, <3>1, <3>2 DEF InStep
    <3>4. \A t \in Holders(v)' : job'[t].status = presence'[v].status
      BY <1>10, <1>11, <3>1, <3>2 DEF InStep, Holders
    <3>5. db'[v] = presence'[v].status \/ \E t \in Holders(v)' : job'[t].changed
      BY <1>2, <1>11, <3>1, <3>2 DEF InStep
    <3> QED
      BY <3>2, <3>3, <3>4, <3>5 DEF InStep
  <2>3. CASE Unmet(v)
    <3>1. v = u
      BY <1>5, <1>12, <2>3 DEF Unmet
    <3>2. members[v] = {}
      BY <1>1, <2>3 DEF Unmet, Directory, TypeOK, SignedIn
    <3>3. presence[v] = None
      BY <1>1, <3>2 DEF Directory, IdleEverywhere
    <3>4. db[v] = "online" /\ job[s].status = "online"
      BY <2>3, <3>1 DEF Saved, NewIsOnline, u
    <3>5. presence'[v] # None /\ presence'[v].status = "online" /\ db'[v] = "online"
      BY <1>2, <1>6, <3>1, <3>3, <3>4 DEF u
    <3>6. Holders(v) = {}
      BY <2>3 DEF Unmet, Holders
    <3>7. \A t \in Sessions : ~(me'[t] = v /\ job'[t].step \in {"wait", "save"})
      BY <1>4, <1>5, <2>3 DEF Unmet
    <3>8. \A t \in Holders(v)' : FALSE
      BY <1>10, <3>6 DEF Holders
    <3> QED
      BY <3>5, <3>7, <3>8 DEF InStep
  <2> QED
    BY <2>2, <2>3
<1> QED
  BY <1>7, <1>8, <1>9, <1>12 DEF Saved

LEMMA RetireSaved ==
    ASSUME Saved, Directory', NEW s \in Sessions, RetireReplaced(s)
    PROVE  Saved'
<1>1. job[s].step = "retire" /\ job[s].old \in Sessions /\ Does(s, Rest)
  BY JobFacts DEF RetireReplaced, GoesOn, Saved, Directory, TypeOK
<1>2. \A t \in Sessions : \/ job'[t] = job[t]
                          \/ job[t].step # "save" /\ job'[t].step \in {"none", "retire", "answer"}
  BY <1>1, JobMakers DEF Does, Saved, Directory, TypeOK
<1>3. CASE stage[job[s].old] = "open"
  <2>1. Forget(job[s].old, s, FALSE) /\ UNCHANGED <<me, db>>
    BY <1>3 DEF RetireReplaced
  <2> QED
    BY <1>1, <1>2, <2>1, ForgetSaved
<1>4. CASE stage[job[s].old] # "open"
  <2>1. UNCHANGED <<stage, me, presence, saving, db>>
    BY <1>4 DEF RetireReplaced, conns
  <2> QED
    BY <1>2, <2>1, KeepsSaved
<1> QED
  BY <1>3, <1>4

LEMMA LeaveSaved ==
    ASSUME Saved, Directory', NEW s \in Sessions, Leave(s)
    PROVE  Saved'
<1>1. /\ Forget(s, s, TRUE) /\ UNCHANGED <<me, db>>
      /\ job' = [job EXCEPT ![s] = IF @.step = "login" THEN Rest ELSE @]
  BY DEF Leave
<1>2. \A t \in Sessions : \/ job'[t] = job[t]
                          \/ job[t].step # "save" /\ job'[t].step \in {"none", "retire", "answer"}
  BY <1>1, JobMakers DEF Saved, Directory, TypeOK
<1> QED
  BY <1>1, <1>2, ForgetSaved

LEMMA SetIdleSaved ==
    ASSUME Saved, Directory', NEW s \in Sessions, SetIdle(s)
    PROVE  Saved'
<1> DEFINE u == uid[s]
<1> DEFINE all == AllIdle(members[u], [idle EXCEPT ![s] = ~@])
<1>1. /\ presence' = [presence EXCEPT ![u] = [presence[u] EXCEPT !.idle = all]]
      /\ UNCHANGED <<stage, me, saving, job, db>>
  BY DEF SetIdle
<1>2. u \in Users /\ presence[u] \in Presence
  BY DEF SetIdle, Saved, Directory, TypeOK, SignedIn, IdleEverywhere
<1>3. Directory
  BY DEF Saved
<1> HIDE DEF all, u
<1>4. \A v \in Users : presence[v] # None =>
         /\ presence'[v] # None /\ presence'[v].status = presence[v].status
  <2> SUFFICES ASSUME NEW v \in Users, presence[v] # None
               PROVE  presence'[v] # None /\ presence'[v].status = presence[v].status
    OBVIOUS
  <2>1. CASE v = u
    <3>1. presence'[v] = [presence[u] EXCEPT !.idle = all]
      BY <1>1, <1>3, <2>1 DEF Directory, TypeOK
    <3>2. presence'[v].status = presence[v].status
      BY <1>2, <2>1, <3>1 DEF Presence
    <3>3. presence'[v] # None
      <4>1. members'[v] = members[v] /\ members[v] # {}
        BY <1>3 DEF SetIdle, Directory, IdleEverywhere
      <4> QED
        BY <4>1 DEF Directory, IdleEverywhere
    <3> QED
      BY <3>2, <3>3
  <2>2. CASE v # u
    BY <1>1, <1>3, <2>2 DEF Directory, TypeOK
  <2> QED
    BY <2>1, <2>2
<1> QED
  BY <1>1, <1>4, KeepsSaved

LEMMA WatchSaved ==
    ASSUME Saved, Directory', NEW s \in Sessions, NEW set \in SUBSET Users, Watch(s, set)
    PROVE  Saved'
<1> DEFINE added == set \ watching[s]
<1> DEFINE what == IF added = {} THEN Rest ELSE [step |-> "answer", added |-> added]
<1>1. /\ job[s] = Rest /\ job' = [job EXCEPT ![s] = what]
      /\ UNCHANGED <<stage, me, presence, saving, db>>
  BY DEF Watch, Handles, Does, conns
<1>2. what.step \in {"none", "answer"} /\ Rest.step = "none"
  BY DEF Rest
<1> HIDE DEF what
<1>3. \A t \in Sessions : \/ job'[t] = job[t]
                          \/ job[t].step # "save" /\ job'[t].step \in {"none", "retire", "answer"}
  BY <1>1, <1>2 DEF Saved, Directory, TypeOK
<1> QED
  BY <1>1, <1>3, KeepsSaved

LEMMA StepSaved == Saved /\ [Next]_vars => Saved'
<1> SUFFICES ASSUME Saved, [Next]_vars PROVE Saved'
  OBVIOUS
<1>0. Directory /\ Directory' /\ Rest.step = "none"
  BY StepDirectory DEF Saved, Rest
<1>1. ASSUME NEW s \in Sessions, Join(s) PROVE Saved'
  <2>1. /\ \A t \in Sessions : /\ stage'[t] = "open" /\ me[t] # None => stage[t] = "open"
                               /\ stage'[t] = "made" => stage[t] = "made"
        /\ UNCHANGED <<me, job, presence, saving, db>>
    BY <1>1 DEF Join, Saved, Directory, TypeOK
  <2> QED
    BY <1>0, <2>1, KeepsSaved
<1>2. ASSUME NEW s \in Sessions, Bind(s) PROVE Saved'
  <2>1. PICK old \in Sessions \cup {None} :
              /\ old # None => old \in members[job[s].user]
              /\ stage[s] = "open" /\ job[s].step = "login"
              /\ BindReplacing(s, old)
    BY <1>0, <1>2, BindFact
  <2> QED
    BY <1>0, <2>1, BindSaved
<1>3. ASSUME NEW s \in Sessions, BindFull(s) \/ WatchAnswer(s) PROVE Saved'
  <2>1. /\ job[s].step # "save" /\ job' = [job EXCEPT ![s] = Rest]
        /\ UNCHANGED <<stage, me, presence, saving, db>>
    BY <1>3 DEF BindFull, WatchAnswer, GoesOn, Does, conns
  <2>2. \A t \in Sessions : \/ job'[t] = job[t]
                            \/ job[t].step # "save" /\ job'[t].step \in {"none", "retire", "answer"}
    BY <1>0, <2>1 DEF Directory, TypeOK
  <2> QED
    BY <1>0, <2>1, <2>2, KeepsSaved
<1>4. CASE UNCHANGED vars \/ \E f \in queued : Post(f)
  <2>1. UNCHANGED <<stage, me, job, presence, saving, db>>
    BY <1>4 DEF vars, Post, conns
  <2> QED
    BY <1>0, <2>1, KeepsSaved
<1> QED
  BY <1>0, <1>1, <1>2, <1>3, <1>4, LeaveSaved, RetireSaved, ReadSaved, UpdateStartSaved,
     UpdateChangeSaved, UpdateSaveSaved, SetIdleSaved, WatchSaved
  DEF Next

\* However changes from two devices interleave, the last status the directory
\* shows is the last one saved, while no connection of the account has gone.
THEOREM SavesAlwaysInOrder == Spec => []SavesInOrder
  BY InitSaved, StepSaved, SavedIsInOrder, PTL DEF Spec

=============================================================================
