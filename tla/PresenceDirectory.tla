------------------------- MODULE PresenceDirectory -------------------------
(***************************************************************************)
(* The presence half of the central server's connection directory          *)
(* (src/src/server/main.cpp, SessionManager): which accounts are signed in *)
(* on which connections, what each shows, who watches whom, what watchers  *)
(* and the account's own devices are told, and the saved status.           *)
(*                                                                         *)
(* An action is one critical section of SessionManager's mutex, one post   *)
(* of a frame to a connection, or one database statement. Handlers run on  *)
(* a thread pool, one at a time for a connection; what they announce is    *)
(* collected under the mutex and posted after it was released, frame by    *)
(* frame, while other threads take the mutex.                              *)
(***************************************************************************)
EXTENDS Naturals, FiniteSets

CONSTANTS
    Sessions,    \* connections (class Session); never used twice
    Users,       \* accounts, by uid
    Devices,     \* device ids
    Statuses,    \* the statuses accounts choose from
    Logins,      \* the sign-ins that may happen: <<session, user, device>>
    Changers,    \* the connections that may send SET_STATUS_REQ
    Idlers,      \* the connections that may send SET_IDLE_REQ
    Subscribers, \* the connections that may send PRESENCE_SUBSCRIBE
    MaxDevices,  \* SessionManager::MAX_DEVICES
    None         \* no session, user, device or account

ASSUME NoneAssumption ==
    None \notin Sessions \cup Users \cup Devices \cup Statuses
ASSUME LoginsAssumption == Logins \subseteq Sessions \X Users \X Devices
ASSUME StatusesAssumption ==
    Statuses \subseteq {"online", "invisible", "busy"} /\ "online" \in Statuses
ASSUME BoundsAssumption ==
    /\ Changers \subseteq Sessions /\ Idlers \subseteq Sessions
    /\ Subscribers \subseteq Sessions
    /\ MaxDevices \in Nat

VARIABLES
    stage,     \* a connection's life: made, in sessions_, forgotten
    uid,       \* Connection::uid
    device,    \* Connection::device_id
    idle,      \* Connection::idle
    watching,  \* Connection::watching
    watchers,  \* watchers_
    members,   \* Account::sessions
    presence,  \* Account::presence (None: the account is not in accounts_)
    saving,    \* Account::saving, named by the login that made the account
    job,       \* what the connection's handler is in the middle of
    me,        \* Session::uid_, as the connection's own handlers know it
    db,        \* the status saved in the users table
    queued,    \* frames collected under the mutex and not yet posted
    told,      \* what a connection was last told of an account
    heard      \* whether that was the last thing there was to tell

conns  == <<stage, uid, device, idle, me>>
vars   == <<stage, uid, device, idle, watching, watchers, members, presence,
            saving, job, me, db, queued, told, heard>>

-----------------------------------------------------------------------------
Presence == [status : Statuses, idle : BOOLEAN]

ASSUME NoPresenceAssumption == None \notin Presence

Visible(p) == p # None /\ p.status # "invisible"

\* Presence::effective.
Effective(p) == IF p.status = "online" /\ p.idle THEN "away" ELSE p.status

Offline == [status |-> "offline", idle |-> FALSE]

\* PresenceView: what others can see of an account.
View(p) == IF Visible(p) THEN [status |-> Effective(p), idle |-> FALSE] ELSE Offline

VisibilityDiffers(was, is) == Visible(was) # Visible(is)

AnythingDiffers(was, is) == was # is

\* PresenceView::operator!=.
Differs(was, is) == View(was) # View(is)

Views == [status : Statuses \cup {"away", "offline"}, idle : BOOLEAN]

\* What a connection is shown of an account: of its own all of it.
Shown(s, u) == IF uid[s] = u THEN presence[u] ELSE View(presence[u])

\* A handler that is in the middle of something: a login that read the
\* account, one that has an old connection to retire, a status change that
\* waits for Account::saving, one that has yet to save, a subscription that
\* has yet to be answered.
Rest == [step |-> "none"]
Jobs == {Rest}
          \cup [step : {"login"}, user : Users, device : Devices, status : Statuses]
          \cup [step : {"retire"}, old : Sessions]
          \cup [step : {"wait"}, mutex : Sessions, status : Statuses]
          \cup [step : {"save"}, mutex : Sessions, status : Statuses, changed : BOOLEAN]
          \cup [step : {"answer"}, added : SUBSET Users]

\* PRESENCE_DELTA to a watcher or OWN_PRESENCE to a device of the account.
\* "by" is the connection whose handler posts it, or whose end announces it.
\* "latest" says nothing newer was collected for that connection since.
Frames == [to : Sessions, about : Users, shows : Views,
           by : Sessions, ends : BOOLEAN, latest : BOOLEAN]

\* The account's connection from a device (device_session_locked).
DeviceSession(u, d) ==
    LET found == {s \in members[u] : device[s] = d}
    IN  IF found = {} THEN None ELSE CHOOSE s \in found : TRUE

\* recompute_idle_locked.
AnyIdle(who, idles) == \E s \in who : idles[s]

AllIdle(who, idles) == who # {} /\ \A s \in who : idles[s]

\* presence_changed_locked, and the deltas of a first login and a last leave
\* (where one of the two is None): a delta to the watchers when what others
\* see changed, the whole to the account's connections when that did.
Changes(u, was, is, seenBy, own, s, ends) ==
    LET frame(to, shows) == [to |-> to, about |-> u, shows |-> shows,
                             by |-> s, ends |-> ends, latest |-> TRUE]
    IN  (IF Differs(was, is) THEN {frame(w, View(is)) : w \in seenBy} ELSE {})
          \cup (IF is # was /\ is # None THEN {frame(o, is) : o \in own} ELSE {})

Addressed(frames, s, u) == \E f \in frames : f.to = s /\ f.about = u

\* Frames join the queue; older ones to the same are no longer the latest.
Queue(new) ==
    queued' = {IF Addressed(new, f.to, f.about) THEN [f EXCEPT !.latest = FALSE] ELSE f :
                  f \in queued} \cup new

Awaited(new, h) ==
    [s \in Sessions |-> [u \in Users |-> IF Addressed(new, s, u) THEN "waiting" ELSE h[s][u]]]

Handles(s) == stage[s] = "open" /\ job[s] = Rest /\ \A f \in queued : f.by # s \/ f.ends

\* A handler goes on once what it announced so far is posted, also when its
\* connection is gone by then.
GoesOn(s, step) == job[s].step = step /\ \A f \in queued : f.by # s \/ f.ends

Does(s, what) == job' = [job EXCEPT ![s] = what]

-----------------------------------------------------------------------------
(* Connections.                                                            *)

Init ==
    /\ stage    = [s \in Sessions |-> "made"]
    /\ uid      = [s \in Sessions |-> None]
    /\ device   = [s \in Sessions |-> None]
    /\ idle     = [s \in Sessions |-> FALSE]
    /\ me       = [s \in Sessions |-> None]
    /\ watching = [s \in Sessions |-> {}]
    /\ watchers = [u \in Users |-> {}]
    /\ members  = [u \in Users |-> {}]
    /\ presence = [u \in Users |-> None]
    /\ saving   = [u \in Users |-> None]
    /\ job      = [s \in Sessions |-> Rest]
    /\ db       = [u \in Users |-> "online"]
    /\ queued   = {}
    /\ told     = [s \in Sessions |-> [u \in Users |-> None]]
    /\ heard    = [s \in Sessions |-> [u \in Users |-> "none"]]

Join(s) ==
    /\ stage[s] = "made"
    /\ stage' = [stage EXCEPT ![s] = "open"]
    /\ UNCHANGED <<uid, device, idle, watching, watchers, members, presence,
                   saving, job, me, db, queued, told, heard>>

StillWatched(s) == watchers

\* unwatch_all_locked.
Unwatched(s) == [u \in Users |-> watchers[u] \ {s}]

\* sign_out_locked, then the connection is dropped from sessions_.
Forget(s, by, ends) ==
    LET u    == uid[s]
        left == IF u = None THEN {} ELSE members[u] \ {s}
        was  == IF u = None THEN None ELSE presence[u]
        is   == IF left = {} THEN None ELSE [was EXCEPT !.idle = AllIdle(left, idle)]
        new  == IF u = None THEN {}
                ELSE Changes(u, was, is, watchers[u] \ {s}, left, by, ends)
    IN  /\ stage'    = [stage EXCEPT ![s] = "gone"]
        /\ uid'      = [uid EXCEPT ![s] = None]
        /\ device'   = [device EXCEPT ![s] = None]
        /\ idle'     = [idle EXCEPT ![s] = FALSE]
        /\ watching' = [watching EXCEPT ![s] = {}]
        /\ watchers' = Unwatched(s)
        /\ members'  = [v \in Users |-> IF v = u THEN left ELSE members[v]]
        /\ presence' = [v \in Users |-> IF v = u THEN is ELSE presence[v]]
        /\ saving'   = [v \in Users |-> IF v = u /\ left = {} THEN None ELSE saving[v]]
        /\ Queue(new)
        /\ told'     = [told EXCEPT ![s] = [v \in Users |-> None]]
        /\ heard'    = [Awaited(new, heard) EXCEPT ![s] = [v \in Users |-> "none"]]

\* leave() or retire() by another thread. The connection's handler, when one
\* is running, goes on.
Leave(s) ==
    /\ stage[s] = "open"
    /\ Forget(s, s, TRUE)
    /\ job' = [job EXCEPT ![s] = IF @.step = "login" THEN Rest ELSE @]
    /\ UNCHANGED <<me, db>>

-----------------------------------------------------------------------------
(* A login: the account's saved status is read, then the connection bound. *)

ReadAccount(s, u, d) ==
    /\ <<s, u, d>> \in Logins
    /\ Handles(s) /\ me[s] = None
    /\ Does(s, [step |-> "login", user |-> u, device |-> d, status |-> db[u]])
    /\ UNCHANGED <<conns, watching, watchers, members, presence, saving, db,
                   queued, told, heard>>

AfterBind(old) == IF old = None THEN Rest ELSE [step |-> "retire", old |-> old]

\* The old connection of the device gives up its place and its watches.
BindReplacing(s, old) ==
    LET u    == job[s].user
        was  == presence[u]
        now  == (members[u] \ {old}) \cup {s}
        idles == [idle EXCEPT ![s] = FALSE]
        is   == IF was = None
                  THEN [status |-> job[s].status, idle |-> FALSE]
                  ELSE [was EXCEPT !.idle = AllIdle(now, idles)]
        new  == Changes(u, was, is, watchers[u] \ {old}, now \ {s}, s, FALSE)
    IN  /\ uid'      = [t \in Sessions |-> IF t = s THEN u ELSE IF t = old THEN None ELSE uid[t]]
        /\ device'   = [device EXCEPT ![s] = job[s].device]
        /\ idle'     = idles
        /\ me'       = [me EXCEPT ![s] = u]
        /\ watching' = [t \in Sessions |-> IF t = old THEN {} ELSE watching[t]]
        /\ watchers' = Unwatched(old)
        /\ members'  = [members EXCEPT ![u] = now]
        /\ presence' = [presence EXCEPT ![u] = is]
        /\ saving'   = [saving EXCEPT ![u] = IF was = None THEN s ELSE @]
        /\ UNCHANGED <<stage, db>>
        /\ Queue(new)
        /\ told'     = [told EXCEPT ![s][u] = is]
        /\ heard'    = [Awaited(new, heard) EXCEPT ![s][u] = "latest"]
        /\ Does(s, AfterBind(old))

Bind(s) ==
    /\ stage[s] = "open" /\ GoesOn(s, "login")
    /\ LET old == DeviceSession(job[s].user, job[s].device)
       IN  /\ old # None \/ Cardinality(members[job[s].user]) < MaxDevices
           /\ BindReplacing(s, old)

\* The account has MAX_DEVICES other devices signed in.
BindFull(s) ==
    /\ stage[s] = "open" /\ GoesOn(s, "login")
    /\ DeviceSession(job[s].user, job[s].device) = None
    /\ Cardinality(members[job[s].user]) >= MaxDevices
    /\ Does(s, Rest)
    /\ UNCHANGED <<conns, watching, watchers, members, presence, saving, db,
                   queued, told, heard>>

RetireReplaced(s) ==
    /\ GoesOn(s, "retire")
    /\ Does(s, Rest)
    /\ IF stage[job[s].old] = "open"
         THEN Forget(job[s].old, s, FALSE) /\ UNCHANGED <<me, db>>
         ELSE UNCHANGED <<conns, watching, watchers, members, presence, saving,
                          db, queued, told, heard>>

-----------------------------------------------------------------------------
(* Status, auto-away.                                                      *)

\* SET_STATUS_REQ: update_presence looks up the account's saving mutex ...
UpdateStart(s, v) ==
    /\ s \in Changers /\ Handles(s) /\ me[s] # None
    /\ presence[me[s]] # None
    /\ Does(s, [step |-> "wait", mutex |-> saving[me[s]], status |-> v])
    /\ UNCHANGED <<conns, watching, watchers, members, presence, saving, db,
                   queued, told, heard>>

Unlocked(m) == TRUE

FreeMutex(m) == \A t \in Sessions : job[t].step = "save" => job[t].mutex # m

\* ... takes it, changes the account in the directory ...
UpdateChange(s) ==
    /\ GoesOn(s, "wait") /\ FreeMutex(job[s].mutex)
    /\ LET u   == me[s]
           was == presence[u]
           is  == [was EXCEPT !.status = job[s].status]
           new == Changes(u, was, is, watchers[u], members[u], s, FALSE)
       IN  IF was = None
             THEN Does(s, Rest) /\ UNCHANGED <<presence, queued, heard>>
             ELSE /\ presence' = [presence EXCEPT ![u] = is]
                  /\ Queue(new)
                  /\ heard' = Awaited(new, heard)
                  /\ Does(s, [step |-> "save", mutex |-> job[s].mutex,
                              status |-> is.status, changed |-> was # is])
    /\ UNCHANGED <<conns, watching, watchers, members, saving, db, told>>

\* ... and after the announcements saves the status, and releases it.
UpdateSave(s) ==
    /\ GoesOn(s, "save")
    /\ db' = IF job[s].changed THEN [db EXCEPT ![me[s]] = job[s].status] ELSE db
    /\ Does(s, Rest)
    /\ UNCHANGED <<conns, watching, watchers, members, presence, saving, queued, told, heard>>

\* SET_IDLE_REQ.
SetIdle(s) ==
    /\ s \in Idlers /\ Handles(s) /\ uid[s] # None
    /\ LET u     == uid[s]
           idles == [idle EXCEPT ![s] = ~@]
           was   == presence[u]
           is    == [was EXCEPT !.idle = AllIdle(members[u], idles)]
           new   == Changes(u, was, is, watchers[u], members[u], s, FALSE)
       IN  /\ idle' = idles
           /\ presence' = [presence EXCEPT ![u] = is]
           /\ Queue(new)
           /\ heard' = Awaited(new, heard)
    /\ UNCHANGED <<stage, uid, device, me, watching, watchers, members, saving, job, db, told>>

-----------------------------------------------------------------------------
(* Subscriptions. Clients never watch their own account.                   *)

\* PRESENCE_SUBSCRIBE: the set is replaced ...
Watch(s, set) ==
    /\ s \in Subscribers /\ Handles(s) /\ uid[s] # None /\ uid[s] = me[s] /\ uid[s] \notin set
    /\ set # watching[s]
    /\ watching' = [watching EXCEPT ![s] = set]
    /\ watchers' = [u \in Users |-> IF u \in set THEN watchers[u] \cup {s}
                                    ELSE watchers[u] \ {s}]
    /\ LET added   == set \ watching[s]
           removed == watching[s] \ set
       IN  /\ Does(s, IF added = {} THEN Rest ELSE [step |-> "answer", added |-> added])
           /\ queued' = {IF f.to = s /\ f.about \in removed THEN [f EXCEPT !.latest = FALSE] ELSE f :
                            f \in queued}
           /\ told'  = [told EXCEPT ![s] = [u \in Users |-> IF u \in removed THEN None ELSE @[u]]]
           /\ heard' = [heard EXCEPT ![s] = [u \in Users |-> IF u \in removed THEN "none" ELSE @[u]]]
    /\ UNCHANGED <<conns, members, presence, saving, db>>

Answered(s) == job[s].added \cap watching[s]

\* ... and, after a database read without the mutex, the newly watched are
\* answered under it.
WatchAnswer(s) ==
    /\ GoesOn(s, "answer")
    /\ Does(s, Rest)
    /\ IF stage[s] = "open" /\ uid[s] = me[s]
         THEN /\ told'  = [told EXCEPT ![s] = [u \in Users |->
                              IF u \in Answered(s) THEN View(presence[u]) ELSE @[u]]]
              /\ heard' = [heard EXCEPT ![s] = [u \in Users |->
                              IF u \in Answered(s) THEN "latest" ELSE @[u]]]
         ELSE UNCHANGED <<told, heard>>
    /\ UNCHANGED <<conns, watching, watchers, members, presence, saving, db, queued>>

\* A frame is posted to its connection, which writes in the order of posts.
Post(f) ==
    /\ queued' = queued \ {f}
    /\ IF stage[f.to] = "open"
         THEN /\ told'  = [told EXCEPT ![f.to][f.about] = f.shows]
              /\ heard' = [heard EXCEPT ![f.to][f.about] =
                              IF f.latest THEN "latest"
                              ELSE IF @ = "latest" THEN "overtaken" ELSE @]
         ELSE UNCHANGED <<told, heard>>
    /\ UNCHANGED <<conns, watching, watchers, members, presence, saving, job, db>>

Next ==
    \/ \E s \in Sessions : \/ Join(s) \/ Leave(s)
                           \/ Bind(s) \/ BindFull(s) \/ RetireReplaced(s)
                           \/ UpdateChange(s) \/ UpdateSave(s)
                           \/ SetIdle(s) \/ WatchAnswer(s)
    \/ \E s \in Sessions, u \in Users, d \in Devices : ReadAccount(s, u, d)
    \/ \E s \in Sessions, v \in Statuses : UpdateStart(s, v)
    \/ \E s \in Sessions, set \in SUBSET Users : Watch(s, set)
    \/ \E f \in queued : Post(f)

Spec == Init /\ [][Next]_vars

-----------------------------------------------------------------------------
(* Properties.                                                             *)

TypeOK ==
    /\ stage    \in [Sessions -> {"made", "open", "gone"}]
    /\ uid      \in [Sessions -> Users \cup {None}]
    /\ device   \in [Sessions -> Devices \cup {None}]
    /\ idle     \in [Sessions -> BOOLEAN]
    /\ me       \in [Sessions -> Users \cup {None}]
    /\ watching \in [Sessions -> SUBSET Users]
    /\ watchers \in [Users -> SUBSET Sessions]
    /\ members  \in [Users -> SUBSET Sessions]
    /\ presence \in [Users -> Presence \cup {None}]
    /\ saving   \in [Users -> Sessions \cup {None}]
    /\ job      \in [Sessions -> Jobs]
    /\ db       \in [Users -> Statuses]
    /\ queued   \subseteq Frames
    /\ told     \in [Sessions -> [Users -> Views \cup {None}]]
    /\ heard    \in [Sessions -> [Users -> {"none", "waiting", "latest", "overtaken"}]]

\* watchers_ holds raw pointers: it is the exact reverse of the watch sets,
\* and only connections that are signed in (so in sessions_, which keeps them
\* alive) watch anybody.
WatchIndexMatches ==
    /\ \A s \in Sessions, u \in Users : s \in watchers[u] <=> u \in watching[s]
    /\ \A s \in Sessions : watching[s] # {} => uid[s] # None /\ stage[s] = "open"

\* An account is in accounts_ exactly while it has connections, and is idle
\* exactly while every one of them is, whichever of them came, went, was
\* replaced or moved last.
IdleEverywhere ==
    \A u \in Users :
        /\ presence[u] = None <=> members[u] = {}
        /\ presence[u] # None => (presence[u].idle <=> \A s \in members[u] : idle[s])

\* Whoever shows an account hears of every change: it was told of the newest
\* one, or that is still to be posted to it, or it is still to be answered,
\* or (the one thing that can go wrong) an older frame overtook the newest.
NothingIsLost ==
    \A s \in Sessions, u \in Users :
        (uid[s] = u \/ u \in watching[s]) =>
            \/ \E f \in queued : f.to = s /\ f.about = u /\ f.latest
            \/ job[s].step = "answer" /\ u \in job[s].added
            \/ heard[s][u] = "latest" /\ told[s][u] = Shown(s, u)
            \/ heard[s][u] = "overtaken"

\* An account that is invisible all the while tells its watchers nothing, and
\* a new watcher that it is offline: its logins, logouts, idling and changed
\* devices don't show.
InvisibleIsAirtight ==
    [][\A u \in Users :
          (~Visible(presence[u]) /\ ~Visible(presence'[u])) =>
             /\ \A f \in queued' \ queued : f.about = u /\ f.latest => uid'[f.to] = u
             /\ \A s \in Sessions : told'[s][u] # told[s][u] =>
                   \/ told'[s][u] \in {None, Offline} \/ uid'[s] = u
                   \/ \E f \in queued : Post(f) /\ f.to = s /\ f.about = u]_vars

\* Two devices that change an account at once: at rest the saved status is
\* the directory's, for as long as none of its connections has gone (when the
\* last one goes the account is made anew, with a mutex of its own).
AtRest(u) == presence[u] # None /\ \A s \in Sessions : job[s] = Rest

SavesInOrder ==
    \A u \in Users :
        (AtRest(u) /\ \A s \in Sessions : me[s] = u => stage[s] = "open")
            => db[u] = presence[u].status

\* main.cpp:2176: "The saved status applies before anyone hears of the login,
\* so an invisible user never flashes online."
NeverFlashesOnline ==
    [][\A s \in Sessions :
          (Bind(s) /\ db[job[s].user] = "invisible" /\ ~Visible(presence[job[s].user]))
             => ~Visible(presence'[job[s].user])]_vars
=============================================================================
