---------------------------- MODULE RosterMirror ----------------------------
(***************************************************************************)
(* The member list a client keeps of a community ("Roster protocol" in     *)
(* proto/messages.proto): the server's roster index and its revision       *)
(* (community main.cpp), and the renderer's mirror of it, paged in as the  *)
(* sidebar scrolls and kept current by deltas (chatStore.ts,               *)
(* useServerEvents.ts, MembersList.tsx, memberLookup.ts, rosterOrder.ts).  *)
(*                                                                         *)
(* The community runs one handler at a time and a connection keeps its     *)
(* order both ways, so requests and packets are two queues; a connection   *)
(* that is lost takes the requests and some suffix of the packets with it. *)
(* A command the renderer cannot send is rejected some time later.         *)
(*                                                                         *)
(* `age` counts the changes of the roster since ever and `past` keeps it   *)
(* as it was at each: what a packet says is compared with that.  The wire  *)
(* has the revision, the changes since the server process started (`born`).*)
(*                                                                         *)
(* Left out: the counts, roles, the byte budget of a page, member search   *)
(* and refusals (a request over its rate waits, and keeps its place).      *)
(***************************************************************************)
EXTENDS Naturals, Sequences, FiniteSets

CONSTANTS
  Uids,          \* members and would-be members
  Me,            \* the client's account
  KeysOf,        \* uid -> the roster keys its names give it
  Limit,         \* members in a page
  None,
  Shown,         \* uids the views show
  Rosters,       \* the rosters the server may start with
  Prompt,        \* a connection is back only after the renderer heard of the last
  MaxAge,        \* bound: changes of the roster
  MaxLosses,     \* bound: connections lost
  MaxRestarts    \* bound: restarts of the server process

ASSUME RosterAssumption ==
  /\ Me \in Uids /\ Limit \in Nat \ {0}
  /\ KeysOf \in [Uids -> SUBSET (Nat \ {0})]
  /\ \A u, v \in Uids : u # v => KeysOf[u] \cap KeysOf[v] = {}
  /\ Shown \subseteq Uids /\ Prompt \in BOOLEAN
  /\ MaxAge \in Nat /\ MaxLosses \in Nat /\ MaxRestarts \in Nat

VARIABLES
  past,      \* age -> the roster; past[age] is the server's roster_entries_
  age, born, \* roster_revision_ is age - born
  up,        \* the client's session is authenticated
  requests,  \* MEMBER_LIST_REQs on their way
  packets,   \* what is on its way to the renderer, up to its event queue
  meta,      \* MemberRosterMeta, or None
  rows,      \* membersByServer: the rows the client holds
  asked,     \* memberLookup: uids asked for under this generation
  rejected,  \* rejections on their way to the renderer
  losses, restarts

vars == <<past, age, born, up, requests, packets, meta, rows, asked, rejected, losses, restarts>>
server == <<past, age, born>>
bounds == <<losses, restarts>>

\* A member's row: which part it is in, and its place there.
Row == {m \in [uid : Uids, key : UNION {KeysOf[u] : u \in Uids}, online : BOOLEAN] :
          m.key \in KeysOf[m.uid]}
ASSUME RostersAssumption ==
  /\ Rosters \subseteq SUBSET Row
  /\ \A R \in Rosters : IsFiniteSet(R) /\ \A m, n \in R : m.uid = n.uid => m = n

\* How far the pages of a list reach: the end of each part, and the cursor.
MemberRosterMeta ==
  [revision : Nat, age : Nat, onlineComplete : BOOLEAN, onlineEdge : Nat, offlineEdge : Nat,
   hasMore : BOOLEAN, nextAfter : [online : BOOLEAN, key : Nat],
   loadingMore : BOOLEAN, refetching : BOOLEAN]
ASSUME NoMetaAssumption == None \notin MemberRosterMeta

Roster == past[age]
revision == age - born

-----------------------------------------------------------------------------
(* Pages: fill_member_page().  A cursor is the last member sent, or the    *)
(* start of a part (key 0).                                                *)

FirstPage == [online |-> TRUE, key |-> 0]
Offline == [online |-> FALSE, key |-> 0]

Before(m, n) == (m.online /\ ~n.online) \/ (m.online = n.online /\ m.key < n.key)
Past(c, R) == {m \in R : Before(c, m)}
PageOf(c, R) == {m \in Past(c, R) : Cardinality({n \in Past(c, R) : Before(n, m)}) < Limit}
LastOf(S) == CHOOSE m \in S : \A n \in S : n = m \/ Before(n, m)

\* A mutant: the page after the last online member starts behind it.
SkipsAPart(c, R) ==
  LET page == PageOf(c, R)  last == LastOf(page) IN
  [online |-> FALSE, key |-> last.key]

NextAfter(c, R) ==
  LET page == PageOf(c, R)  last == LastOf(page) IN
  IF last.online /\ \A m \in Past(c, R) : m.online => m \in page
    THEN Offline ELSE [online |-> last.online, key |-> last.key]

Page(c, R) ==
  LET page == PageOf(c, R) IN
  [kind |-> "page", first |-> c = FirstPage, age |-> age, revision |-> revision,
   members |-> page,
   extra |-> IF c = FirstPage THEN {m \in R : m.uid = Me} ELSE {},
   onlineComplete |-> \A m \in Past(c, R) : m.online => m \in page,
   hasMore |-> page # Past(c, R),
   nextAfter |-> IF page # Past(c, R) THEN NextAfter(c, R) ELSE Offline]

Found(u, R) ==
  [kind |-> "found", uid |-> u, extra |-> {m \in R : m.uid = u}, age |-> age, revision |-> revision]

-----------------------------------------------------------------------------
(* The server.                                                             *)

\* broadcast_to_members(): to an authenticated session.
Broadcast(p) == packets' = IF up THEN Append(packets, p) ELSE packets

Changes(u, now) ==
  /\ age < MaxAge /\ age' = age + 1
  /\ past' = [past EXCEPT ![age + 1] = {m \in Roster : m.uid # u} \cup now]

(* emit_member_upsert(): joined, renamed, on or off line.                  *)
EmitMemberUpsert(r) ==
  /\ r \notin Roster /\ Changes(r.uid, {r})
  /\ Broadcast([kind |-> "upsert", row |-> r, age |-> age + 1, revision |-> revision + 1])
  /\ UNCHANGED <<born, up, requests, meta, rows, asked, rejected, bounds>>

(* emit_member_remove(): left, kicked or banned.                           *)
EmitMemberRemove(u) ==
  /\ \E m \in Roster : m.uid = u
  /\ Changes(u, {})
  /\ Broadcast([kind |-> "remove", uid |-> u, age |-> age + 1, revision |-> revision + 1])
  /\ UNCHANGED <<born, up, requests, meta, rows, asked, rejected, bounds>>

(* The MEMBER_LIST_REQ handler.                                            *)
ServeList ==
  /\ up /\ requests # <<>> /\ requests' = Tail(requests)
  /\ LET q == Head(requests) IN
       packets' = Append(packets, IF q.kind = "page" THEN Page(q.after, Roster)
                                                     ELSE Found(q.uid, Roster))
  /\ UNCHANGED <<server, up, meta, rows, asked, rejected, bounds>>

(* The connection.  Events the renderer has queued outlive it.             *)
Lose ==
  /\ up /\ losses < MaxLosses /\ losses' = losses + 1
  /\ up' = FALSE /\ requests' = <<>>
  /\ \E k \in 0..Len(packets) : packets' = SubSeq(packets, 1, k)
  /\ UNCHANGED <<server, meta, rows, asked, rejected, restarts>>

Restart ==
  /\ ~up /\ restarts < MaxRestarts /\ restarts' = restarts + 1
  /\ born' = age
  /\ UNCHANGED <<past, age, up, requests, packets, meta, rows, asked, rejected, losses>>

(* register_authenticated() and the auth response.                         *)
Connect ==
  /\ ~up /\ up' = TRUE
  /\ Prompt => rejected = {} /\ \A i \in DOMAIN packets : packets[i].kind # "auth"
  /\ packets' = Append(packets, [kind |-> "auth"])
  /\ UNCHANGED <<server, requests, meta, rows, asked, rejected, bounds>>

-----------------------------------------------------------------------------
(* The renderer.                                                           *)

\* invoke("list_members", ...)
Asks(q) ==
  IF up THEN requests' = Append(requests, q) /\ UNCHANGED rejected
        ELSE rejected' = rejected \cup {q} /\ UNCHANGED requests

AskPage(c) == Asks([kind |-> "page", after |-> c])

\* A mutant: the first page is asked for, and the deltas go on.
RefetchesOnly(force) ==
  IF ~force /\ meta # None /\ meta.refetching THEN UNCHANGED <<meta, requests, rejected>>
  ELSE AskPage(FirstPage) /\ UNCHANGED meta

(* refetchRoster().                                                        *)
RefetchRoster(force) ==
  IF ~force /\ meta # None /\ meta.refetching THEN UNCHANGED <<meta, requests, rejected>>
  ELSE /\ AskPage(FirstPage)
       /\ meta' = IF meta = None THEN None ELSE [meta EXCEPT !.refetching = TRUE]

Held(new) == {m \in rows : \A n \in new : n.uid # m.uid} \cup new

(* community_auth_responded.                                               *)
OnAuth(p) ==
  p.kind = "auth" /\ RefetchRoster(TRUE) /\ UNCHANGED <<rows, asked>>

Edge(page, online, before) ==
  LET part == {m \in page : m.online = online} IN
  IF part = {} THEN before ELSE LastOf(part).key

\* A mutant: the lookups of the generation before are not asked again.
AppliesForgetting(p) ==
  /\ rows' = IF p.first THEN p.members \cup p.extra ELSE Held(p.members \cup p.extra)
  /\ meta' = [revision |-> p.revision, age |-> p.age, onlineComplete |-> p.onlineComplete,
              onlineEdge |-> Edge(p.members, TRUE, IF p.first THEN 0 ELSE meta.onlineEdge),
              offlineEdge |-> Edge(p.members, FALSE, IF p.first THEN 0 ELSE meta.offlineEdge),
              hasMore |-> p.hasMore, nextAfter |-> p.nextAfter,
              loadingMore |-> FALSE, refetching |-> FALSE]
  /\ UNCHANGED <<asked, requests, rejected>>

\* A mutant: a page goes on as before, and with it the wait for a first one.
AppliesWaiting(p) ==
  /\ rows' = IF p.first THEN p.members \cup p.extra ELSE Held(p.members \cup p.extra)
  /\ meta' = [revision |-> p.revision, age |-> p.age, onlineComplete |-> p.onlineComplete,
              onlineEdge |-> Edge(p.members, TRUE, IF p.first THEN 0 ELSE meta.onlineEdge),
              offlineEdge |-> Edge(p.members, FALSE, IF p.first THEN 0 ELSE meta.offlineEdge),
              hasMore |-> p.hasMore, nextAfter |-> p.nextAfter,
              loadingMore |-> FALSE, refetching |-> meta # None /\ meta.refetching]
  /\ asked' = IF p.first THEN {} ELSE asked
  /\ UNCHANGED <<requests, rejected>>

(* applyMemberPage().                                                      *)
AppliesPage(p) ==
  /\ rows' = IF p.first THEN p.members \cup p.extra ELSE Held(p.members \cup p.extra)
  /\ meta' = [revision |-> p.revision, age |-> p.age, onlineComplete |-> p.onlineComplete,
              onlineEdge |-> Edge(p.members, TRUE, IF p.first THEN 0 ELSE meta.onlineEdge),
              offlineEdge |-> Edge(p.members, FALSE, IF p.first THEN 0 ELSE meta.offlineEdge),
              hasMore |-> p.hasMore, nextAfter |-> p.nextAfter,
              loadingMore |-> FALSE, refetching |-> FALSE]
  /\ asked' = IF p.first THEN {} ELSE asked
  /\ UNCHANGED <<requests, rejected>>

OnPage(p) ==
  /\ p.kind = "page"
  /\ CASE ~p.first /\ (meta = None \/ meta.refetching) ->
            UNCHANGED <<meta, rows, asked, requests, rejected>>
       [] ~p.first /\ meta # None /\ ~meta.refetching /\ p.revision # meta.revision ->
            RefetchRoster(FALSE) /\ UNCHANGED <<rows, asked>>
       [] OTHER -> AppliesPage(p)

(* applyMemberLookup().                                                    *)
OnFound(p) ==
  /\ p.kind = "found"
  /\ IF meta = None \/ meta.refetching \/ p.revision # meta.revision
       THEN UNCHANGED rows ELSE rows' = Held(p.extra)
  /\ UNCHANGED <<meta, asked, requests, rejected>>

(* upsertMember() and removeMember(): a delta that does not continue the   *)
(* last one applied has the first page fetched.                            *)
OnDelta(p) ==
  /\ p.kind \in {"upsert", "remove"}
  /\ CASE meta = None \/ meta.refetching -> UNCHANGED <<meta, rows, requests, rejected>>
       [] meta # None /\ ~meta.refetching /\ p.revision # meta.revision + 1 ->
            RefetchRoster(FALSE) /\ UNCHANGED rows
       [] OTHER ->
            /\ rows' = IF p.kind = "upsert" THEN Held({p.row})
                                           ELSE {m \in rows : m.uid # p.uid}
            /\ meta' = [meta EXCEPT !.revision = p.revision, !.age = p.age]
            /\ UNCHANGED <<requests, rejected>>
  /\ UNCHANGED asked

Receive ==
  /\ packets # <<>> /\ packets' = Tail(packets)
  /\ LET p == Head(packets) IN OnAuth(p) \/ OnPage(p) \/ OnFound(p) \/ OnDelta(p)
  /\ UNCHANGED <<server, up, bounds>>

(* What the renderer does when a list_members it asked for is rejected.    *)
OnRejected(q) ==
  /\ q \in rejected /\ rejected' = rejected \ {q}
  /\ meta' = IF meta = None \/ q.kind # "page" THEN meta
             ELSE IF q.after = FirstPage THEN [meta EXCEPT !.refetching = FALSE]
             ELSE [meta EXCEPT !.loadingMore = FALSE]
  /\ UNCHANGED <<server, up, requests, packets, rows, asked, bounds>>

(* The sidebar scrolls to the end of what is loaded: loadMore().           *)
LoadMore ==
  /\ meta # None /\ meta.hasMore /\ ~meta.loadingMore /\ ~meta.refetching
  /\ meta' = [meta EXCEPT !.loadingMore = TRUE]
  /\ AskPage(meta.nextAfter)
  /\ UNCHANGED <<server, up, packets, rows, asked, bounds>>

(* A view shows a member the client does not hold: requestMember().        *)
RequestMember(u) ==
  /\ meta # None /\ u \notin asked /\ \A m \in rows : m.uid # u
  /\ asked' = asked \cup {u} /\ Asks([kind |-> "lookup", uid |-> u])
  /\ UNCHANGED <<server, up, packets, meta, rows, bounds>>

-----------------------------------------------------------------------------
Init ==
  /\ \E R \in Rosters : past = [a \in 0..MaxAge |-> IF a = 0 THEN R ELSE {}]
  /\ age = 0 /\ born = 0 /\ up = FALSE
  /\ requests = <<>> /\ packets = <<>>
  /\ meta = None /\ rows = {} /\ asked = {} /\ rejected = {}
  /\ losses = 0 /\ restarts = 0

Emit ==
  \/ \E u \in Uids : \E k \in KeysOf[u], o \in BOOLEAN :
       EmitMemberUpsert([uid |-> u, key |-> k, online |-> o])
  \/ \E u \in Uids : EmitMemberRemove(u)
Views == LoadMore \/ \E u \in Shown : RequestMember(u)
Progress == ServeList \/ Connect \/ Receive \/ \E q \in rejected : OnRejected(q)

Next == Emit \/ Views \/ Lose \/ Restart \/ Progress

Spec == Init /\ [][Next]_vars

(* Requests are served, packets and rejections handled, and a connection   *)
(* comes back, however often the renderer asks for pages while it is away; *)
(* the sidebar may never be scrolled.                                      *)
FairSpec == Spec /\ WF_vars(ServeList \/ Receive)
                 /\ WF_vars(\E q \in rejected : q.kind = "page" /\ OnRejected(q))
                 /\ \A u \in Shown : WF_vars(OnRejected([kind |-> "lookup", uid |-> u]))
                 /\ SF_vars(Connect)

-----------------------------------------------------------------------------
(* What visibleRoster() draws: each part up to where its pages reached.    *)
Drawn(m) ==
  IF m.online THEN meta.onlineComplete \/ m.key <= meta.onlineEdge
  ELSE meta.onlineComplete /\ (~meta.hasMore \/ m.key <= meta.offlineEdge)

(* Every row the client holds is the server's, as of the last change the   *)
(* client has applied: no page, lookup or delta of another time is mixed   *)
(* in (the revisions of applyMemberPage, applyMemberLookup, upsertMember   *)
(* and removeMember).                                                      *)
RowsAreTrue == meta # None => rows \subseteq past[meta.age]

(* "So the list never shows a gap" (visibleRoster): a member whose place   *)
(* is in the loaded stretch is held, whatever joined, left or moved while  *)
(* the pages were on their way.                                            *)
NoGap == meta # None => \A m \in past[meta.age] : Drawn(m) => m \in rows

OnItsWay(u) ==
  \/ \E i \in DOMAIN requests : requests[i].kind = "lookup" /\ requests[i].uid = u
  \/ \E i \in DOMAIN packets : packets[i].kind = "found" /\ packets[i].uid = u

(* A lookup is answered: a member some view asked for under this           *)
(* generation is held, or is none, once nothing about it is on its way     *)
(* (memberLookup.ts asks once per generation, so an answer that was        *)
(* dropped would be missed until the next).                                *)
LookupsAreAnswered ==
  up /\ meta # None /\ (\A i \in DOMAIN packets : packets[i].kind # "auth") =>
    \A u \in asked : meta.refetching \/ OnItsWay(u)
      \/ (\E m \in rows : m.uid = u) \/ (\A m \in past[meta.age] : m.uid # u)

(* The list does not stay behind: what is being fetched arrives, or is     *)
(* given up, and the client reaches the server's last change.              *)
Behind == meta = None \/ meta.refetching \/ meta.loadingMore \/ meta.age # age
CatchesUp == Behind ~> ~Behind
=============================================================================
