--------------------------- MODULE ChannelHistory ---------------------------
(***************************************************************************)
(* What the desktop client holds of one text channel, and how it keeps it  *)
(* in step with the community server: stores/chatStore.ts (the slice),     *)
(* features/chat/ChatPanel.tsx (visits, paging, jumps, sends, deletes),    *)
(* features/chat/historyRequests.ts (the waits on page replies),           *)
(* features/chat/sendPacing.ts (the echo watchdog), and the two event      *)
(* handlers that feed the store, useChatEvents.ts and useServerEvents.ts.  *)
(*                                                                         *)
(* Two lanes bring the server's packets to the store.  `wire` is the       *)
(* connection, read in order and lost with it.  Messages and pages then    *)
(* wait in `jobs`, the queue of the native crypto worker, which outlives   *)
(* the connection; every other packet is handed over as it is read.        *)
(*                                                                         *)
(* The renderer runs one event at a time and the promises a reply settles  *)
(* run before the next event, so a handler and what continues from it are  *)
(* one action.  Everything the renderer keeps is the record `client`; an   *)
(* operator on it is a mutator of the store or a callback.                 *)
(***************************************************************************)
EXTENDS HistoryMerge, Sequences, FiniteSets, SequencesExt

CONSTANTS
  Sends,         \* this client's sends, 1..n in the order they are composed
  OldRows,       \* rows stored before this client came
  MaxPosts,      \* bound: messages of others
  PageLimit,     \* rows in a page
  CheckLimit,    \* rows in a page an echo check asks for
  CheckPages,    \* pages it asks for (ECHO_CHECK_PAGES)
  WindowLimit,   \* rows on either side of a jump's target
  ListCap,       \* rows past which the mounted list trims (MAX_ROWS)
  BackgroundCap, \* rows of a slice nobody trims (BACKGROUND_SLICE_CAP)
  HeldCap,       \* rows held during a re-sync (HELD_CAP)
  WorkerStalls,  \* a key fetch may hold `jobs` up across a reconnect
  PagesWait,     \* pages are asked for only when no newest page is due
  MaxWaits,      \* bound: page requests under way when the user asks for one
  MaxDrops,      \* bound: lost connections
  MaxDeletes,    \* bound: deletes, by this client and by others
  MaxRefusals,   \* bound: sends and deletes refused, deletes timed out
  MaxJumps,      \* bound: jumps to a message
  MaxLosses,     \* bound: pages skipped by the codec, waits cut short
  MaxVisits,     \* bound: times the channel is left
  MaxEvicts,     \* bound: times ten other channels push it out
  MaxSpent       \* bound: all of the above from MaxDrops on, together

ASSUME BoundsAssumption ==
  /\ IsFiniteSet(Sends) /\ Sends \subseteq Nat \ {0}
  /\ {WorkerStalls, PagesWait} \subseteq BOOLEAN
  /\ \A b \in {OldRows, MaxPosts, MaxWaits, MaxDrops, MaxDeletes, MaxRefusals, MaxJumps,
               MaxLosses, MaxVisits, MaxEvicts, MaxSpent} : b \in Nat
  /\ \A b \in {PageLimit, CheckLimit, CheckPages, WindowLimit, ListCap, BackgroundCap,
               HeldCap} : b \in Nat \ {0}

VARIABLES
  log,     \* server: the channel's stored rows
  last,    \* server: the newest id given out
  stored,  \* server: send -> the row it was stored as (0: none)
  up,      \* the connection stands
  wire,    \* server packets on it
  jobs,    \* the crypto worker's queue
  client,  \* the renderer
  spent    \* how much of each bound has been used

vars == <<log, last, stored, up, wire, jobs, client, spent>>

Ids == 1..(OldRows + MaxPosts + Cardinality(Sends))
NoReply == [answered |-> FALSE, newest |-> 0, newer |-> FALSE]
Attempts == 3   \* LATEST_ATTEMPTS

Packet(t) == [t |-> t, id |-> 0, send |-> 0, mode |-> "", cur |-> 0,
              rows |-> {}, more |-> FALSE, newer |-> FALSE]

Init ==
  /\ log = 1..OldRows /\ last = OldRows
  /\ stored = [n \in Sends |-> 0]
  /\ up = TRUE /\ wire = <<>> /\ jobs = <<>>
  /\ client =
       [rows |-> {}, cached |-> FALSE, older |-> FALSE, newer |-> FALSE,
        fetched |-> FALSE, loading |-> FALSE, resyncing |-> FALSE,
        held |-> {}, lapsed |-> FALSE, deleting |-> {},
        bubble |-> [n \in Sends |-> "none"], after |-> [n \in Sends |-> 0],
        check |-> [n \in Sends |-> "new"],
        shown |-> FALSE, bottom |-> TRUE, saved |-> "none",
        lastBefore |-> 0, lastAfter |-> 0, jump |-> 0,
        waits |-> <<>>, asks |-> <<>>, load |-> "idle", tries |-> 0,
        stuck |-> FALSE, resync |-> FALSE, withdrawn |-> {}]
  /\ spent = [drops |-> 0, deletes |-> 0, refusals |-> 0, jumps |-> 0,
              losses |-> 0, visits |-> 0, evicts |-> 0]

Spend(b) ==
  /\ FoldFunction(+, 0, spent) < MaxSpent
  /\ spent' = [spent EXCEPT ![b] = @ + 1]

-----------------------------------------------------------------------------
(* The store's mutators: stores/chatStore.ts.                              *)

Bubbles(c) == {n \in Sends : c.bubble[n] # "none"}

WithoutBubbles(c, ns) ==
  [c EXCEPT !.bubble = [n \in Sends |-> IF n \in ns THEN "none" ELSE @[n]]]

(* A mutant: pages settle no bubble.                                      *)
SettlesNothing(c, rows) == {}

(* settledNonces(): the bubbles whose rows a page holds, by nonce.         *)
Settled(c, rows) == {n \in Bubbles(c) : stored[n] \in rows}

(* holdLive(): an echo shows its bubble as sent.  `lapsed` is the null of   *)
(* heldLive: more arrived than are held.                                   *)
HoldLive(c, id, n) ==
  IF c.lapsed THEN c
  ELSE IF Cardinality(c.held) >= HeldCap THEN [c EXCEPT !.held = {}, !.lapsed = TRUE]
  ELSE [c EXCEPT !.held = @ \cup {id},
                 !.bubble = [m \in Sends |->
                    IF m = n /\ @[m] = "pending" THEN "sent" ELSE @[m]]]

(* A background slice keeps its newest BackgroundCap entries.              *)
KeepNewest(rows, k) == {r \in rows : Cardinality({x \in rows : x > r}) < k}

(* addMessage() of a stored row.                                           *)
AddMessage(c, id, n) ==
  LET merged == [WithoutBubbles(c, {n}) EXCEPT !.rows = @ \cup {id},
                                               !.cached = TRUE]
      over == Cardinality(merged.rows) + Cardinality(Bubbles(merged))
                > BackgroundCap
  IN IF c.newer
       THEN IF c.resyncing THEN HoldLive(c, id, n) ELSE c
     ELSE IF c.shown THEN merged
     ELSE IF ~c.cached /\ ~c.loading THEN c
     ELSE IF ~over THEN merged
     ELSE IF c.saved = "up" /\ Bubbles(merged) = {} THEN [c EXCEPT !.newer = TRUE]
     ELSE [merged EXCEPT
             !.rows = KeepNewest(@, BackgroundCap - Cardinality(Bubbles(merged))),
             !.older = TRUE]

(* releaseHeld(): what waited goes in above the page.                      *)
ReleaseHeld(c) ==
  [WithoutBubbles(c, {n \in Sends : stored[n] \in c.held})
     EXCEPT !.rows = ApplyHeld(@, c.held), !.held = {}, !.lapsed = FALSE]

(* prependHistory(): a newest or an older page.                            *)
PrependHistory(c, p) ==
  LET m == MergeOlder(c.rows, p.rows \ c.deleting, p.mode = "latest")
      merged == [WithoutBubbles(c, Settled(c, p.rows)) EXCEPT
                   !.rows = m.rows, !.cached = TRUE,
                   !.older = IF m.headExtended THEN p.more ELSE @,
                   !.newer = IF m.reachedNewest THEN FALSE ELSE @]
  IN IF c.resyncing /\ m.reachedNewest THEN ReleaseHeld(merged) ELSE merged

(* appendNewer(): the rows above a cursor.                                 *)
AppendNewer(c, p) ==
  LET m == MergeNewer(c.rows, p.rows \ c.deleting, p.cur)
      merged == [WithoutBubbles(c, Settled(c, p.rows)) EXCEPT
                   !.rows = m.rows,
                   !.cached = @ \/ m.applied,
                   !.newer = IF m.applied THEN @ /\ p.newer ELSE @]
  IN IF c.resyncing /\ m.applied /\ c.newer /\ ~p.newer
       THEN ReleaseHeld(merged) ELSE merged

(* setChannelWindow(): a jump's window replaces the slice.                 *)
SetChannelWindow(c, p) ==
  [WithoutBubbles(c, Sends) EXCEPT
     !.rows = p.rows, !.cached = TRUE, !.fetched = TRUE,
     !.older = p.more, !.newer = p.newer]

(* removeMessage() and clearPendingDeletion(): a row was deleted.          *)
RemoveMessage(c, id) ==
  [c EXCEPT !.rows = @ \ {id}, !.deleting = @ \ {id}, !.held = @ \ {id}]

(* restorePendingDeletion(): the snapshot goes back in by id.              *)
RestorePendingDeletion(c, id) ==
  IF id \in c.deleting
    THEN [c EXCEPT !.rows = @ \cup {id}, !.cached = TRUE, !.deleting = @ \ {id}]
    ELSE c

(* Every per-channel entry goes (markServerStale, LRU eviction).           *)
Dropped(c) ==
  [WithoutBubbles(c, Sends) EXCEPT
     !.rows = {}, !.cached = FALSE, !.older = FALSE, !.newer = FALSE,
     !.fetched = FALSE, !.loading = FALSE, !.saved = "none"]

(* A mutant: cached slices are kept as they are.                          *)
MarkNothing(c) == c

(* markServerStale(), for a channel that is not on screen.                 *)
MarkStale(c) ==
  IF c.shown THEN c
  ELSE IF Bubbles(c) # {} \/ (c.rows # {} /\ c.saved = "up")
    THEN [c EXCEPT !.newer = TRUE, !.loading = FALSE]
  ELSE Dropped(c)

(* setResyncing() on and off.                                              *)
SetResyncing(c, on) ==
  [c EXCEPT !.held = {}, !.lapsed = FALSE, !.resyncing = on,
            !.newer = @ \/ on]

-----------------------------------------------------------------------------
(* Requests and the waits on their replies: historyRequests.ts.            *)

(* A request, and the wait on its reply.  Newest and older pages are       *)
(* awaited in order, the others by cursor.                                 *)
Request(mode, cur, limit) == [t |-> "page", mode |-> mode, id |-> cur, limit |-> limit]
WaitOn(mode, cur, by, arg) ==
  [mode |-> IF mode = "latest" THEN "before" ELSE mode,
   cur |-> IF mode \in {"latest", "before"} THEN 0 ELSE cur, by |-> by, arg |-> arg,
   page |-> 1]

(* track(): both at once.                                                  *)
Track(c, request, wait) ==
  [c EXCEPT !.asks = Append(@, request), !.waits = Append(@, wait)]
Ask(c, mode, cur, limit, by, arg) ==
  Track(c, Request(mode, cur, limit), WaitOn(mode, cur, by, arg))

(* A mutant: the re-sync does not end with its load.                       *)
LoadEndsResyncing(c) ==
  [c EXCEPT !.load = "idle", !.tries = 0, !.loading = FALSE, !.resync = FALSE]

(* The re-sync awaits a load, and ends with it.                            *)
ResyncOver(c) == IF c.resync THEN SetResyncing([c EXCEPT !.resync = FALSE], FALSE) ELSE c

(* The end of loadLatestChannelPage(), and of the re-sync that awaited it. *)
LoadEnds(c) ==
  ResyncOver([c EXCEPT !.load = "idle", !.tries = 0, !.loading = FALSE])

(* loadLatestChannelPage(): one load per channel at a time, and a second   *)
(* caller shares the first.  A load begun without a connection is over     *)
(* before it is put in latestChannelLoads, and stays there: it is `stuck`, *)
(* and all later callers share its end.                                    *)
LoadLatest(c) ==
  IF c.load # "idle" THEN c
  ELSE IF c.stuck THEN ResyncOver(c)
  ELSE IF ~up THEN [LoadEnds(c) EXCEPT !.stuck = TRUE]
  ELSE Ask([c EXCEPT !.loading = TRUE, !.load = "asked"], "latest", 0, PageLimit, "latest", 0)

(* A mutant: the text is not put back.                                     *)
WithdrawSilently(c, n) == [WithoutBubbles(c, {n}) EXCEPT !.check[n] = "off"]

(* removeMessageByNonce() by the echo watchdog, with the text put back.    *)
Withdraw(c, n) ==
  [WithoutBubbles(c, {n}) EXCEPT !.check[n] = "off", !.withdrawn = @ \cup {n}]

(* The page from where the send was composed, or from the last row seen.   *)
SinceMode(from) == IF from > 0 THEN "after" ELSE "latest"
CheckOn(n, from, page) == [WaitOn(SinceMode(from), from, "check", n) EXCEPT !.page = page]
AskSince(c, n, from, page) ==
  Track([c EXCEPT !.check[n] = "asking"], Request(SinceMode(from), from, CheckLimit),
        CheckOn(n, from, page))

(* A mutant: the bubble is not looked at again after the reply.            *)
WithdrawsAnyway(c, w, reply) == Withdraw(c, w.arg)

(* The body of askServer() after a reply, and the end of checkEcho().      *)
CheckGoesOn(c, w, reply) ==
  IF c.bubble[w.arg] # "pending" THEN [c EXCEPT !.check[w.arg] = "off"]
  ELSE IF /\ reply.answered /\ w.mode = "after" /\ reply.newer /\ reply.newest > w.cur
          /\ w.page < CheckPages
    THEN AskSince(c, w.arg, reply.newest, w.page + 1)
  ELSE Withdraw(c, w.arg)

(* What the caller of a request does with its reply, or without one.       *)
Continue(c, w, reply) ==
  CASE w.by = "latest" ->
         IF reply.answered \/ c.tries >= Attempts - 1 THEN LoadEnds(c)
         ELSE [c EXCEPT !.load = "delay"]
    [] w.by = "older" ->
         IF ~reply.answered /\ c.lastBefore = w.arg
           THEN [c EXCEPT !.lastBefore = 0] ELSE c
    [] w.by = "newer" ->
         IF ~reply.answered /\ c.lastAfter = w.arg
           THEN [c EXCEPT !.lastAfter = 0] ELSE c
    [] w.by = "jump" ->
         IF c.jump # w.arg \/ (reply.answered /\ c.shown /\ w.arg \in c.rows)
           THEN c ELSE [c EXCEPT !.jump = 0, !.loading = FALSE]
    [] w.by = "check" -> CheckGoesOn(c, w, reply)

(* abandon(): every wait ends without a reply.  Continue of each of them in  *)
(* turn, written at once: what they change does not meet.                  *)
Abandon(c) ==
  LET By(k) == {c.waits[i].arg : i \in {j \in DOMAIN c.waits : c.waits[j].by = k}}
      unsure == {n \in By("check") : c.bubble[n] = "pending"}
      ended == [WithoutBubbles(c, unsure) EXCEPT
                  !.waits = <<>>,
                  !.check = [n \in Sends |-> IF n \in By("check") THEN "off" ELSE @[n]],
                  !.withdrawn = @ \cup unsure,
                  !.lastBefore = IF @ \in By("older") THEN 0 ELSE @,
                  !.lastAfter = IF @ \in By("newer") THEN 0 ELSE @,
                  !.loading = @ /\ ~(c.jump \in By("jump")),
                  !.jump = IF @ \in By("jump") THEN 0 ELSE @]
  IN IF By("latest") = {} THEN ended
     ELSE IF c.tries >= Attempts - 1 THEN LoadEnds(ended)
     ELSE [ended EXCEPT !.load = "delay"]

(* settle(): the wait a page answers.                                      *)
Settle(c, p) ==
  LET i == SelectInSeq(c.waits, LAMBDA w :
             IF p.mode \in {"latest", "before"} THEN w.mode = "before"
                                                ELSE w.mode = p.mode /\ w.cur = p.cur)
      reply == [answered |-> TRUE, newest |-> Newest(p.rows), newer |-> p.newer]
  IN IF i = 0 THEN c
     ELSE Continue([c EXCEPT !.waits = RemoveAt(@, i)], c.waits[i], reply)

-----------------------------------------------------------------------------
(* The community server: one thread, so replies and pushes leave in the    *)
(* order of the requests and posts they are about.                         *)

KeepOldest(rows, k) == {r \in rows : Cardinality({x \in rows : x < r}) < k}

(* fetch_messages(), fetch_messages_around(), fetch_messages_after().      *)
PageFor(a) ==
  LET below == CASE a.mode = "latest" -> log
                 [] a.mode = "before" -> {r \in log : r < a.id}
                 [] a.mode = "around" -> {r \in log : r <= a.id}
                 [] a.mode = "after"  -> {}
      above == IF a.mode \in {"around", "after"} THEN {r \in log : r > a.id} ELSE {}
  IN [Packet("page") EXCEPT
        !.mode = a.mode, !.cur = a.id,
        !.rows = KeepNewest(below, a.limit) \cup KeepOldest(above, a.limit),
        !.more = Cardinality(below) > a.limit,
        !.newer = Cardinality(above) > a.limit]

Push(packets) == wire' = IF up THEN wire \o packets ELSE wire

StoredOfSends == {n \in Sends : stored[n] # 0}

(* CHANNEL_MSG of another member.                                          *)
Post ==
  /\ last < OldRows + MaxPosts + Cardinality(StoredOfSends)
  /\ last' = last + 1 /\ log' = log \cup {last + 1}
  /\ Push(<<[Packet("msg") EXCEPT !.id = last + 1]>>)
  /\ UNCHANGED <<stored, up, jobs, client, spent>>

(* A moderator, another device, or the pruning removes a row.              *)
ServerDelete(id) ==
  /\ id \in log /\ spent.deletes < MaxDeletes /\ Spend("deletes")
  /\ log' = log \ {id}
  /\ Push(<<[Packet("deleted") EXCEPT !.id = id]>>)
  /\ UNCHANGED <<last, stored, up, jobs, client>>

Served == client' = [client EXCEPT !.asks = Tail(@)]
NextAsk(t) == up /\ client.asks # <<>> /\ Head(client.asks).t = t

(* CHANNEL_MSG of this client: stored, and echoed with its nonce.          *)
StoreSend ==
  /\ NextAsk("send") /\ Served
  /\ LET n == Head(client.asks).id IN
       /\ last' = last + 1 /\ log' = log \cup {last + 1}
       /\ stored' = [stored EXCEPT ![n] = last + 1]
       /\ Push(<<[Packet("msg") EXCEPT !.id = last + 1, !.send = n]>>)
  /\ UNCHANGED <<up, jobs, spent>>

(* Refused: rate, slowmode, permission.                                    *)
RefuseSend ==
  /\ NextAsk("send") /\ Served /\ spent.refusals < MaxRefusals /\ Spend("refusals")
  /\ Push(<<[Packet("rejected") EXCEPT !.send = Head(client.asks).id]>>)
  /\ UNCHANGED <<log, last, stored, up, jobs>>

(* CHANNEL_HISTORY_REQ.                                                    *)
ServePage ==
  /\ NextAsk("page") /\ Served
  /\ Push(<<PageFor(Head(client.asks))>>)
  /\ UNCHANGED <<log, last, stored, up, jobs, spent>>

(* MESSAGE_DELETE_REQ: a row that is gone is refused.                      *)
ServeDelete ==
  /\ NextAsk("delete") /\ Served
  /\ LET id == Head(client.asks).id
         ack == [Packet("ack") EXCEPT !.id = id, !.more = id \in log] IN
       /\ log' = log \ {id}
       /\ Push(IF id \in log THEN <<ack, [Packet("deleted") EXCEPT !.id = id]>>
                             ELSE <<ack>>)
  /\ UNCHANGED <<last, stored, up, jobs, spent>>

-----------------------------------------------------------------------------
(* The events the renderer is handed.                                      *)

(* The wanted row is in the slice: the list lands on it.                   *)
JumpLands(c) ==
  IF c.shown /\ c.jump # 0 /\ c.jump \in c.rows
    THEN [c EXCEPT !.jump = 0, !.bottom = FALSE] ELSE c

(* channel_history_received: routed by the mode the server echoes.         *)
OnHistory(c, p) ==
  LET merged == CASE p.mode = "around" -> SetChannelWindow(c, p)
                  [] p.mode = "after"  -> AppendNewer(c, p)
                  [] OTHER             -> PrependHistory(c, p)
      noted == [merged EXCEPT !.loading = FALSE,
                              !.fetched = @ \/ p.mode # "after"]
  IN JumpLands(Settle(noted, p))

(* ChatPanel's re-sync of the channel on screen.                           *)
Resync(c) ==
  LET r == [c EXCEPT !.lastBefore = 0, !.lastAfter = 0, !.jump = 0]
  IN IF c.rows # {} /\ c.fetched /\ (c.newer \/ ~c.bottom)
       THEN [r EXCEPT !.newer = TRUE]
     ELSE IF c.rows # {}
       THEN LoadLatest([SetResyncing(r, TRUE) EXCEPT !.resync = TRUE])
     ELSE LoadLatest(r)

(* checkEcho() goes on, or gives up on a bubble that was settled.          *)
CheckServer(c, n) ==
  IF c.bubble[n] = "pending" THEN AskSince(c, n, c.after[n], 1)
                             ELSE [c EXCEPT !.check[n] = "off"]

(* A mutant: a check that waits is forgotten.                              *)
ForgetsChecks(c) == c

(* resyncEpoch moved: the checks that waited for a connection go on, each  *)
(* as CheckServer does.                                                    *)
ResumeChecks(c) ==
  LET waiting == {n \in Sends : c.check[n] = "waiting"}
      ns == SetToSeq({n \in waiting : c.bubble[n] = "pending"})
      from(i) == c.after[ns[i]]
  IN [c EXCEPT
        !.check = [n \in Sends |-> IF n \notin waiting THEN @[n]
                                   ELSE IF c.bubble[n] = "pending" THEN "asking" ELSE "off"],
        !.asks = @ \o [i \in DOMAIN ns |-> Request(SinceMode(from(i)), from(i), CheckLimit)],
        !.waits = @ \o [i \in DOMAIN ns |-> CheckOn(ns[i], from(i), 1)]]

(* community_auth_responded.  What awaited the abandoned replies runs      *)
(* after the handler; the effect that re-syncs, after that.                *)
OnAuth(c) ==
  LET resumed == ResumeChecks(Abandon(MarkStale(c)))
  IN IF c.shown THEN Resync(resumed) ELSE resumed

(* channel_message_rejected, channel_message_delete_responded and          *)
(* channel_message_deleted are handed over as they are read.               *)
OnDirect(c, p) ==
  CASE p.t = "auth"     -> OnAuth(c)
    [] p.t = "rejected" -> IF c.bubble[p.send] # "none" THEN Withdraw(c, p.send) ELSE c
    [] p.t = "deleted"  -> RemoveMessage(c, p.id)
    [] p.t = "ack"      -> IF p.more THEN [c EXCEPT !.deleting = @ \ {p.id}]
                                     ELSE RestorePendingDeletion(c, p.id)

(* route_packets(): messages and pages go to the worker.                   *)
Read ==
  /\ wire # <<>> /\ wire' = Tail(wire)
  /\ IF Head(wire).t \in {"msg", "page"}
       THEN jobs' = Append(jobs, Head(wire)) /\ UNCHANGED client
       ELSE client' = OnDirect(client, Head(wire)) /\ UNCHANGED jobs
  /\ UNCHANGED <<log, last, stored, up, spent>>

(* run_worker(): message_received and channel_history_received.            *)
Work ==
  /\ jobs # <<>> /\ jobs' = Tail(jobs)
  /\ client' = IF Head(jobs).t = "msg"
                 THEN AddMessage(client, Head(jobs).id, Head(jobs).send)
                 ELSE OnHistory(client, Head(jobs))
  /\ UNCHANGED <<log, last, stored, up, wire, spent>>

(* Native skips a frame past its cap.                                      *)
SkipFrame ==
  /\ wire # <<>> /\ Head(wire).t = "page"
  /\ spent.losses < MaxLosses /\ Spend("losses")
  /\ wire' = Tail(wire)
  /\ UNCHANGED <<log, last, stored, up, jobs, client>>

(* connection_lost.                                                        *)
Drop ==
  /\ up /\ spent.drops < MaxDrops /\ Spend("drops")
  /\ up' = FALSE /\ wire' = <<>>
  /\ client' = Abandon([client EXCEPT !.asks = <<>>])
  /\ UNCHANGED <<log, last, stored, jobs>>

(* start_reconnect(): back after its backoff, authenticating.              *)
Reconnect ==
  /\ ~up /\ (WorkerStalls \/ jobs = <<>>)
  /\ up' = TRUE /\ wire' = <<Packet("auth")>>
  /\ UNCHANGED <<log, last, stored, jobs, client, spent>>

-----------------------------------------------------------------------------
(* The user, the list, and the timers.                                     *)

OnScreen == client.shown

(* The connection stands and community_auth_responded was handed over.      *)
InStep == up /\ \A k \in DOMAIN wire : wire[k].t # "auth"
MayAsk ==
  /\ OnScreen /\ up /\ (PagesWait => InStep /\ client.load = "idle")
  /\ Len(client.waits) < MaxWaits

Renderer(c) == client' = c /\ UNCHANGED <<log, last, stored, up, wire, jobs>>

(* onScrollState: at the bottom or not.                                    *)
Scroll ==
  /\ OnScreen /\ client.rows # {}
  /\ Renderer([client EXCEPT !.bottom = ~@]) /\ UNCHANGED spent

(* setScrollPosition() on the way out; the panel's refs are shared by the  *)
(* channels, and all but lastBefore are reset by the switch.               *)
Leave ==
  /\ OnScreen /\ spent.visits < MaxVisits /\ Spend("visits")
  /\ Renderer([client EXCEPT !.shown = FALSE, !.jump = 0, !.lastAfter = 0,
                             !.saved = IF client.bottom THEN "bottom" ELSE "up"])

(* First visits load the newest page; the list restores its place.         *)
Visit ==
  /\ ~OnScreen
  /\ LET c == [client EXCEPT !.shown = TRUE,
                             !.bottom = client.saved # "up" \/ client.rows = {}]
     IN Renderer(IF c.fetched THEN c ELSE LoadLatest(c))
  /\ UNCHANGED spent

(* setActiveChannel() of the tenth other channel.                          *)
Evict ==
  /\ ~OnScreen /\ (client.cached \/ client.fetched)
  /\ spent.evicts < MaxEvicts /\ Spend("evicts")
  /\ Renderer(Dropped(client))

(* The retry button of a page that never came, and RETRY_DELAY_MS.         *)
RetryLoad ==
  /\ client.load = "delay"
  /\ Renderer(IF up THEN Ask([client EXCEPT !.tries = @ + 1, !.load = "asked"],
                             "latest", 0, PageLimit, "latest", 0)
                    ELSE LoadEnds(client))
  /\ UNCHANGED spent

RetryPressed ==
  /\ OnScreen /\ up /\ client.load = "idle" /\ ~client.fetched
  /\ Renderer(LoadLatest(client)) /\ UNCHANGED spent

(* maybeLoadOlderHistory(), near the top.                                  *)
LoadOlder ==
  /\ MayAsk /\ client.fetched /\ client.older /\ client.rows # {}
  /\ LET oldest == Oldest(client.rows) IN
       /\ oldest # client.lastBefore
       /\ Renderer(Ask([client EXCEPT !.lastBefore = oldest],
                       "before", oldest, PageLimit, "older", oldest))
  /\ UNCHANGED spent

(* maybeLoadNewerHistory(), near the bottom of a windowed slice.           *)
LoadNewer ==
  /\ MayAsk /\ client.newer /\ ~client.resyncing /\ client.rows # {}
  /\ LET newest == Newest(client.rows) IN
       /\ newest # client.lastAfter
       /\ Renderer(Ask([client EXCEPT !.lastAfter = newest],
                       "after", newest, PageLimit, "newer", newest))
  /\ UNCHANGED spent

(* jumpToPresent(), with resetChannelForJump().                            *)
JumpToPresent ==
  /\ OnScreen /\ client.newer /\ ~client.resyncing
  /\ spent.jumps < MaxJumps /\ Spend("jumps")
  /\ Renderer(LoadLatest([client EXCEPT
       !.rows = {}, !.cached = TRUE, !.older = TRUE, !.newer = FALSE,
       !.fetched = FALSE, !.bottom = TRUE, !.saved = "bottom",
       !.jump = 0, !.lastBefore = 0, !.lastAfter = 0]))

(* jumpToMessage() of a row the slice does not hold.                       *)
JumpTo(id) ==
  /\ MayAsk /\ id \in 1..last \ client.rows /\ id # client.jump
  /\ spent.jumps < MaxJumps /\ Spend("jumps")
  /\ Renderer(Ask([client EXCEPT !.jump = id, !.lastBefore = 0, !.lastAfter = 0,
                                 !.loading = TRUE],
                  "around", id, WindowLimit, "jump", id))

(* The list cuts what is far from the viewport: trimTail(), trimHead().    *)
Overflowing == OnScreen /\ Cardinality(client.rows) + Cardinality(Bubbles(client)) > ListCap

TrimTail(keep) ==
  /\ Overflowing /\ ~client.bottom /\ Bubbles(client) = {}
  /\ keep < Cardinality(client.rows)
  /\ Renderer([client EXCEPT !.rows = KeepOldest(@, keep), !.newer = TRUE])
  /\ UNCHANGED spent

TrimHead(keep) ==
  /\ Overflowing /\ keep < Cardinality(client.rows)
  /\ Renderer([client EXCEPT !.rows = KeepNewest(@, keep), !.older = TRUE])
  /\ UNCHANGED spent

(* handleSend(): a bubble at the tail of a slice that is at the present,   *)
(* or will be when its re-sync ends.                                       *)
Compose(n) ==
  /\ OnScreen /\ ~(client.newer /\ ~client.resyncing)
  /\ client.check[n] = "new" /\ \A m \in Sends : m < n => client.check[m] # "new"
  /\ Renderer([client EXCEPT !.bubble[n] = "pending", !.check[n] = "queued",
                             !.after[n] = Newest(client.rows), !.cached = TRUE])
  /\ UNCHANGED spent

(* send_channel_message once the uploads are done and the bucket admits it.*)
Transmit(n) ==
  /\ client.check[n] = "queued"
  /\ Renderer(IF up THEN [client EXCEPT !.check[n] = "armed",
                                        !.asks = Append(@, [t |-> "send", id |-> n])]
                    ELSE Withdraw(client, n))
  /\ UNCHANGED spent

(* watchEcho()'s ECHO_TIMEOUT_MS, and checkEcho() up to its first wait.    *)
EchoTimer(n) ==
  /\ client.check[n] = "armed"
  /\ Renderer(IF client.bubble[n] = "pending" /\ ~up
                THEN [client EXCEPT !.check[n] = "waiting"]
                ELSE CheckServer(client, n))
  /\ UNCHANGED spent

(* snapshotAndRemove() and the request.                                    *)
DeleteMine(id) ==
  /\ OnScreen /\ up /\ id \in client.rows
  /\ spent.deletes < MaxDeletes /\ Spend("deletes")
  /\ Renderer([client EXCEPT !.rows = @ \ {id}, !.deleting = @ \cup {id},
                             !.asks = Append(@, [t |-> "delete", id |-> id])])

(* The watchdog of a delete nobody answered.                               *)
DeleteTimeout(id) ==
  /\ id \in client.deleting /\ spent.refusals < MaxRefusals /\ Spend("refusals")
  /\ Renderer(RestorePendingDeletion(client, id))

(* A mutant: the wait ends and nobody is told.                             *)
ExpireSilently(i) == Renderer([client EXCEPT !.waits = RemoveAt(@, i)])

(* REPLY_TIMEOUT_MS.  A wait can end before its reply comes; one whose     *)
(* reply was lost always ends.                                             *)
Expire(i) ==
  Renderer(Continue([client EXCEPT !.waits = RemoveAt(@, i)], client.waits[i], NoReply))

ReplyTimeout(i) ==
  /\ spent.losses < MaxLosses /\ Spend("losses") /\ Expire(i)

NothingComes ==
  /\ \A k \in DOMAIN client.asks : client.asks[k].t # "page"
  /\ \A k \in DOMAIN wire : wire[k].t \notin {"page", "auth"}
  /\ \A k \in DOMAIN jobs : jobs[k].t # "page"

LostReply ==
  /\ client.waits # <<>> /\ NothingComes
  /\ Expire(1) /\ UNCHANGED spent

-----------------------------------------------------------------------------
Serve == StoreSend \/ RefuseSend \/ ServePage \/ ServeDelete
Transport == Read \/ Work \/ SkipFrame \/ Drop \/ Reconnect
User ==
  \/ Scroll \/ Leave \/ Visit \/ Evict \/ RetryPressed
  \/ LoadOlder \/ LoadNewer \/ JumpToPresent
  \/ \E id \in Ids : JumpTo(id) \/ DeleteMine(id)
  \/ \E keep \in 1..ListCap : TrimTail(keep) \/ TrimHead(keep)
  \/ \E n \in Sends : Compose(n)
Timers ==
  \/ RetryLoad \/ LostReply
  \/ \E n \in Sends : Transmit(n) \/ EchoTimer(n)
  \/ \E i \in DOMAIN client.waits : ReplyTimeout(i)
  \/ \E id \in Ids : DeleteTimeout(id)

Next ==
  \/ Post \/ (\E id \in Ids : ServerDelete(id))
  \/ Serve \/ Transport \/ User \/ Timers

Spec == Init /\ [][Next]_vars

(* The server serves, the connection, the worker and the timers run: as    *)
(* long as one of them has something to do, something is done.             *)
Progress ==
  \/ StoreSend \/ ServePage \/ ServeDelete \/ Read \/ Work \/ Reconnect
  \/ RetryLoad \/ LostReply
  \/ \E n \in Sends : Transmit(n) \/ EchoTimer(n)

Busy ==
  \/ wire # <<>> \/ jobs # <<>> \/ client.load = "delay"
  \/ up /\ client.asks # <<>>
  \/ ~up /\ (WorkerStalls \/ jobs = <<>>)
  \/ client.waits # <<>> /\ NothingComes
  \/ \E n \in Sends : client.check[n] \in {"queued", "armed"}

(* WF_vars(Progress): Busy is ENABLED <<Progress>>_vars, spelled out since  *)
(* TLC evaluates ENABLED of these actions slowly.                          *)
FairSpec == Spec /\ ([]<>~Busy \/ []<><<Progress>>_vars)

-----------------------------------------------------------------------------
(* No stored row is missing between two rows of the slice, whatever pages, *)
(* live rows and deletes came in whatever order (mergeStoredPage, holdLive *)
(* and addMessage exist for this).                                         *)
Contiguous == Hidden(client.rows, log) \subseteq client.deleting

InFlight(id) ==
  \/ \E k \in DOMAIN wire : wire[k].t = "msg" /\ wire[k].id = id
  \/ \E k \in DOMAIN jobs : jobs[k].t = "msg" /\ jobs[k].id = id

(* hasMoreAfter = false means "at present (newest is loaded)": such a      *)
(* slice holds every stored row from its oldest up, or it is on its way.   *)
AtPresent ==
  InStep /\ client.fetched /\ ~client.newer /\ client.rows # {} =>
    \A r \in log : r > Oldest(client.rows) =>
      r \in client.rows \cup client.deleting \/ InFlight(r)

(* A send is never shown twice, as its bubble and as its row: every way a  *)
(* row enters the slice settles the bubble it confirms.                    *)
DisplayedOnce ==
  \A n \in Sends : stored[n] \in client.rows => client.bubble[n] = "none"

OnItsWay(n) ==
  \/ client.check[n] = "queued"
  \/ \E k \in DOMAIN client.asks : client.asks[k].t = "send" /\ client.asks[k].id = n
  \/ \E k \in DOMAIN wire : wire[k].t = "rejected" /\ wire[k].send = n

(* A composed text is in a bubble, stored, under way, or handed back to    *)
(* the message box (handleSend, channel_message_rejected, checkEcho).      *)
NoTextVanishes ==
  \A n \in Sends :
    \/ client.check[n] = "new" \/ client.bubble[n] # "none" \/ stored[n] # 0
    \/ n \in client.withdrawn \/ OnItsWay(n)

(* "Only a send the server doesn't have is withdrawn" (sendPacing.ts).     *)
WithdrawnIsNotStored == \A n \in client.withdrawn : stored[n] \notin log

(* "Loading history" comes to an end, with or without a page.              *)
LoadingEnds == client.loading ~> ~client.loading

(* A re-sync, during which live rows wait, comes to an end.                *)
ResyncEnds == client.resyncing ~> ~client.resyncing

(* A pending bubble gets its row, or its text is handed back.              *)
SendSettles == \A n \in Sends : client.bubble[n] = "pending" ~> client.bubble[n] # "pending"
=============================================================================
