# Decibell, specified in TLA+

Decibell is a chat application: a central server for accounts, presence, direct
messages and direct calls; community servers that anybody may run, with text and
voice channels and screen sharing; an Electron client with a Rust core. This
directory models the parts of it whose correctness depends on the order in which
many parties act, checks them with TLC and proves about them with TLAPS. All line
numbers are those of the sources named beside them; `PROJECT.json` maps every
definition to its lines.

## The system

| Component | State | Operations | What is hard |
|---|---|---|---|
| **Central: call registry** (`server/main.cpp`, `SessionManager`) | `calls_`, `call_index_` | `route_call` for every kind of signal, `call_leave_locked`, `reattach_locked`, `sweep_calls` | several devices of one account; reconnects in the middle of a call; raw pointers in the index; nobody may ring or wait for ever |
| **Central: connections, presence, subscriptions** (same class) | `sessions_`, `accounts_`, `watchers_` | `join`, `bind`, `leave`, `retire`, `update_presence`, `set_idle`, `watch` | a thread pool; what is decided under the mutex is posted after it; logins use what they read before; invisible accounts |
| **Community: voice channels, streams, MLS relay** (`community/main.cpp`, `SessionManager`) | `voice_channels_`, `active_streams_`, `stream_watchers_`, `mls_groups_`, `voice_passes_`, `latest_thumbnails_`, `udp_key_index_`, `sessions_by_user_` | join, leave, be moved, stream, watch, commit, be removed, be evicted | several sessions of one user (devices, or a reconnect and its stale session), tables keyed by user and tables keyed by session |
| **Client: channel history and sends** (`historyMerge.ts`, `chatStore.ts`, `historyRequests.ts`, `sendPacing.ts`, `ChatPanel.tsx`) | the slice of a channel's rows, bubbles of unconfirmed sends, waits on page replies | page up and down, jump, live rows, send, delete, trim, evict, re-sync | two lanes of packets, one of which outlives the connection; pages in the wrong order; replies that never come |
| **Client: call handshake** (`callStore.ts`, `callActions.ts`, `useCallEvents.ts`, `call.rs`) | the renderer's call, its timers, `pending_call`, `active_call` | place, answer, cancel, hang up, prepare, connect, end | native commands run beside each other and finish when the call may be another one; signals cross |
| **Client: member list** (`chatStore.ts`, `useServerEvents.ts`, `MembersList.tsx`, `memberLookup.ts`, `rosterOrder.ts`) and the roster of the community server | `MemberRosterMeta`, rows, lookups; `roster_revision_` | page, look up, delta, refetch | two first pages under way; revisions that start again |
| **Central: devices, tokens, passwords** (`auth_manager.cpp`) | `devices`, `revoked_sessions`, `users` tables | sign in, resume, sign out, change the password, prune | statements of two handlers interleave; a login beside a sign-out |
| **Central: direct messages, friends, blocks** | tables, delivery to every device | send, edit, delete, read state, relations | delivery against sign-in; read cursors |
| **Central: transport and limits** (`abuse_limits.hpp`, `pg_pool.hpp`) | handler gate, write queues, connection pool, throttles | start and end of handlers, writes, overflow | queues at their limit |
| **Community: authorisation** (`authz.hpp`, `db.cpp`) | roles, overwrites, voice passes | permission of a member in a channel | order of overwrites, hierarchy |
| **Community: messages and channels** | SQLite, pacing buckets, the held packet | send, edit, pin, react; channels and categories | a held packet runs later than it was checked |
| **Community: encrypted channel keys** | epochs, escrowed blobs, requests to fillers | new epoch, fill, removal of a member | two new epochs at once; a filler that goes |
| **Community: membership and central sync** (`central_sync.hpp`) | queue to the central server, pulled revocations | register, revoke, pull | an unreachable central server |
| **Community: attachments** (`attachment_http.cpp`, `db.cpp`, the retention sweep) and the client's upload (`uploadAttachment.ts`) | attachment rows, `.partial` and final files, open writers; the client's offset and tries | reserve, PATCH, complete, bind, remove, purge, sweep | a row and its files do not change together; requests whose sender has gone are carried on; the process may die anywhere |
| **Community: search, media relay** | full-text index; UDP endpoints | query; forward, migrate | NAT rebinding |
| **Client: connections, encryption, media, views** | reconnect loops, keys, jitter buffer, stores that copy server events | reconnect, rekey, play out, render | lost and reordered packets |

Clients speak to the servers over TCP connections carrying length-prefixed
protobuf packets. The central server handles packets on a thread pool, one at a
time for a connection; `SessionManager` is one object behind one mutex, and a
critical section collects what it has to send in a `Fanout` that is posted after
the unlock. A community server runs all handlers on one io thread; its
`SessionManager` is locked only against the media threads. The client is a native
Rust core (connections, encryption, media) and a renderer (an event loop with
stores and views); the renderer asks native through commands whose results it
awaits, and native hands it events in order.

## The modules

| Module | What it is |
|---|---|
| `CallRegistry` | the call registry of the central server |
| `CallPromise` | what it promises the two accounts of a call (abstract) |
| `PresenceDirectory` | connections, presence and subscriptions of the central server |
| `VoiceDirectory` | the voice half of a community server |
| `HistoryMerge` | how a page is merged into a slice (pure operators) |
| `ChannelHistory` | a client's slice of one channel and its sends, against the server; composes `HistoryMerge` with the store, the waits, the watchdog and the two lanes |
| `CallHandshake` | a call as its clients see it: renderer, native commands, FIFO connections and `route_call` |
| `RosterMirror` | the roster of a community server and a client's mirror of it |
| `Uploads` | an attachment: the sender's upload, the rows and files of the community server, and the sweep |
| `CallRegistryProofs` | theorems about `CallRegistry`: its invariants, its action properties, that it implements `CallPromise` |
| `PresenceDirectoryProofs`, `VoiceDirectoryProofs`, `CallHandshakeProofs`, `RosterMirrorProofs`, `UploadsProofs`, `ChannelHistoryProofs` | theorems about the modules they extend |
| `ChannelSliceProofs` | theorems about the slice of `ChannelHistory`, on top of `ChannelHistoryProofs` |
| `MC...` | the instances TLC checks (`ChannelHistory` and `Uploads` need none) |

A definition whose comment begins "A mutant" is a bug put beside the definition it
would be a bug of; no action uses it. `PROJECT.json` pairs each with the property that
notices it.

### CallRegistry

The registry lives behind `SessionManager`'s mutex, so one action is one critical
section. `call` is `calls_`, `index` is `call_index_` (by connection, the calls it
is in), `stage`/`uid`/`device` are a connection's entry in `sessions_`, `members`
is `Account::sessions`. `replacing` is the one thing a handler remembers between
two critical sections: `finish_login` binds the new connection of a device, which
takes the old one's place in the account, and then retires the old one, which
until then still is in its calls. `sends` is what the last step delivered.

- `Bind`, `RetireReplaced`, `Leave`, `Join` are `bind`, `retire`, `leave`, `join`.
  Signing out is `Forget`: `call_leave_locked` for every call of the connection, in
  which the connection's place goes to another connection of the same device when
  there is one (`Reattached`, `RingsOn`), a call that rings nowhere any more ends
  (`RungOut`) and so does an answered one both sides have left (`Abandoned`).
- `Invite`, `Ringing`, `Accept`, `Busy`, `Decline`, `CallerEnds`, `CalleeEnds`,
  `CallerStreams`, `CalleeStreams`, `LateAccept`, `...TakesPlace` are the branches of
  `route_call`, with the lookup of a missing side (`Reached`) that each of them does
  first.
- Time is three-valued: a clock is off, on, or past the time after which
  `sweep_calls` forgets the call (`RING_KEEP` for an unanswered one, `DETACHED_KEEP`
  for one that lacks a side). `TimeRunsOut` lets it pass, `SweepCalls` is the sweep.

Left out: the checks before `route_call` (blocks, DM privacy, hidden accounts),
which only drop signals; what the signals carry; CANCEL, REJECT and HANGUP are
routed alike and are one kind `END`, STREAM_START and STREAM_STOP are `STREAM`.
`Fanout` posts after the unlock, so the frames of two threads can swap on the way
to a device; here a step and its sends are one.

`CallPromise` is the abstract specification: by call id, nothing, a ringing call
from a device to some devices of another account, fewer and fewer, or a call
between two devices. `Promise == INSTANCE CallPromise WITH calls <- ...` maps the
registry's records to it, forgetting connections, time and the index, and
`KeepsThePromise` says every step of the registry is a step of the promise.

### PresenceDirectory

Here the interleaving is the point, so an action is smaller: one critical section,
one frame posted to one connection (`Post`), or one database statement. `job` is
what a connection's handler is in the middle of: a login that has read the account
and not bound yet (`ReadAccount` is the database read in the LOGIN_REQ handler),
one with an old connection to retire, a status change waiting for `Account::saving`
or holding it and about to save, a subscription still to be answered. `queued` are
the frames collected under the mutex and not posted yet; a handler goes on when its
own are posted. `told` and `heard` are the observer: what a connection was last told
of an account, and whether that was the newest there was to tell.

`saving` names the mutex by the login that made the account: `Account::saving` is
destroyed and made again with its account, and a thread that holds the old one is
alone with it.

Left out: the custom status message and its expiry sweep, names, avatars and
identity keys (pushed to watchers by the same mechanism), the two bulk sign-outs
(`close_device_sessions`, `close_other_sessions`), database failures. Clients do not
subscribe to their own account. Connections are not used twice, so the model may
run out of steps: `CHECK_DEADLOCK FALSE`.

### VoiceDirectory

The community server runs handlers on one thread, so an action is a whole handler
with everything it calls. A session is `new`, authenticated (`in`), `closing` (its
last packets are flushed: `close_after_flush`, it no longer acts but still is in the
tables) or `gone`. `byUser`, `route`, `voice`, `streams`, `watchers`, `group`,
`thumbs` are the maps of `SessionManager`; `here` is `current_voice_channel_`;
`roster`, `channels` and `passes` are the database's members, channels and voice
passes. `sessions_by_user_` is a map of vectors, and eviction and
`voice_channel_of` take the first session that fits: `later` keeps the order, as the
sessions listed behind a session (`Evicted`, `FirstInVoice`).

`Place` is the common part of everything that moves sessions: joining (which first
stops a stream in the old channel), leaving, being moved or disconnected by a
moderator. It combines `stop_stream`, `join_voice_channel` or `leave_voice_channel`,
`mls_drop_if_empty_locked` and `release_voice_pass_if_left`; a moderator's `Move`
and `Disconnect` do it for all sessions of the account, one after the other in the
code, and the operators say what that comes to. `Leave` is `SessionManager::leave`,
with its own treatment of streams and watchers.

Left out: who may moderate (any moderator action may happen), role changes (the
constant `Permitted` is what an account may enter by itself), Stream permission,
codecs and capabilities, mute and deafen, presence broadcasts, rate limits (they
delay a packet), the MLS blobs (a group is its epoch number, capped by `MaxEpoch`).

### HistoryMerge and ChannelHistory

`HistoryMerge` is `lib/historyMerge.ts` over sets of row ids: a slice is an array of
rows by ascending id in the code, so a set says the same. `ChannelHistory` is one
channel on one client. The server is `log` (stored rows), `last` (the newest id) and
`stored` (which row a send became); `wire` is the connection, read in order and lost
with it; `jobs` is the queue of the native crypto worker, through which messages and
pages go and which outlives the connection, while every other packet overtakes it
(`Read`, `Work`). Everything the renderer keeps is the record `client`, and an
operator on it is a mutator of the store (`AddMessage`, `PrependHistory`,
`AppendNewer`, `SetChannelWindow`, `MarkStale`, ...) or a callback. The promises a
reply settles run before the next event, so a handler and what continues from it
(`Settle`, `Continue`, `Abandon`) are one action.

- Pages: `LoadOlder`, `LoadNewer`, `JumpTo`, `JumpToPresent`, `Visit`, `RetryPressed`
  ask (`Ask` is `track()`), `ServePage` answers from the log, `OnHistory` merges. A
  reply may be skipped by the codec (`SkipFrame`), waited for in vain
  (`ReplyTimeout`, `LostReply`), or abandoned with its connection (`Drop`).
- Sends: `Compose`, `Transmit`, then the echo, a refusal, or `EchoTimer` and the
  check of `checkEcho()` through pages from where the send was composed.
- `LoadLatest`: a load begun without a connection is over before it is put in
  `latestChannelLoads`, where it stays; from then on (`stuck`) every load of the channel is
  over at once and asks for nothing, and a re-sync that awaits one ends with it (`ResyncOver`).
- The re-sync after a reconnect: `OnAuth`, `MarkStale`, `Resync`, with the live rows
  that wait in `held` (`HoldLive`, `ReleaseHeld`).
- What shrinks a slice: `TrimTail`, `TrimHead`, the cap of a background channel,
  `Evict`, deletes with their optimistic removal and restoration.

Assumed or left out: edits, reactions and wipes; rows have one size; the community
server remembers nonces for as long as a send is checked; pruning is a delete; ids are
given to rows of this channel only. `WorkerStalls` (a key fetch that holds `jobs` up
across a reconnect) is FALSE in all runs. The twin for direct messages (`dmStore.ts`)
runs the same algorithm and is not modelled apart.

### CallHandshake

A device is a renderer (`call` is `callStore`, `ring` and `missed` are the timers of
`callActions` and `useCallEvents`) and native (`pending` is `AppState::pending_call`,
`active` its `active_call` and engine). A native command is a record in `jobs` that
native takes further (`PrepareBegins`, `PrepareEnds`, `Connect`, `CallEnd`,
`SignalSent`) and whose result the renderer picks up when it comes
(`PrepareReturns`, `SendReturns`, `ConnectFails`), whatever call it is in by then.
Signals are sent by concurrent commands, so they reach the server in any order; `down`
is the connection back. `reg` and `Route` are `route_call` for devices that stay
connected, the part of `CallRegistry` the handshake needs. A punch succeeds when both
ends punch for the same call with each other (`Reaches`).

A call is entered (placed, answered, answered in a glare) whatever native is still doing
for the calls before: the code does not wait either. `CurrentCallIsPrepared` fails because of
it (run `handshake_glare`).

Left out: RINGING, refusals, screen sharing in a call, sounds, the voice channel a call
takes the engine from, and reconnects during a handshake (they are `CallRegistry`'s).

### RosterMirror

`past` keeps the roster as it was at each of its changes and `age` counts them, so what a
packet says can be compared with what was true; the wire carries the revision, `age - born`,
which starts again with the server process. `EmitMemberUpsert` and `EmitMemberRemove`
are the deltas, `ServeList` answers a page (`fill_member_page`: `PageOf`, `NextAfter`) or
a lookup. The renderer asks (`RefetchRoster`, `LoadMore`, `RequestMember`) and applies
(`OnAuth`, `OnPage`, `OnFound`, `OnDelta`, `OnRejected`); `Drawn` is what
`visibleRoster()` shows. `Lose` takes the requests and a suffix of the packets, the
events the renderer has queued stay. `Prompt` says a connection is back only after the
renderer has heard of what the last one left (reconnecting takes seconds).

Left out: counts, roles, the byte budget of a page, refused requests, member search.

### Uploads

The community server runs one handler at a time, and what is hard is that an upload is a
row in SQLite, two file names, and whatever handler still has a file open. `row` is the
attachment's row (with the reason where there is none), `part` and `file` are the
`.partial` and the final file as sets of blocks, `writers` are PATCH handlers that read
their body: `put` of the `got` blocks have left the stdio buffer, and `onto` says which
file the open handle is by now (a rename or an unlink does not close it). `asks` and
`reply` are the requests and the answer under way; a request whose sender has given it up
(`heard` is FALSE) is carried on with all the same.

- The client (`startQueuedUpload()`): `Starts`, `SendsChunk`, `Completes`, `Cancels`,
  `OnReply`, `Disconnects`, and `Sends` for the message whose `bind_attachments()` takes
  what is ready. Only a PATCH is repeated (`Rejected`), with the offset it had.
- Requests: `InitBegins` and `InitEnds` are the row and the empty file of
  `do_init_with_body()`; `HandlePatch`, `Receives`, `FinishPatch` and `WriterDies` one
  PATCH; `CompleteBegins` and `CompleteEnds` the rename and `complete_attachment()`, with
  the name given back when the statement fails.
- Ends: `SweepBegins` and `SweepEnds` (files, then row) are the abandoned uploads of
  `run_retention_sweep()`; `RowGoes` and `FilesGo` (row, then files) are DELETE of an
  upload (`Aborts`), the removal of a message (`MessageGoes`), of a channel or its messages
  (`ChannelGoes`), of the messages past their retention or of who is banned (`Prunes`), and
  `prune_attachments()` (`Purges`). `RemovedOrNot` is where a failed statement is taken for
  done: the row stays, the files go.
- `Crash` may come between the two changes of any of these (`doing`) as anywhere else.
  `HourPasses` and `DayPasses` are the two marks of the clock the sweep looks at.

Left out: thumbnails, downloads, HEAD, sealing, limits and permissions, and a power failure
(what was written reaches the disk).

## What is checked

| Run | Properties | States |
|---|---|---|
| `calls`: one call, five connections (alice's device and its next connection, bob's two devices and the next connection of one) | `IndexMatchesCalls` `PartiesStandForTheirSides` `EveryCallCanEnd` `KeepsThePromise` `NobodyLeftRinging` `TalkersAreNotCutOff` `SignalsStayInTheCall` `RingingEnds` `AbandonedCallEnds` | 60 619 |
| `presence`: a watcher and two connections of the watched account, from one device or two; both change the status, one idles, one watches back | `WatchIndexMatches` `IdleEverywhere` `NothingIsLost` `SavesInOrder` `InvisibleIsAirtight` | 1 628 069 |
| `voice`: three sessions of two accounts in any combination, two channels, one entered by a voice pass only | `NoGhosts` `StreamsStayInTheChannel` `PassEndsWithTheStay` `GroupLastsWithTheMembers` `StreamsEndWithTheirOwner` `UdpFollowsTheNewest` | 333 837 |
| `history`: three old rows, three live ones, pages of two, a lost connection, a delete, a visit to another channel | `Contiguous` `AtPresent` | 883 087 |
| `windows`: a send beside jumps, trims, the cap of a background channel, an eviction, an optimistic delete, a refusal | `DisplayedOnce` `WithdrawnIsNotStored` | 2 439 372 |
| `sends`: a send over a connection that is lost, with a page skipped and a wait cut short | `NoTextVanishes` `LoadingEnds` `ResyncEnds` `SendSettles` | 115 823 |
| `talks`: one call to an account with two devices, one failure or hang-up at any point | `IdleMeansFree` `TalkersAreRegistered` `HandshakeEnds` `AloneEnds` | 586 516 |
| `roster`: three members, pages of one, two changes, a lost connection, a restarted server | `RowsAreTrue` `NoGap` `LookupsAreAnswered` `CatchesUp` | 616 380 |
| `uploads`: three blocks in two PATCHes, each repeated twice, three crashes, lost connections or failures at any point | `ReadyIsWhole` `AckedIsStored` `AbandonedGoes` | 276 715 |
| `presence_flash`, `history_gap`, `handshake_glare` | what a comment says and the code does not keep (findings) | |

**Calls.** `IndexMatchesCalls`: the index of raw pointers names exactly the calls a
connection is in. `PartiesStandForTheirSides`: nobody is in a call for an account or a
device it is not signed in to, and nothing forgotten is in one. `EveryCallCanEnd`: an
unanswered call rings somewhere and its clock runs, and so does that of an answered call
that lacks a side. `NobodyLeftRinging`: a device that stops ringing hears why. `TalkersAreNotCutOff`:
a call with both devices connected ends only by one of them. `SignalsStayInTheCall`: no
third connection hears an answered call. `KeepsThePromise` is the refinement,
`RingingEnds` and `AbandonedCallEnds` say what the sweep is for.

**Presence.** `WatchIndexMatches`: the raw pointers in `watchers_` are the exact reverse of
the watch sets. `IdleEverywhere`: an account is idle exactly while all its devices are.
`NothingIsLost`: whoever shows an account has been told the newest, or that is on its way,
or an older frame overtook it. `SavesInOrder`: at rest the saved status is the
directory's, for accounts none of whose connections has gone. `InvisibleIsAirtight`: an
invisible account's logins, logouts and idling tell its watchers nothing.

**Voice.** `NoGhosts`: channels, sessions and the index by account agree, nobody is in a
deleted channel. `StreamsStayInTheChannel`: a stream is where its owner is, its watchers
too, and a kept thumbnail has a stream. `PassEndsWithTheStay`: a voice pass goes with the
last session that used it. `GroupLastsWithTheMembers`: an MLS group is not dropped or set
back under members who stay, and goes with the last. `StreamsEndWithTheirOwner`: never by a
sibling session. `UdpFollowsTheNewest`: the end of an old session leaves the route of the
new one.

**History.** `Contiguous`: no stored row is missing between two rows of the slice.
`AtPresent`: a slice that says it is at the present has everything above its oldest row, or
that is on its way.
`DisplayedOnce`: a send is not on screen both as its bubble and as its row.
`WithdrawnIsNotStored`: only what the server lacks is handed back to the message box.
`NoTextVanishes`: a composed text is in a bubble, stored, under way, or handed back.
`LoadingEnds`, `ResyncEnds`, `SendSettles`: loads, re-syncs and pending bubbles end. They do not
say that a page came: a load that is stuck ends at once (see the disagreements below).

**Handshake.** `IdleMeansFree`: out of every call, with nothing under way, a device holds no
socket and no microphone. `TalkersAreRegistered`: two ends that talk are the two the server
holds the call for, so a hang-up will reach the other, whatever late answers, refusals and
failed punches of other devices arrive. `HandshakeEnds`, `AloneEnds`:
nobody waits, and nobody stays in a call alone, for ever. `CurrentCallIsPrepared`
(`call_connect` for the current call finds the sockets that were prepared for it) is what
`handshake_glare` refutes; with one call no two prepares meet, so no other run has it.

**Roster.** `RowsAreTrue`: each row the client holds is the server's as of the last change it
has applied. `NoGap`: whoever belongs to the loaded stretch of the list is in it.
`LookupsAreAnswered`: a member asked for is held, or is none, or the answer is on its way.
`CatchesUp`: the list does not stay behind.

**Uploads.** `ReadyIsWhole`: an attachment whose row says ready or bound has all its blocks
under its final name. `AckedIsStored`: what the client was told is stored is in one of the two
files as long as the upload has its row. Both except an upload a sweep is removing or died
over, and a row that stayed when its removal failed unnoticed (`torn`): there the files do go
before the row (see the disagreements below). `AbandonedGoes`: an upload no message takes is removed in the end, and a sweep
leaves none of its files.

### Bounds, and why they are enough

- `calls`: each side reconnects once, and the callee has a second device, so a call can be
  answered on one device while another rings, and any connection can be replaced, retired
  late or lost at any point of a call. A third reconnect meets the same records as the
  second. Calls touch each other through the index only, and that is proved for any number.
- `presence`: three connections give a device that is replaced, two devices at once, a last
  leave followed by a first login, and a subscription across all of them. `online` and
  `invisible` are the statuses that differ in visibility; auto-away is the third value
  others see. `Changers`, `Idlers` and `Subscribers` say which connections use which
  operation.
- `voice`: three sessions are a user with a stale and a live session beside another user, or
  one user with one session more than `MaxSessions` (2 here, 8 in the code). `MaxStreams` 0
  is no limit. `MaxEpoch` 1 lets a group be created, advance, and be created again. Sessions
  are interchangeable (`SYMMETRY`, in a run without liveness).
- `history`: pages of two over six rows give pages that overlap, touch and leave a gap, and
  every order of a page, live rows and the re-sync. The caps on long lists are out of reach
  here (see below) and within reach in `windows`, where pages of one over four rows make each
  trim matter and a check goes on to its second page of two rows, its last (`CheckPages`). `sends` has one send and every loss at any point. `MaxWaits`, `MaxDrops`,
  `MaxDeletes`, `MaxRefusals`, `MaxJumps`, `MaxLosses`, `MaxVisits`, `MaxEvicts` bound how
  often what happens.
- `talks`: the callee's two devices race to answer, refuse and fail, and one thing goes wrong
  at any point (`MaxTroubles`: a lost signal, a failed punch or connection, or a hang-up). Two
  calls, where one call's leftovers meet the next, are in the run `handshake_glare` and in the
  proofs, which hold for any number; `IdleMeansFree` and `TalkersAreRegistered` hold with two
  calls of two devices too (10 402 049 states, not kept as a run for
  its length). `HandshakeEnds` and `AloneEnds` are checked for one call only.
- `uploads`: two PATCHes of different length give an offset to agree on and a last, shorter
  chunk; two repetitions leave up to two writers of given-up requests beside the current one;
  three faults are a crash or failure of a handler, one of its repetition, and one of what
  cleans up. Uploads share nothing but the handler under way, and that is proved.
- `roster`: pages of one over three members put every change before, at and behind an edge of
  what is loaded. The safety properties hold with three changes too.

### Fairness

- `calls`: weak fairness of `SweepCalls` (a repeating asio timer), `TimeRunsOut` (clocks run)
  and `RetireReplaced` (a handler that has bound goes on). No client is assumed to answer,
  hang up or reconnect.
- `sends`: the server serves, the connection is read, the worker works, timers run and a lost
  connection is tried again: as long as one of these has something to do, one of them does it
  (`FairSpec`). No user action is assumed.
- `talks`: native commands end, signals and outcomes are handed over and the timers run
  (`WF_vars(Progress)`). No user is assumed to answer or to hang up.
- `roster`: requests are served and packets handled, rejections are handled, and a connection
  comes back (`SF`, since it may be lost again). Nobody is assumed to scroll.
- `uploads`: a handler that has begun ends, time passes and the sweep's timer fires. Nothing is
  assumed of the client or its requests.

### Findings

Three runs check a sentence of a comment that the code does not keep; `PROJECT.json` quotes
each:

- `presence_flash`: a login shows a status that another device replaced by Invisible after
  the login had read it ("an invisible user never flashes online").
- `history_gap`: an older page asked for while a re-sync is under way lands under the slice
  that the newest page has replaced, with rows missing between ("Older pages wait for the
  newest"). `history` checks `Contiguous` with `PagesWait = TRUE`, as if they did.
- `handshake_glare`: an older `call_prepare` empties or replaces the sockets of a newer call
  ("A newer prepare supersedes an older one").

### Known disagreements without a run

These were met with runs of the same modules that are not kept, or while reading the code.

- A connection can be the caller of more calls than `MAX_CALLS_PER_CALLER` once its device
  reconnects: the limit is checked at INVITE (`server/main.cpp:3176`).
- The offline delta of a last leave can reach a watcher after the online delta of the login
  that followed; the frames are posted after the unlock. `NothingIsLost` allows for it.
- An account that comes back during a save has a new `Account::saving`, so two changes and
  saves run at once. `SavesInOrder` speaks of accounts that did not leave.
- `owns_live_stream` (`community/main.cpp:5125-5135`) is one flag for all channels: the end of
  a session that streams in one drops the viewers of another session's stream elsewhere.
- `StreamWatcherNotify` goes to the account's oldest session, which need not be the streamer.
- `trimHead` and the cap of a background channel drop rows while an older page asked for from
  them is on its way, which leaves a gap (`chatStore.ts:1063`).
- A send composed into an empty slice is looked for in the newest page alone
  (`sendPacing.ts:151`): with a hundred newer rows by the time of the check its row is not
  there, and a text the server has is handed back. `WithdrawnIsNotStored` fails with
  `CheckLimit` = 1. One composed below a loaded row is looked for in `ECHO_CHECK_PAGES` pages
  above that row (`sendPacing.ts:90`), and handed back when its row is further up.
- A send withdrawn at the end of `checkEcho` can still be stored when its packet waits in a
  stalled connection (`sendPacing.ts:99-153`), with two pages of other rows between.
- Client, calls: the continuation of `startCall` after a cancel arms the ring timer again; a
  CANCEL can overtake its INVITE, whose call then rings until it times out; `endCall` in a
  catch ends whatever call there is by then; a CANCEL is ignored while connecting; a stale
  `call_end` aborts a newer punch; `call_connect` empties the slot before it looks at the id.
- Client, history: a load of the newest page begun while the server is down is stuck.
  `loadLatestChannelPage` runs up to its first `await` at once: offline it returns before that,
  so its `finally` deletes the key (`historyRequests.ts:176`) before line 180 sets it, and the
  finished promise stays in `latestChannelLoads`. Every later load of that channel returns it: the
  first visit of a channel while disconnected, then the reconnect, shows no history, although
  "the re-sync after the reconnect loads it" (`historyRequests.ts:170`), and a later re-sync ends
  without having asked. The runs `history` and `sends` reach it; `AtPresent` holds there because
  the slice stays marked as behind, or was never fetched.
- Client, history: `Contiguous` and `AtPresent` fail when more goes wrong than the runs and the
  proofs allow. With two lost connections, a newest page that was given up still arrives, and an older page lands under it; a
  page skipped or a wait cut short beside one lost connection has the same effect. With one
  lost connection, a delete and a visit, an older page lands in a slice whose last row was deleted,
  and the slice says it is at the present; with two deletes rows are missing in between. A jump
  beside two deletes leaves gaps too. An eviction alone does: an older page that was asked for
  before it lands in the emptied slice, which then says it is at the present, and a
  delete that times out after it puts its row back there alone, below the next live row.
- Client, history: with no lost connection at all, an own delete that times out during the first
  load puts its row back under a slice which the page has replaced meanwhile
  (`restorePendingDeletion`, `chatStore.ts:1219`): TLC finds it with two deletes and pages of one
  row.
- Client, history: an older page asked for between the return of the connection and its
  authentication; a row dropped by the background cap may be the echo of a bubble; deletes
  bypass the worker's lane; a deleted row can be restored into a slice that has moved; an
  eviction drops a pending bubble; a failed send puts its text into whichever composer is open
  (`ChatPanel.tsx:646-649`).
- Client, roster: with two lost connections and a restart, `RowsAreTrue` and `NoGap` fail
  while disconnected. `NoGap` also fails with two lost connections alone (26 steps), when a
  connection is authenticated before the renderer has handled a page of the last one: the page
  asks for an unforced refetch, the authentication for a forced one, and two first pages are on
  their way. If a connection were back before the renderer has heard of what the last one left
  (`Prompt = FALSE`), it fails in 16 steps, since `rosterOrder.ts:104-107` takes a page of the
  old connection for one of the new.
- A PATCH is repeated with its old offset after its answer was lost, and is answered 409 "so the
  client knows to HEAD and realign" (`attachment_http.cpp:573-577`); the Electron client asks no
  HEAD, so after six tries the upload fails although nothing is missing.
- Files that go before their row: `prune_text_messages` (`db.cpp:4615-4635`) and
  `delete_messages_by_sender_since` (`db.cpp:4391-4402`) do not look at the results of their
  DELETEs and their COMMIT and return the paths all the same, though the caller is to "unlink them from
  disk after the DB rows are gone" (`db.cpp:4594-4595`); `delete_channel` does not look at its COMMIT
  (`db.cpp:3170`), and `wipe_channel` returns the paths when its transaction does not begin
  (`db.cpp:3871`). The rows that stay have lost their files.
- Stray files: a thumbnail posted while its row is being removed, the final file of an upload
  that is deleted after a crash between rename and row, and the files of a row that went before
  the process died stay for ever, though the comments say a later sweep or wipe takes them
  (`community/main.cpp:2672-2674, 2765-2768`); both find files through rows only.
- The sweep removes the files of a stale row first, so a crash there leaves a ready attachment
  without its file until the next sweep (`main.cpp:6263-6276`); a message sent meanwhile binds it.
- The day a ready upload is kept counts from its reservation, not from its completion
  (`db.cpp:3806`, against `community/main.cpp:6252-6256`).
- A message without text whose attachments no longer bind is stored empty, though empty messages
  "are dropped too" (`community/main.cpp:2280-2281`).
- A jump (`setChannelWindow`) drops the bubbles of unconfirmed sends.

## What is proved

All theorems hold for every value of the constants that satisfies the assumptions of the
module (`None` is none of the things it stands for, limits are naturals, functions have their
domains, the rosters a server starts with are finite). `PROJECT.json` lists them with the
property each states.

**`CallRegistryProofs`**: `ConnectionsCorrect` (`TypeOK`, `ConnectionsOK`) and
`RegistryCorrect` (`IndexMatchesCalls`, `PartiesStandForTheirSides`, `EveryCallCanEnd`).
`TypeOK` and `ConnectionsOK` are inductive together: without `ConnectionsOK` the connection
that `Bind` replaces need not be the only one of its device. For the rest the inductive
invariant is the conjunction of all five: a step that takes connections into a call has to
index exactly those, `Forget` finds the calls to leave through the index, so that nothing
forgotten stays in a call, and a side that is given to another connection of its device
stands for the same account because of `ConnectionsOK`. The proof is one lemma per action,
under lemmas that say what the helpers return.

`RegistryKeepsThePromise` is the refinement of `CallPromise`. The
abstract state is a function of the registry's (`Seen`). A step does one of three things to a
call: it is placed, it is gone afterwards, or it goes on in the sense of `Follows`: the same
sides, ringing only on devices it rang on before, answered only by one of them, and staying
there. One lemma per action shows that, and `FollowsIsPromised` that it is what `CallPromise`
allows. It needs the invariant: a call that goes on unanswered still rings somewhere, a
connection that leaves is in no call but those the index names, and the one that takes its
place is on the same device.

The same module has what follows from the invariant for single steps: the action properties
`NobodyLeftRinging`, `TalkersAreNotCutOff` and `SignalsStayInTheCall`, with one lemma per action
about what is delivered.

**`PresenceDirectoryProofs`**: all six properties of the run. `Directory` is the invariant of
the tables: `TypeOK`, both indexes, who may be replaced by whom. `Told` strengthens
`NothingIsLost`: a frame marked newest shows the account as the directory has it, and at most
one such frame is under way to a watcher. `Saved` strengthens `SavesInOrder`: who holds the
mutex of an account is alone with it, and what is about to be saved is what is shown.

**`VoiceDirectoryProofs`**: all six properties of the run. `NoGhosts` is inductive with the
types; streams, watchers, thumbnails and passes lean on it, because what a handler cleans up is
found through `voice_channels_` and `sessions_by_user_`. The three action properties follow
from what `Place` and `Leave` do to one channel.

**`RosterMirrorProofs`**: all three safety properties of the run, in layers. `Typed` and
`Truthful` (what is said of a packet's form and of the connection) hold with any number of lost
connections and restarts. `Faithful` holds as long as the server process is not restarted, when a
revision is a change: every packet says what was true at the change it names, and none is older
than those before it; a client that applies the next revision only therefore stays with the
truth, which is `RowsAreAlwaysTrue`. With restarts revisions are used twice and the property is
one of bounds (see above).

`StretchHasNoGap` is `NoGap` from `Whole`: what is under way is, since the last authentication,
at most one first page, which the client waits for, and at most one page after the stretch, and
not both (`Ordered`); what the server stores is one roster without two members of a name
(`Stored`); the members between the start of the stretch and its end, as of the change the
client is at, are held (`Reached`). A page that is applied then extends the stretch by exactly the
members that follow its end: `PageFills`, which needs that a finite set of members has a first
one, from `NatLessThanWellFounded`. The theorem has a hypothesis, `Settled`: a connection is
authenticated when the renderer has handled the events of the one before. `start_reconnect`
sleeps `backoff_duration(attempt)` before it connects and then does TLS and the authentication
(`native/src/net/community.rs`), so a renderer that is not stuck for seconds has; without it
`NoGap` is false, see the disagreements above.

`LookupsAreAlwaysAnswered` needs less, `Prompt` only: the packets since the authentication
are a chain, in which each continues the roster of the one before, the last is of the roster as it
is, and the client continues with the first (`Chained`). A change of the member asked for is then
either applied or followed by a refetch that asks again, restarts or not.

**`ChannelHistoryProofs`**: `TypeCorrect`, `NoSendIsShownTwice`, `TextsAreKept`,
`OnlyUnstoredSendsAreWithdrawn` and `DeepChecksAreRight`. `Settles`
strengthens `DisplayedOnce` by the rows a delete has taken out, which come back when it is refused.
It is kept because a packet tells of its row as the server stored it, so whatever shows a stored
row settles its bubble with it (`PacketsSay`), and a send that is still on its way is not stored
and goes there once (`SendsWait`, `Unsent`). The handlers are compositions of a few mutators of
the slice; each is shown to keep the types (`Sound`), to settle what it shows, and to drop no
text (`Goes`, `Hands`), and a handler is then put together from them. `TextsAreKept` is about
runs without jumps and evictions (`Quiet`): both replace the slice, bubbles included
(see the disagreements above).

`OnlyUnstoredSendsAreWithdrawn` and `DeepChecksAreRight` are about the echo watchdog. Its argument is an order: the
request of a check leaves after the send, so the server has decided the send when it reads the
page. The proof puts all that is under way in one line, from the packet the renderer is handed
next to the request asked last (`Line`), and shows that the waits are exactly the pages of that
line, in the same order (`Aligned`), so that `settle`, which only compares kinds and cursors, gives
each reply to the wait it was asked for. A request of a check stands behind the request
of its send (`Begins`); the page made from it holds the row of the send, or ends below it and says
that there is more, or the server has no such row (`Telling`); a bubble that is pending when the page
has settled what it holds is therefore not stored (`Gone`), and nothing that comes later stores it
(`GoneStays`). It is shown once for any change of the line by what it takes out and puts in
(`Relines`, `Splices`), and each action is one of those. The hypothesis `Faultless` says that no
connection is lost and no wait cut short: when no answer comes, `askServer` returns all the same
(`!reply`) and a send the server may well have is withdrawn. A check asks from the row the send
was composed below, and goes on from page to page; only a send composed into an empty slice is looked for in the
newest page alone. `OnlyUnstoredSendsAreWithdrawn` is about the former, for any number of rows, and
for every send whose row is within `CheckPages` full pages of that row (`AnchoredIsNotStored`): a page
that stops short of the row is full, so `Further` counts how far the pages have come. Without that
distance TLC finds the text of a stored send handed back, with pages of one row.
`DeepChecksAreRight` states `WithdrawnIsNotStored` for all sends, and needs that one page of a check
holds what is stored after the client came (`Deep`) and its pages all there is (`Paged`).

**`ChannelSliceProofs`**: `NoHoles` and `PresentIsPresent` state `Contiguous` and `AtPresent`
under the hypothesis `Undisturbed`: no delete, no jump, and lists under their caps (`Roomy`,
`chatStore.ts:1063`), and one of two things. Either no connection is lost and nothing evicted
(`Calm`), for a channel of any length and pages of any size; or a page holds the channel
(`Whole`) and the worker is through before a connection is back (`~WorkerStalls`), for any
number of lost connections and evictions. Posts, sends, refusals, visits, lost pages and waits that
run out, and so loads that are given up, are free in both, stuck loads in the second. `PagesWait` is not assumed: the code does not
have it. A long channel with a lost connection is in neither, since that is where `history_gap` finds the
hole; the run `history` covers it within its bounds, with `PagesWait`.

The inductive invariant is `Steady`. Without deletes the log is the interval `1..last`, and the
slice is to be an interval of it (`Solid`). What keeps it one is the order of the two lanes
(`Carries`): from the newest row that the renderer was handed, the messages in `jobs` and then on
`wire` are the next rows one by one, up to the last one stored, and a page ends at the row that was
newest when it was read, or at the cursor it was asked for (`PageFits`). `Seated` says that the
slice is an interval up to the newest row handed over, unless it is marked as behind. That alone
is not inductive: an older page that was asked for from a slice that is no longer there would land
under a gap. `Ready` therefore says that the cursors of all older pages under way are rows of the
slice, and `Placed` that none is under way where the slice may be replaced or dropped: when a page
holds the channel, no page says that there are older rows, so none is asked for. `Returns` says
that authentication is read before anything else of the new connection, with an empty worker.
`NewestLands`, `OlderLands` and `NewerLands` say what the three merges make of intervals,
`OnHistoryLands`, `AddMessageSits` and `OnAuthSits` what the handlers make of a slice, and there is
one lemma per action. TLC checked both properties on instances of each case, without
`PagesWait`, before they were proved (up to 4 730 988 states), and has the traces without
`MaxEvicts = 0` or `Whole` (see the disagreements above).

**`CallHandshakeProofs`**: `NothingHeldWhenIdle` and `TalkersHaveTheirCall`, the two safety
properties of the run `talks`, for any number of calls. `Registered` follows a
call from its placing to its end: it is fresh until its INVITE has reached the server, and one
command leads there (`Tokens`); a device is invited once and for a call it is not in; a
CANCEL, HANGUP, REJECT or BUSY is sent for a call the device has left for good
(`EndsAreFinal`); whoever the caller knows to have answered is the callee the server has, or
the call is over for one of the two (`Answers`). A step of one device that leaves the server
alone is `Quiet`: it adds nothing of that kind, one lemma says what a quiet step keeps, and
one lemma per action that it is quiet; placing a call and `route_call` are shown apart.
`Released` says what is held has a call or an end to come, and needs `Registered` for one
case: sockets that come for a call must not find it ringing.

**`UploadsProofs`**: `ReadyIsWhole` and `AckedIsStored`. A step of one upload leaves the others
alone (`Same`). For one upload the invariant has five parts. `Grounds`: a file is a prefix of
the blocks, and a writer has written no further than its file reaches; so a file that ends at
`Size` is whole (`EndsAtIsAll`). `Begun`: what holds while a handler is between its two changes.
`Spoken`: of the requests, writers and the answer of an upload one at most is what the client
waits for, and only a PATCH is ever asked twice. `Kept`: where the acknowledged blocks are; it
needs that no PATCH is under way when the file has its final name but the row is not ready, for
that PATCH would begin an empty file. `Whole` is the property itself.

What stays with TLC: liveness under fairness (`HandshakeEnds`, `AloneEnds`, `LoadingEnds`,
`RingingEnds`, `AbandonedCallEnds`, `ResyncEnds`, `SendSettles`, `CatchesUp`, `AbandonedGoes`);
`Contiguous` and `AtPresent` with a delete, or with a lost connection in a channel longer than a
page, as the run `history` has them, which hold within its bounds only (see the disagreements
above); `RowsAreTrue` and `NoGap` with a restart; the findings.

## What is not modelled, and why

- **Rendering, views and forms**, the stores that only copy the last event of a server,
  capture, codecs, key agreement, packaging and the retired Qt and Tauri clients. They are most
  of the lines of this repository (the TypeScript client alone is some 60 000), and are
  layout, platform code or cryptography without state that several parties change: there is
  nothing in them for a model of orders to say. The share of lines the map covers is small for
  that reason.
- **Central: devices, tokens and passwords.** Its hazards are statements of two handlers in a
  database; the isolation of PostgreSQL and the retry of statements decide them, and are not in
  this code. The next module to write, with a login beside a sign-out as its subject.
- **Community: encrypted channel keys.** Epochs, escrow and fillers: the two-creators race is
  decided by one thread and one SQLite transaction; what is hard is in the clients' key stores.
- **Community: messages, membership queue, limits; central: direct messages,
  transport.** Single-threaded handlers over database statements, or counters over wall-clock
  time. `ChannelHistory`, `RosterMirror` and `VoiceDirectory` have the parts of them that the
  client's order of events depends on.
- **Authorisation** is a pure function of roles and overwrites with unit tests for its cases;
  the models let any permitted and any refused action happen.
- **Within the modelled components**: what each section above lists as left out.
