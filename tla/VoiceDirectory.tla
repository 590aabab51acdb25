--------------------------- MODULE VoiceDirectory ---------------------------
(***************************************************************************)
(* The voice half of a community server (src/src/community/main.cpp,       *)
(* SessionManager): which sessions are in which voice channel, whose       *)
(* screen is streamed there and who watches it, the MLS group of every     *)
(* channel, the voice passes moderators hand out, the latest thumbnails    *)
(* and the index the UDP relay finds sessions by.                          *)
(*                                                                         *)
(* The server runs its handlers on one thread, so an action is a whole     *)
(* handler. A user may have several sessions: devices, or a reconnected    *)
(* client beside the old session whose end has not been noticed yet.       *)
(***************************************************************************)
EXTENDS Integers, FiniteSets

CONSTANTS
    Sessions,    \* connections (class Session); never used twice
    Users,       \* accounts, by uid
    Channels,    \* voice channels, by id
    Tokens,      \* the tokens sessions sign in with
    UserOf,      \* the account a token is for
    Permitted,   \* the channels an account may view and connect to
    MaxSessions, \* SessionManager::kMaxSessionsPerUser
    MaxStreams,  \* SessionManager::max_streams_per_channel_ (0: no limit)
    MaxEpoch,    \* where the model stops counting MLS epochs
    None         \* no session, token or channel, and no MLS group

ASSUME NoneAssumption == None \notin Sessions \cup Tokens \cup Channels \cup Int
ASSUME TokensAssumption == UserOf \in [Tokens -> Users]
ASSUME PermittedAssumption == Permitted \in [Users -> SUBSET Channels]
ASSUME BoundsAssumption ==
    /\ MaxSessions \in Nat \ {0}
    /\ MaxStreams \in Nat
    /\ MaxEpoch \in Nat

VARIABLES
    stage,    \* a session's life: connected, authenticated, closing_, gone
    token,    \* Session::token_, which names the account and the udp_key_
    byUser,   \* sessions_by_user_: the sessions of an account
    later,    \* and their order: those listed behind a session
    route,    \* udp_key_index_
    here,     \* Session::current_voice_channel_
    voice,    \* voice_channels_
    streams,  \* active_streams_: the owner of a user's stream in a channel
    watchers, \* stream_watchers_
    group,    \* mls_groups_: the epoch
    roster,   \* the members table: the accounts that are members
    channels, \* the channels table
    passes,   \* CommunityDb::voice_passes_
    thumbs    \* latest_thumbnails_: the users there is one of

accounts == <<stage, token, byUser, later, route, roster>>
media    == <<streams, watchers, thumbs>>
vars     == <<stage, token, byUser, later, route, here, voice, streams, watchers,
              group, roster, channels, passes, thumbs>>

-----------------------------------------------------------------------------
Uid(s) == UserOf[token[s]]

\* A handler runs: the session is not closing and still of a member.
Acts(s) == stage[s] = "in" /\ Uid(s) \in roster

\* channel_permissions: a voice pass lets in.
MayConnect(u, c) == c \in Permitted[u] \cup passes[u]

\* The owner check of stop_stream and leave: no other session that still
\* lives may end the stream.
OwnsAny(s, c) == streams[c][Uid(s)] # None

Owns(s, c) ==
    LET owner == streams[c][Uid(s)]
    IN  owner # None /\ (owner = s \/ stage[owner] = "gone")

StopsNothing(S) == {}

\* The streams that sessions S have in the channel they are in.
StreamsOf(S) == {<<here[s], Uid(s)>> : s \in {t \in S : here[t] # None /\ Owns(t, here[t])}}

StreamsWithout(off) ==
    [c \in Channels |-> [u \in Users |-> IF <<c, u>> \in off THEN None ELSE streams[c][u]]]

\* Ended streams lose their watchers, sessions S what they watched where
\* they were.
WatchersWithout(off, S) ==
    [c \in Channels |-> [u \in Users |->
        IF <<c, u>> \in off THEN {} ELSE {w \in watchers[c][u] : w \notin S \/ here[w] # c}]]

ThumbsWithout(off) == {u \in thumbs : \A c \in Channels : <<c, u>> \notin off}

GroupsDropped(S) == [c \in Channels |-> IF \E s \in S : here[s] = c THEN None ELSE group[c]]

\* mls_drop_if_empty_locked, where sessions S have just been taken out.
GroupsWithout(S) ==
    [c \in Channels |-> IF (\E s \in S : here[s] = c) /\ voice[c] \subseteq S
                          THEN None ELSE group[c]]

PassesOfEverybody(S, to, held) ==
    [u \in Users |-> {c \in held[u] :
        \/ c = to
        \/ \A s \in S : Uid(s) = u => here[s] # c
        \/ \E t \in voice[c] : Uid(t) = u}]

\* release_voice_pass_if_left for sessions S, which go to channel "to".
PassesWithout(S, to, held) ==
    [u \in Users |-> {c \in held[u] :
        \/ c = to
        \/ \A s \in S : Uid(s) = u => here[s] # c
        \/ \E t \in voice[c] \ S : Uid(t) = u}]

PlacedToo(S, to) ==
    [c \in Channels |-> IF c = to THEN voice[c] \cup S ELSE voice[c]]

PlacedOnly(S, to) ==
    [c \in Channels |-> IF c = to THEN voice[c] \cup S ELSE voice[c] \ S]

\* Sessions S go to a channel, or (None) out of voice; the streams "off" end.
Place(S, to, off, held) ==
    /\ here'     = [s \in Sessions |-> IF s \in S THEN to ELSE here[s]]
    /\ voice'    = PlacedOnly(S, to)
    /\ streams'  = StreamsWithout(off)
    /\ watchers' = WatchersWithout(off, S)
    /\ group'    = GroupsWithout(S)
    /\ passes'   = PassesWithout(S, to, held)
    /\ thumbs'   = ThumbsWithout(off)

-----------------------------------------------------------------------------
(* Sessions.                                                               *)

Init ==
    /\ stage    = [s \in Sessions |-> "new"]
    /\ token    = [s \in Sessions |-> None]
    /\ byUser   = [u \in Users |-> {}]
    /\ later    = [s \in Sessions |-> {}]
    /\ route    = [t \in Tokens |-> None]
    /\ here     = [s \in Sessions |-> None]
    /\ voice    = [c \in Channels |-> {}]
    /\ streams  = [c \in Channels |-> [u \in Users |-> None]]
    /\ watchers = [c \in Channels |-> [u \in Users |-> {}]]
    /\ group    = [c \in Channels |-> None]
    /\ roster   = {}
    /\ channels = Channels
    /\ passes   = [u \in Users |-> {}]
    /\ thumbs   = {}

Evicted(u) == {s \in byUser[u] : Cardinality(later[s]) + 1 >= MaxSessions}

\* COMMUNITY_AUTH_REQ, with an invite where the account is no member yet;
\* register_authenticated closes the oldest session over the limit.
Authenticate(s, t) ==
    /\ stage[s] = "new"
    /\ LET u       == UserOf[t]
           evicted == Evicted(u)
       IN  /\ stage'  = [x \in Sessions |-> IF x \in evicted THEN "closing"
                                            ELSE IF x = s THEN "in" ELSE stage[x]]
           /\ token'  = [token EXCEPT ![s] = t]
           /\ route'  = [route EXCEPT ![t] = s]
           /\ byUser' = [byUser EXCEPT ![u] = (@ \ evicted) \cup {s}]
           /\ later'  = [x \in Sessions |-> IF x \in byUser[u] \ evicted THEN later[x] \cup {s}
                                            ELSE IF x \in evicted THEN {} ELSE later[x]]
           /\ roster' = roster \cup {u}
    /\ UNCHANGED <<here, voice, media, group, channels, passes>>

\* The watchers of a user's stream go with the session that owned it.
StreamEnds(s, c, u) == u = Uid(s) /\ \E d \in Channels : Owns(s, d)

ReroutedByToken(s) == [route EXCEPT ![token[s]] = None]

\* The identity guard of udp_key_index_.
Rerouted(s) == [t \in Tokens |-> IF route[t] = s THEN None ELSE route[t]]

\* leave(): the connection broke, timed out, or a closing one is flushed.
Leave(s) ==
    /\ stage[s] \in {"in", "closing"}
    /\ LET u   == Uid(s)
           off == {<<c, u>> : c \in {d \in Channels : Owns(s, d)}}
       IN  /\ stage'    = [stage EXCEPT ![s] = "gone"]
           /\ byUser'   = [byUser EXCEPT ![u] = @ \ {s}]
           /\ later'    = [x \in Sessions |-> IF x = s THEN {} ELSE later[x] \ {s}]
           /\ route'    = Rerouted(s)
           /\ voice'    = PlacedOnly({s}, None)
           /\ here'     = [here EXCEPT ![s] = None]
           /\ group'    = GroupsWithout({s})
           /\ passes'   = PassesWithout({s}, None, passes)
           /\ streams'  = StreamsWithout(off)
           /\ watchers' = [c \in Channels |-> [v \in Users |->
                              IF StreamEnds(s, c, v) THEN {} ELSE watchers[c][v] \ {s}]]
           /\ thumbs'   = ThumbsWithout(off)
    /\ UNCHANGED <<token, roster, channels>>

\* KICK_MEMBER_REQ, BAN_MEMBER_REQ, LEAVE_SERVER_REQ: the member row and the
\* passes go, force_disconnect closes every session of the account.
Remove(u) ==
    /\ u \in roster
    /\ roster' = roster \ {u}
    /\ passes' = [passes EXCEPT ![u] = {}]
    /\ stage'  = [s \in Sessions |-> IF s \in byUser[u] THEN "closing" ELSE stage[s]]
    /\ UNCHANGED <<token, byUser, later, route, here, voice, media, group, channels>>

-----------------------------------------------------------------------------
(* Voice channels.                                                         *)

\* JOIN_VOICE_REQ. Rejoining the channel one is in leaves it for a moment.
JoinVoice(s, c) ==
    /\ Acts(s) /\ c \in channels /\ MayConnect(Uid(s), c)
    /\ Place({s}, c, IF here[s] = c THEN {} ELSE StreamsOf({s}), passes)
    /\ UNCHANGED <<accounts, channels>>

\* LEAVE_VOICE_REQ.
LeaveVoice(s) ==
    /\ Acts(s) /\ here[s] # None
    /\ Place({s}, None, StreamsOf({s}), passes)
    /\ UNCHANGED <<accounts, channels>>

InVoice(u) == {s \in byUser[u] : here[s] # None}

\* voice_channel_of: the account's first session in voice tells its channel.
FirstInVoice(u) == {s \in InVoice(u) : InVoice(u) \subseteq later[s] \cup {s}}

\* VOICE_MOD_REQ, MOVE: the account is given a pass when it could not get in
\* by itself, and all of its sessions in voice are moved.
Move(u, c) ==
    LET S == {s \in byUser[u] : here[s] \notin {None, c}}
    IN  /\ u \in roster /\ c \in channels
        /\ \E s \in FirstInVoice(u) : here[s] # c
        /\ Place(S, c, StreamsOf(S),
                 [passes EXCEPT ![u] = IF MayConnect(u, c) THEN @ ELSE @ \cup {c}])
        /\ UNCHANGED <<accounts, channels>>

\* VOICE_MOD_REQ, DISCONNECT: one session after the other stops its stream
\* and leaves.
Disconnect(u) ==
    LET S == InVoice(u)
    IN  /\ u \in roster /\ S # {}
        /\ Place(S, None, StreamsOf(S), passes)
        /\ UNCHANGED <<accounts, channels>>

\* CHANNEL_DELETE_REQ, refused while somebody is in it.
DeleteChannel(c) ==
    /\ c \in channels /\ voice[c] = {}
    /\ channels' = channels \ {c}
    /\ UNCHANGED <<accounts, here, voice, media, group, passes>>

-----------------------------------------------------------------------------
(* The MLS delivery service.                                               *)

MlsCreate(s, c) ==
    /\ Acts(s) /\ s \in voice[c] /\ group[c] = None
    /\ group' = [group EXCEPT ![c] = 0]
    /\ UNCHANGED <<accounts, here, voice, media, channels, passes>>

\* A commit is taken only for the epoch after the current one.
MlsCommit(s, c, epoch) ==
    /\ Acts(s) /\ s \in voice[c] /\ group[c] # None
    /\ epoch = group[c] + 1 /\ epoch <= MaxEpoch
    /\ group' = [group EXCEPT ![c] = epoch]
    /\ UNCHANGED <<accounts, here, voice, media, channels, passes>>

-----------------------------------------------------------------------------
(* Streams.                                                                *)

\* START_STREAM_REQ. A second session of the account takes the stream over.
StartStream(s) ==
    /\ Acts(s) /\ here[s] # None
    /\ MaxStreams = 0 \/ Cardinality({u \in Users : streams[here[s]][u] # None}) < MaxStreams
    /\ streams' = [streams EXCEPT ![here[s]][Uid(s)] = s]
    /\ UNCHANGED <<accounts, here, voice, watchers, group, channels, passes, thumbs>>

\* STOP_STREAM_REQ.
StopStream(s, c) ==
    /\ Acts(s) /\ Owns(s, c)
    /\ streams'  = StreamsWithout({<<c, Uid(s)>>})
    /\ watchers' = WatchersWithout({<<c, Uid(s)>>}, {})
    /\ thumbs'   = ThumbsWithout({<<c, Uid(s)>>})
    /\ UNCHANGED <<accounts, here, voice, group, channels, passes>>

\* WATCH_STREAM_REQ, the first of the session for that stream.
Watch(s, v) ==
    /\ Acts(s) /\ here[s] # None
    /\ streams[here[s]][v] # None
    /\ s \notin watchers[here[s]][v]
    /\ watchers' = [watchers EXCEPT ![here[s]][v] = @ \cup {s}]
    /\ UNCHANGED <<accounts, here, voice, streams, group, channels, passes, thumbs>>

\* STOP_WATCHING_REQ.
StopWatching(s, c, v) ==
    /\ Acts(s) /\ s \in watchers[c][v]
    /\ watchers' = [watchers EXCEPT ![c][v] = @ \ {s}]
    /\ UNCHANGED <<accounts, here, voice, streams, group, channels, passes, thumbs>>

\* STREAM_THUMBNAIL_UPDATE, from any session of an account that streams.
ThumbnailUpdate(s, c) ==
    /\ Acts(s) /\ streams[c][Uid(s)] # None
    /\ thumbs' = thumbs \cup {Uid(s)}
    /\ UNCHANGED <<accounts, here, voice, streams, watchers, group, channels, passes>>

Next ==
    \/ \E s \in Sessions, t \in Tokens : Authenticate(s, t)
    \/ \E s \in Sessions : Leave(s) \/ LeaveVoice(s) \/ StartStream(s)
    \/ \E u \in Users : Remove(u) \/ Disconnect(u)
    \/ \E s \in Sessions, c \in Channels :
          JoinVoice(s, c) \/ MlsCreate(s, c) \/ StopStream(s, c) \/ ThumbnailUpdate(s, c)
    \/ \E s \in Sessions, c \in Channels, epoch \in 0..MaxEpoch : MlsCommit(s, c, epoch)
    \/ \E u \in Users, c \in Channels : Move(u, c)
    \/ \E c \in Channels : DeleteChannel(c)
    \/ \E s \in Sessions, v \in Users : Watch(s, v)
    \/ \E s \in Sessions, c \in Channels, v \in Users : StopWatching(s, c, v)

Spec == Init /\ [][Next]_vars

-----------------------------------------------------------------------------
(* Properties.                                                             *)

TypeOK ==
    /\ stage    \in [Sessions -> {"new", "in", "closing", "gone"}]
    /\ token    \in [Sessions -> Tokens \cup {None}]
    /\ byUser   \in [Users -> SUBSET Sessions]
    /\ later    \in [Sessions -> SUBSET Sessions]
    /\ route    \in [Tokens -> Sessions \cup {None}]
    /\ here     \in [Sessions -> Channels \cup {None}]
    /\ voice    \in [Channels -> SUBSET Sessions]
    /\ streams  \in [Channels -> [Users -> Sessions \cup {None}]]
    /\ watchers \in [Channels -> [Users -> SUBSET Sessions]]
    /\ group    \in [Channels -> (0..MaxEpoch) \cup {None}]
    /\ roster   \subseteq Users
    /\ channels \subseteq Channels
    /\ passes   \in [Users -> SUBSET Channels]
    /\ thumbs   \subseteq Users

\* voice_channels_ and what each session believes are the same, nobody is in
\* a deleted channel, and a session that is gone is in no table: the server
\* never shows, or relays to, a ghost.
NoGhosts ==
    /\ \A s \in Sessions, c \in Channels : s \in voice[c] <=> here[s] = c
    /\ \A s \in Sessions : here[s] # None => stage[s] \in {"in", "closing"} /\ here[s] \in channels
    /\ \A u \in Users : \A s \in byUser[u] : stage[s] \in {"in", "closing"} /\ Uid(s) = u
    /\ \A s \in Sessions : stage[s] = "in" => s \in byUser[Uid(s)]

\* A stream is in the channel its owner is in, its watchers are too, and a
\* thumbnail is kept only of somebody who streams: no move, rejoin, takeover
\* or end of either leaves the relay sending to somebody outside, or the
\* server showing a stream that is over.
StreamsStayInTheChannel ==
    \A c \in Channels, u \in Users :
        /\ streams[c][u] # None => here[streams[c][u]] = c /\ Uid(streams[c][u]) = u
        /\ watchers[c][u] # {} => streams[c][u] # None
        /\ watchers[c][u] \subseteq voice[c]
        /\ u \in thumbs => \E d \in Channels : streams[d][u] # None

\* A voice pass lasts no longer than the stay it was given for, on whichever
\* of the account's sessions.
PassEndsWithTheStay ==
    \A u \in Users : \A c \in passes[u] : \E s \in voice[c] : Uid(s) = u

\* The MLS group of a channel is there only while somebody is in it, and
\* never dropped, or set back, while somebody stays who is not alone there.
GroupLastsWithTheMembers ==
    [][\A c \in Channels :
          /\ voice'[c] = {} => group'[c] = None
          /\ (group[c] # None /\ \E s, t \in voice[c] : s # t /\ (s \in voice'[c] \/ t \in voice'[c]))
                => group'[c] \in {group[c], group[c] + 1}]_vars

\* A stream ends with its owner: never by what another session of the
\* account does, or by its end (reconnects leave an old session behind).
StreamsEndWithTheirOwner ==
    [][\A c \in Channels, u \in Users :
          LET owner == streams[c][u]
          IN  (owner # None /\ streams'[c][u] = None)
                 => here'[owner] # c \/ StopStream(owner, c)]_vars

\* The UDP relay keeps finding the session that signed in last with a token
\* until that one is gone, whatever becomes of the older ones, and never one
\* that is gone.
UdpFollowsTheNewest ==
    [][\A t \in Tokens :
          LET before == route[t]
              after  == route'[t]
          IN  /\ after # None => stage'[after] \in {"in", "closing"} /\ token'[after] = t
              /\ (before # None /\ after # before)
                    => IF after = None THEN stage'[before] = "gone"
                                       ELSE stage[after] = "new"]_vars
=============================================================================
