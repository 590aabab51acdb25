------------------------ MODULE VoiceDirectoryProofs ------------------------
(***************************************************************************)
(* What holds of VoiceDirectory for every set of sessions, accounts,       *)
(* channels and tokens.                                                    *)
(***************************************************************************)
EXTENDS VoiceDirectory, TLAPS

USE NoneAssumption, TokensAssumption, PermittedAssumption, BoundsAssumption

-----------------------------------------------------------------------------
(* The invariant.  Beside the properties: who is signed in has a token, a  *)
(* channel nobody is in has no group, the UDP index names live sessions.   *)

SignedIn == \A s \in Sessions : stage[s] # "new" => token[s] \in Tokens

GroupsHaveMembers == \A c \in Channels : voice[c] = {} => group[c] = None

RoutesLive ==
    \A t \in Tokens : route[t] # None =>
        stage[route[t]] \in {"in", "closing"} /\ token[route[t]] = t

Sound == TypeOK /\ SignedIn /\ NoGhosts

Relayed == StreamsStayInTheChannel /\ PassEndsWithTheStay /\ GroupsHaveMembers /\ RoutesLive

-----------------------------------------------------------------------------
(* Helpers.                                                                *)

LEMMA NoneIsNone ==
    None \notin Sessions /\ None \notin Tokens /\ None \notin Channels /\ None \notin Int
OBVIOUS

LEMMA UidType ==
    ASSUME Sound, NEW s \in Sessions, stage[s] # "new"
    PROVE  Uid(s) \in Users
BY DEF Sound, SignedIn, Uid, TypeOK

LEMMA InVoiceLives ==
    ASSUME Sound, NEW s \in Sessions, here[s] # None
    PROVE  stage[s] \in {"in", "closing"} /\ Uid(s) \in Users /\ here[s] \in Channels
BY UidType DEF Sound, NoGhosts, TypeOK

\* What Place does to types, whoever moves where.
LEMMA PlaceType ==
    ASSUME TypeOK, NEW S \in SUBSET Sessions, NEW to \in Channels \cup {None}, NEW off,
           NEW held \in [Users -> SUBSET Channels], Place(S, to, off, held),
           UNCHANGED <<accounts, channels>>
    PROVE  TypeOK'
<1>1. /\ here' \in [Sessions -> Channels \cup {None}]
      /\ voice' \in [Channels -> SUBSET Sessions]
  BY DEF Place, PlacedOnly, TypeOK
<1>2. /\ streams' \in [Channels -> [Users -> Sessions \cup {None}]]
      /\ watchers' \in [Channels -> [Users -> SUBSET Sessions]]
  BY DEF Place, StreamsWithout, WatchersWithout, TypeOK
<1>3. /\ group' \in [Channels -> (0..MaxEpoch) \cup {None}]
      /\ passes' \in [Users -> SUBSET Channels]
      /\ thumbs' \subseteq Users
  BY DEF Place, GroupsWithout, PassesWithout, ThumbsWithout, TypeOK
<1> QED
  BY <1>1, <1>2, <1>3 DEF TypeOK, accounts

-----------------------------------------------------------------------------
(* Types, sign-in and ghosts.                                              *)

LEMMA InitSound == Init => Sound
BY DEF Init, Sound, TypeOK, SignedIn, NoGhosts

LEMMA AuthenticateSound ==
    ASSUME Sound, NEW s \in Sessions, NEW t \in Tokens, Authenticate(s, t)
    PROVE  Sound'
<1> DEFINE u == UserOf[t]
           evicted == Evicted(u)
<1>1. /\ u \in Users /\ stage[s] = "new" /\ evicted \subseteq byUser[u] /\ byUser[u] \subseteq Sessions
      /\ \A v \in Users : s \notin byUser[v]
      /\ here[s] = None
  <2>1. u \in Users /\ stage[s] = "new"
    BY DEF Authenticate
  <2>2. evicted \subseteq byUser[u] /\ byUser[u] \subseteq Sessions
    BY <2>1 DEF Sound, TypeOK, Evicted
  <2>3. (\A v \in Users : s \notin byUser[v]) /\ here[s] = None
    BY <2>1 DEF Sound, NoGhosts
  <2> QED
    BY <2>1, <2>2, <2>3
<1>2. /\ stage' = [x \in Sessions |-> IF x \in evicted THEN "closing"
                                      ELSE IF x = s THEN "in" ELSE stage[x]]
      /\ token' = [token EXCEPT ![s] = t]
      /\ route' = [route EXCEPT ![t] = s]
      /\ byUser' = [byUser EXCEPT ![u] = (@ \ evicted) \cup {s}]
      /\ later' = [x \in Sessions |-> IF x \in byUser[u] \ evicted THEN later[x] \cup {s}
                                      ELSE IF x \in evicted THEN {} ELSE later[x]]
      /\ roster' = roster \cup {u}
      /\ UNCHANGED <<here, voice, streams, watchers, thumbs, group, channels, passes>>
  BY DEF Authenticate, media
<1> HIDE DEF evicted
<1>3. TypeOK'
  BY <1>1, <1>2 DEF Sound, TypeOK
<1>4. \A x \in Sessions : x # s => token'[x] = token[x]
  BY <1>2 DEF Sound, TypeOK
<1>5. token'[s] = t /\ stage'[s] = "in"
  BY <1>1, <1>2 DEF Sound, TypeOK
<1>6. SignedIn'
  BY <1>1, <1>2, <1>4, <1>5 DEF Sound, SignedIn, NoGhosts, TypeOK
<1>7. NoGhosts'
  <2>1. \A x \in Sessions, c \in Channels : x \in voice'[c] <=> here'[x] = c
    BY <1>2 DEF Sound, NoGhosts
  <2>2. \A x \in Sessions : here'[x] # None => stage'[x] \in {"in", "closing"} /\ here'[x] \in channels'
    BY <1>2 DEF Sound, NoGhosts
  <2>3. \A v \in Users : \A x \in byUser'[v] : stage'[x] \in {"in", "closing"} /\ UserOf[token'[x]] = v
    BY <1>1, <1>2, <1>4, <1>5 DEF Sound, NoGhosts, TypeOK, Uid
  <2>4. \A x \in Sessions : stage'[x] = "in" => x \in byUser'[UserOf[token'[x]]]
    <3>1. s \in byUser'[u]
      BY <1>1, <1>2 DEF Sound, TypeOK
    <3>2. ASSUME NEW x \in Sessions, stage'[x] = "in", x # s PROVE x \in byUser'[UserOf[token'[x]]]
      <4>1. stage[x] = "in" /\ x \notin evicted
        BY <1>2, <3>2
      <4>2. x \in byUser[Uid(x)] /\ Uid(x) \in Users
        BY <4>1, UidType DEF Sound, NoGhosts
      <4> QED
        BY <1>2, <1>4, <3>2, <4>1, <4>2 DEF Sound, TypeOK, Uid
    <3> QED
      BY <1>5, <3>1, <3>2
  <2> QED
    BY <2>1, <2>2, <2>3, <2>4 DEF NoGhosts, Uid
<1> QED
  BY <1>3, <1>6, <1>7 DEF Sound

LEMMA LeaveSound ==
    ASSUME Sound, NEW s \in Sessions, Leave(s)
    PROVE  Sound'
<1>1. Uid(s) \in Users /\ stage[s] \in {"in", "closing"}
  BY UidType DEF Leave
<1>2. /\ stage' = [stage EXCEPT ![s] = "gone"]
      /\ byUser' = [byUser EXCEPT ![Uid(s)] = @ \ {s}]
      /\ later' = [x \in Sessions |-> IF x = s THEN {} ELSE later[x] \ {s}]
      /\ route' = Rerouted(s)
      /\ voice' = PlacedOnly({s}, None)
      /\ here' = [here EXCEPT ![s] = None]
      /\ UNCHANGED <<token, roster, channels>>
  BY DEF Leave
<1>3. TypeOK'
  <2>1. /\ route' \in [Tokens -> Sessions \cup {None}]
        /\ voice' \in [Channels -> SUBSET Sessions]
    BY <1>2 DEF Sound, TypeOK, Rerouted, PlacedOnly
  <2>2. /\ group' \in [Channels -> (0..MaxEpoch) \cup {None}]
        /\ passes' \in [Users -> SUBSET Channels]
        /\ thumbs' \subseteq Users
    BY DEF Leave, GroupsWithout, PassesWithout, ThumbsWithout, Sound, TypeOK
  <2>3. /\ streams' \in [Channels -> [Users -> Sessions \cup {None}]]
        /\ watchers' \in [Channels -> [Users -> SUBSET Sessions]]
    BY DEF Leave, StreamsWithout, Sound, TypeOK
  <2> QED
    BY <1>1, <1>2, <2>1, <2>2, <2>3 DEF Sound, TypeOK
<1>4. \A c \in Channels : voice'[c] = voice[c] \ {s}
  BY <1>2 DEF PlacedOnly
<1>5. SignedIn'
  BY <1>1, <1>2 DEF Sound, SignedIn, TypeOK
<1>6. NoGhosts'
  <2>1. \A x \in Sessions, c \in Channels : x \in voice'[c] <=> here'[x] = c
    <3>1. \A x \in Sessions, c \in Channels : x \in voice[c] <=> here[x] = c
      BY DEF Sound, NoGhosts
    <3>2. \A x \in Sessions : here'[x] = IF x = s THEN None ELSE here[x]
      BY <1>2 DEF Sound, TypeOK
    <3> QED
      BY <1>4, <3>1, <3>2, NoneIsNone
  <2>2. \A x \in Sessions : here'[x] # None => stage'[x] \in {"in", "closing"} /\ here'[x] \in channels'
    BY <1>2 DEF Sound, NoGhosts, TypeOK
  <2>3. \A v \in Users : \A x \in byUser'[v] : stage'[x] \in {"in", "closing"} /\ UserOf[token'[x]] = v
    <3>1. ASSUME NEW v \in Users, NEW x \in byUser'[v] PROVE x \in byUser[v] /\ x # s /\ x \in Sessions
      BY <1>1, <1>2, <3>1 DEF Sound, NoGhosts, TypeOK
    <3> QED
      BY <1>2, <3>1 DEF Sound, NoGhosts, TypeOK, Uid
  <2>4. \A x \in Sessions : stage'[x] = "in" => x \in byUser'[UserOf[token'[x]]]
    <3>1. ASSUME NEW x \in Sessions, stage'[x] = "in" PROVE x \in byUser'[UserOf[token'[x]]]
      <4>1. stage[x] = "in" /\ x # s
        BY <1>2, <3>1 DEF Sound, TypeOK
      <4>2. x \in byUser[Uid(x)] /\ Uid(x) \in Users
        BY <4>1, UidType DEF Sound, NoGhosts
      <4> QED
        BY <1>2, <4>1, <4>2 DEF Sound, TypeOK, Uid
    <3> QED
      BY <3>1
  <2> QED
    BY <2>1, <2>2, <2>3, <2>4 DEF NoGhosts, Uid
<1> QED
  BY <1>3, <1>5, <1>6 DEF Sound

LEMMA RemoveSound ==
    ASSUME Sound, NEW u \in Users, Remove(u)
    PROVE  Sound'
<1>1. TypeOK'
  BY DEF Remove, Sound, TypeOK, media
<1>2. SignedIn'
  BY DEF Remove, Sound, SignedIn, NoGhosts, TypeOK
<1>3. NoGhosts'
  BY DEF Remove, Sound, NoGhosts, TypeOK, Uid
<1> QED
  BY <1>1, <1>2, <1>3 DEF Sound

LEMMA PlaceSound ==
    ASSUME Sound, NEW S \in SUBSET Sessions, NEW to \in channels \cup {None}, NEW off,
           NEW held \in [Users -> SUBSET Channels], Place(S, to, off, held),
           UNCHANGED <<accounts, channels>>,
           \A s \in S : stage[s] \in {"in", "closing"}
    PROVE  Sound'
<1>1. to \in Channels \cup {None}
  BY DEF Sound, TypeOK
<1>2. TypeOK'
  BY <1>1, PlaceType DEF Sound
<1>3. SignedIn'
  BY DEF Sound, SignedIn, accounts
<1>4. /\ \A s \in Sessions : here'[s] = IF s \in S THEN to ELSE here[s]
      /\ \A c \in Channels : voice'[c] = IF c = to THEN voice[c] \cup S ELSE voice[c] \ S
  BY DEF Place, PlacedOnly
<1>5. NoGhosts'
  <2>1. \A x \in Sessions, c \in Channels : x \in voice'[c] <=> here'[x] = c
    <3>1. \A x \in Sessions, c \in Channels : x \in voice[c] <=> here[x] = c
      BY DEF Sound, NoGhosts
    <3>2. ASSUME NEW x \in Sessions, NEW c \in Channels
          PROVE  x \in voice'[c] <=> here'[x] = c
      <4>1. CASE c = to
        <5>1. voice'[c] = voice[c] \cup S
          BY <1>4, <4>1
        <5> QED
          BY <1>4, <3>1, <4>1, <5>1
      <4>2. CASE c # to
        <5>1. voice'[c] = voice[c] \ S
          BY <1>4, <4>2
        <5> QED
          BY <1>4, <3>1, <4>2, <5>1
      <4> QED
        BY <4>1, <4>2
    <3> QED
      BY <3>2
  <2>2. \A x \in Sessions : here'[x] # None => stage'[x] \in {"in", "closing"} /\ here'[x] \in channels'
    BY <1>4 DEF Sound, NoGhosts, accounts
  <2>3. /\ \A v \in Users : \A x \in byUser'[v] : stage'[x] \in {"in", "closing"} /\ UserOf[token'[x]] = v
        /\ \A x \in Sessions : stage'[x] = "in" => x \in byUser'[UserOf[token'[x]]]
    BY DEF Sound, NoGhosts, Uid, accounts
  <2> QED
    BY <2>1, <2>2, <2>3 DEF NoGhosts, Uid
<1> QED
  BY <1>2, <1>3, <1>5 DEF Sound

\* The handlers that put sessions in a channel or take them out.
LEMMA JoinVoiceSound ==
    ASSUME Sound, NEW s \in Sessions, NEW c \in Channels, JoinVoice(s, c)
    PROVE  Sound'
<1>1. /\ stage[s] = "in" /\ c \in channels
      /\ Place({s}, c, IF here[s] = c THEN {} ELSE StreamsOf({s}), passes)
      /\ UNCHANGED <<accounts, channels>>
  BY DEF JoinVoice, Acts
<1>2. passes \in [Users -> SUBSET Channels]
  BY DEF Sound, TypeOK
<1> QED
  BY <1>1, <1>2, PlaceSound

LEMMA LeaveVoiceSound ==
    ASSUME Sound, NEW s \in Sessions, LeaveVoice(s)
    PROVE  Sound'
<1>1. /\ stage[s] = "in"
      /\ Place({s}, None, StreamsOf({s}), passes)
      /\ UNCHANGED <<accounts, channels>>
  BY DEF LeaveVoice, Acts
<1>2. passes \in [Users -> SUBSET Channels]
  BY DEF Sound, TypeOK
<1> QED
  BY <1>1, <1>2, PlaceSound

LEMMA MoveSound ==
    ASSUME Sound, NEW u \in Users, NEW c \in Channels, Move(u, c)
    PROVE  Sound'
<1> DEFINE S    == {s \in byUser[u] : here[s] \notin {None, c}}
           held == [passes EXCEPT ![u] = IF MayConnect(u, c) THEN @ ELSE @ \cup {c}]
<1>1. c \in channels /\ Place(S, c, StreamsOf(S), held) /\ UNCHANGED <<accounts, channels>>
  BY DEF Move
<1>2. held \in [Users -> SUBSET Channels]
  BY DEF Sound, TypeOK
<1>3. S \in SUBSET Sessions /\ \A s \in S : stage[s] \in {"in", "closing"}
  BY DEF Sound, TypeOK, NoGhosts
<1> HIDE DEF S, held
<1> QED
  BY <1>1, <1>2, <1>3, PlaceSound

LEMMA DisconnectSound ==
    ASSUME Sound, NEW u \in Users, Disconnect(u)
    PROVE  Sound'
<1>1. /\ Place(InVoice(u), None, StreamsOf(InVoice(u)), passes)
      /\ UNCHANGED <<accounts, channels>>
  BY DEF Disconnect
<1>2. InVoice(u) \in SUBSET Sessions /\ \A s \in InVoice(u) : stage[s] \in {"in", "closing"}
  BY DEF Sound, TypeOK, NoGhosts, InVoice
<1>3. passes \in [Users -> SUBSET Channels]
  BY DEF Sound, TypeOK
<1> QED
  BY <1>1, <1>2, <1>3, PlaceSound

\* The handlers that leave everybody where they are.
LEMMA DeleteChannelSound ==
    ASSUME Sound, NEW c \in Channels, DeleteChannel(c)
    PROVE  Sound'
<1>1. TypeOK' /\ SignedIn'
  BY DEF DeleteChannel, accounts, media, Sound, TypeOK, SignedIn
<1>2. NoGhosts'
  BY DEF DeleteChannel, accounts, media, Sound, TypeOK, NoGhosts, Uid
<1> QED
  BY <1>1, <1>2 DEF Sound

\* What the streams, the groups and the thumbnails are does not matter.
LEMMA StillSound ==
    ASSUME Sound, TypeOK', UNCHANGED <<accounts, here, voice, channels>>
    PROVE  Sound'
<1>1. SignedIn' /\ NoGhosts'
  BY DEF accounts, Sound, SignedIn, NoGhosts, Uid
<1> QED
  BY <1>1 DEF Sound

LEMMA MlsSound ==
    ASSUME Sound, NEW s \in Sessions, NEW c \in Channels,
           MlsCreate(s, c) \/ \E epoch \in 0..MaxEpoch : MlsCommit(s, c, epoch)
    PROVE  Sound'
<1>1. group' \in [Channels -> (0..MaxEpoch) \cup {None}]
  <2>1. CASE MlsCreate(s, c)
    BY <2>1 DEF MlsCreate, Sound, TypeOK
  <2>2. ASSUME NEW epoch \in 0..MaxEpoch, MlsCommit(s, c, epoch)
        PROVE  group' \in [Channels -> (0..MaxEpoch) \cup {None}]
    BY <2>2 DEF MlsCommit, Sound, TypeOK
  <2> QED
    BY <2>1, <2>2
<1>2. UNCHANGED <<accounts, here, voice, media, channels, passes>>
  BY DEF MlsCreate, MlsCommit
<1>3. TypeOK'
  BY <1>1, <1>2 DEF accounts, media, Sound, TypeOK
<1> QED
  BY <1>2, <1>3, StillSound

LEMMA StreamsSound ==
    ASSUME Sound, NEW s \in Sessions, NEW c \in Channels, NEW v \in Users,
           \/ StartStream(s) \/ StopStream(s, c) \/ ThumbnailUpdate(s, c)
           \/ Watch(s, v) \/ StopWatching(s, c, v)
    PROVE  Sound'
<1>1. UNCHANGED <<accounts, here, voice, group, channels, passes>>
  BY DEF StartStream, StopStream, ThumbnailUpdate, Watch, StopWatching
<1>2. Uid(s) \in Users
  BY UidType DEF StartStream, StopStream, ThumbnailUpdate, Watch, StopWatching, Acts, Sound, TypeOK
<1>3. /\ streams' \in [Channels -> [Users -> Sessions \cup {None}]]
      /\ watchers' \in [Channels -> [Users -> SUBSET Sessions]]
      /\ thumbs' \subseteq Users
  <2>1. CASE StartStream(s)
    BY <2>1 DEF StartStream, Sound, TypeOK
  <2>2. CASE StopStream(s, c)
    BY <2>2 DEF StopStream, StreamsWithout, WatchersWithout, ThumbsWithout, Sound, TypeOK
  <2>3. CASE ThumbnailUpdate(s, c)
    BY <1>2, <2>3 DEF ThumbnailUpdate, Sound, TypeOK
  <2>4. CASE Watch(s, v)
    BY <2>4 DEF Watch, Sound, TypeOK
  <2>5. CASE StopWatching(s, c, v)
    BY <2>5 DEF StopWatching, Sound, TypeOK
  <2> QED
    BY <2>1, <2>2, <2>3, <2>4, <2>5
<1>4. TypeOK'
  BY <1>1, <1>3 DEF accounts, Sound, TypeOK
<1> QED
  BY <1>1, <1>4, StillSound

LEMMA StepSound == Sound /\ [Next]_vars => Sound'
<1> SUFFICES ASSUME Sound, [Next]_vars PROVE Sound'
  OBVIOUS
<1>1. ASSUME NEW s \in Sessions, NEW t \in Tokens, Authenticate(s, t) PROVE Sound'
  BY <1>1, AuthenticateSound
<1>2. ASSUME NEW s \in Sessions, Leave(s) \/ LeaveVoice(s) PROVE Sound'
  BY <1>2, LeaveSound, LeaveVoiceSound
<1>3. ASSUME NEW u \in Users, Remove(u) \/ Disconnect(u) PROVE Sound'
  BY <1>3, RemoveSound, DisconnectSound
<1>4. ASSUME NEW s \in Sessions, NEW c \in Channels, JoinVoice(s, c) PROVE Sound'
  BY <1>4, JoinVoiceSound
<1>5. ASSUME NEW s \in Sessions, NEW c \in Channels,
             MlsCreate(s, c) \/ \E epoch \in 0..MaxEpoch : MlsCommit(s, c, epoch)
      PROVE  Sound'
  BY <1>5, MlsSound
<1>6. ASSUME NEW u \in Users, NEW c \in Channels, Move(u, c) PROVE Sound'
  BY <1>6, MoveSound
<1>7. ASSUME NEW c \in Channels, DeleteChannel(c) PROVE Sound'
  BY <1>7, DeleteChannelSound
<1>8. ASSUME NEW s \in Sessions, StartStream(s) PROVE Sound'
  <2>1. here[s] \in Channels /\ Uid(s) \in Users
    BY <1>8, InVoiceLives DEF StartStream
  <2> QED
    BY <1>8, <2>1, StreamsSound
<1>9. ASSUME NEW s \in Sessions, NEW c \in Channels, StopStream(s, c) \/ ThumbnailUpdate(s, c)
      PROVE  Sound'
  <2>1. Uid(s) \in Users
    BY <1>9, UidType DEF StopStream, ThumbnailUpdate, Acts
  <2> QED
    BY <1>9, <2>1, StreamsSound
<1>10. ASSUME NEW s \in Sessions, NEW v \in Users, Watch(s, v) PROVE Sound'
  <2>1. here[s] \in Channels
    BY <1>10, InVoiceLives DEF Watch
  <2> QED
    BY <1>10, <2>1, StreamsSound
<1>11. ASSUME NEW s \in Sessions, NEW c \in Channels, NEW v \in Users, StopWatching(s, c, v)
       PROVE  Sound'
  BY <1>11, StreamsSound
<1>12. CASE UNCHANGED vars
  <2>1. TypeOK'
    BY <1>12 DEF vars, Sound, TypeOK
  <2> QED
    BY <1>12, <2>1, StillSound DEF vars, accounts
<1> QED
  BY <1>1, <1>2, <1>3, <1>4, <1>5, <1>6, <1>7, <1>8, <1>9, <1>10, <1>11, <1>12 DEF Next

\* The tables agree on who is where, at every moment: no ghost is ever listed
\* in a channel, or found by its account, after it has gone.
THEOREM NoGhostsEver == Spec => []NoGhosts
<1>1. Sound => NoGhosts
  BY DEF Sound
<1> QED
  BY <1>1, InitSound, StepSound, PTL DEF Spec

-----------------------------------------------------------------------------
(* Streams, passes, groups and routes.                                     *)

LEMMA OwnerIsThere ==
    ASSUME Sound, StreamsStayInTheChannel, NEW c \in Channels, NEW u \in Users, streams[c][u] # None
    PROVE  /\ streams[c][u] \in Sessions /\ here[streams[c][u]] = c /\ Uid(streams[c][u]) = u
           /\ stage[streams[c][u]] \in {"in", "closing"}
<1>1. streams[c][u] \in Sessions /\ here[streams[c][u]] = c /\ Uid(streams[c][u]) = u
  BY DEF Sound, TypeOK, StreamsStayInTheChannel
<1> QED
  BY <1>1, InVoiceLives, NoneIsNone

\* Whoever may end a stream is its owner.
LEMMA OwnsItsOwn ==
    ASSUME Sound, StreamsStayInTheChannel, NEW s \in Sessions, NEW c \in Channels,
           Uid(s) \in Users, Owns(s, c)
    PROVE  streams[c][Uid(s)] = s
BY OwnerIsThere DEF Owns

\* Where sessions can be put: out of where they are, or back where one is.
Leads(S, to, off) ==
    \/ off = StreamsOf(S) /\ \A s \in S : here[s] # to
    \/ off = {} /\ \E s \in Sessions : S = {s} /\ here[s] = to

\* A pass is given only to whoever is put where it leads.
PassIsUsed(S, to, held) ==
    \A u \in Users : \A c \in held[u] :
        c \in passes[u] \/ (c = to /\ \E s \in S : Uid(s) = u)

LEMMA PlaceStreams ==
    ASSUME Sound, StreamsStayInTheChannel, NEW S \in SUBSET Sessions,
           NEW to \in channels \cup {None}, NEW off, NEW held, Place(S, to, off, held),
           UNCHANGED <<accounts, channels>>, Leads(S, to, off)
    PROVE  StreamsStayInTheChannel'
<1> SUFFICES ASSUME NEW c \in Channels, NEW u \in Users
             PROVE  /\ streams'[c][u] # None => here'[streams'[c][u]] = c /\ UserOf[token'[streams'[c][u]]] = u
                    /\ watchers'[c][u] # {} => streams'[c][u] # None
                    /\ watchers'[c][u] \subseteq voice'[c]
                    /\ u \in thumbs' => \E d \in Channels : streams'[d][u] # None
  BY DEF StreamsStayInTheChannel, Uid
<1>1. /\ \A s \in Sessions : here'[s] = IF s \in S THEN to ELSE here[s]
      /\ \A d \in Channels : voice'[d] = IF d = to THEN voice[d] \cup S ELSE voice[d] \ S
      /\ \A d \in Channels : streams'[d][u] = IF <<d, u>> \in off THEN None ELSE streams[d][u]
      /\ watchers'[c][u] = IF <<c, u>> \in off THEN {}
                           ELSE {w \in watchers[c][u] : w \notin S \/ here[w] # c}
      /\ thumbs' = {v \in thumbs : \A d \in Channels : <<d, v>> \notin off}
      /\ token' = token
  BY DEF Place, PlacedOnly, StreamsWithout, WatchersWithout, ThumbsWithout, accounts
<1>2. ASSUME streams'[c][u] # None
      PROVE  here'[streams'[c][u]] = c /\ UserOf[token'[streams'[c][u]]] = u
  <2>1. streams'[c][u] = streams[c][u] /\ <<c, u>> \notin off
    BY <1>1, <1>2
  <2> DEFINE owner == streams[c][u]
  <2>2. owner \in Sessions /\ here[owner] = c /\ Uid(owner) = u
    BY <1>2, <2>1, OwnerIsThere
  <2>3. UserOf[token'[owner]] = u
    BY <1>1, <2>1, <2>2 DEF Uid
  <2>4. here'[owner] = c
    <3>1. CASE owner \notin S
      BY <1>1, <2>2, <3>1
    <3>2. CASE owner \in S /\ here[owner] = to
      BY <1>1, <2>2, <3>2
    <3>3. CASE owner \in S /\ here[owner] # to
      <4>1. off = StreamsOf(S)
        BY <3>3 DEF Leads
      <4>2. Owns(owner, here[owner])
        BY <2>2, NoneIsNone DEF Owns
      <4>3. <<here[owner], Uid(owner)>> \in StreamsOf(S)
        BY <2>2, <3>3, <4>2, NoneIsNone DEF StreamsOf
      <4> QED
        BY <2>1, <2>2, <4>1, <4>3
    <3> QED
      BY <3>1, <3>2, <3>3
  <2> QED
    BY <2>1, <2>3, <2>4
<1>3. watchers'[c][u] # {} => streams'[c][u] # None
  BY <1>1 DEF StreamsStayInTheChannel
<1>4. watchers'[c][u] \subseteq voice'[c]
  <2> SUFFICES ASSUME NEW w \in watchers'[c][u] PROVE w \in voice'[c]
    OBVIOUS
  <2>1. w \in watchers[c][u] /\ (w \notin S \/ here[w] # c)
    BY <1>1
  <2>2. w \in voice[c] /\ w \in Sessions
    BY <2>1 DEF StreamsStayInTheChannel, Sound, TypeOK
  <2>3. here[w] = c
    BY <2>2 DEF Sound, NoGhosts
  <2> QED
    BY <1>1, <2>1, <2>2, <2>3, ZenonT(60)
<1>5. u \in thumbs' => \E d \in Channels : streams'[d][u] # None
  BY <1>1 DEF StreamsStayInTheChannel
<1> QED
  BY <1>2, <1>3, <1>4, <1>5

LEMMA PlacePasses ==
    ASSUME Sound, PassEndsWithTheStay, NEW S \in SUBSET Sessions,
           NEW to \in channels \cup {None}, NEW off, NEW held \in [Users -> SUBSET Channels],
           Place(S, to, off, held), UNCHANGED <<accounts, channels>>, PassIsUsed(S, to, held)
    PROVE  PassEndsWithTheStay'
<1> SUFFICES ASSUME NEW u \in Users, NEW c \in passes'[u]
             PROVE  \E s \in voice'[c] : Uid(s) = u
  BY DEF PassEndsWithTheStay, Uid, accounts
<1>1. /\ c \in held[u]
      /\ \/ c = to
         \/ \A s \in S : Uid(s) = u => here[s] # c
         \/ \E t \in voice[c] \ S : Uid(t) = u
  BY DEF Place, PassesWithout
<1>2. c \in Channels
  BY <1>1
<1>3. voice'[c] = IF c = to THEN voice[c] \cup S ELSE voice[c] \ S
  BY <1>2 DEF Place, PlacedOnly
<1>4. CASE c \notin passes[u]
  BY <1>1, <1>3, <1>4 DEF PassIsUsed
<1>5. CASE c \in passes[u]
  <2>1. PICK x \in voice[c] : Uid(x) = u
    BY <1>5 DEF PassEndsWithTheStay
  <2>2. here[x] = c
    BY <1>2, <2>1 DEF Sound, TypeOK, NoGhosts
  <2> QED
    BY <1>1, <1>3, <2>1, <2>2
<1> QED
  BY <1>4, <1>5

\* A group goes exactly when nobody is left who was there.
LEMMA GroupsWithoutThem ==
    ASSUME Sound, GroupsHaveMembers, NEW S \in SUBSET Sessions, NEW to,
           voice' = PlacedOnly(S, to), group' = GroupsWithout(S)
    PROVE  GroupsHaveMembers'
<1> SUFFICES ASSUME NEW c \in Channels, voice'[c] = {} PROVE group'[c] = None
  BY DEF GroupsHaveMembers
<1>1. voice[c] \subseteq S
  BY DEF PlacedOnly
<1>2. group'[c] = IF (\E s \in S : here[s] = c) /\ voice[c] \subseteq S THEN None ELSE group[c]
  BY DEF GroupsWithout
<1>3. CASE voice[c] = {}
  BY <1>2, <1>3 DEF GroupsHaveMembers
<1>4. CASE voice[c] # {}
  <2>1. PICK x \in voice[c] : TRUE
    BY <1>4
  <2>2. x \in S /\ here[x] = c
    BY <1>1, <2>1 DEF Sound, TypeOK, NoGhosts
  <2> QED
    BY <1>1, <1>2, <2>2
<1> QED
  BY <1>3, <1>4

LEMMA RoutesStay ==
    ASSUME RoutesLive, UNCHANGED accounts
    PROVE  RoutesLive'
BY DEF RoutesLive, accounts

LEMMA PlaceRelayed ==
    ASSUME Sound, Relayed, NEW S \in SUBSET Sessions, NEW to \in channels \cup {None}, NEW off,
           NEW held \in [Users -> SUBSET Channels], Place(S, to, off, held),
           UNCHANGED <<accounts, channels>>, Leads(S, to, off), PassIsUsed(S, to, held)
    PROVE  Relayed'
<1>1. StreamsStayInTheChannel' /\ PassEndsWithTheStay'
  BY PlaceStreams, PlacePasses DEF Relayed
<1>2. voice' = PlacedOnly(S, to) /\ group' = GroupsWithout(S)
  BY DEF Place
<1>3. GroupsHaveMembers' /\ RoutesLive'
  BY <1>2, GroupsWithoutThem, RoutesStay DEF Relayed
<1> QED
  BY <1>1, <1>3 DEF Relayed

\* The four handlers that place sessions meet what PlaceRelayed asks.
LEMMA JoinVoicePlaces ==
    ASSUME Sound, NEW s \in Sessions, NEW c \in Channels, JoinVoice(s, c)
    PROVE  \E off : /\ Place({s}, c, off, passes) /\ Leads({s}, c, off)
                    /\ PassIsUsed({s}, c, passes) /\ c \in channels
                    /\ UNCHANGED <<accounts, channels>>
<1> DEFINE off == IF here[s] = c THEN {} ELSE StreamsOf({s})
<1>1. c \in channels /\ Place({s}, c, off, passes) /\ UNCHANGED <<accounts, channels>>
  BY DEF JoinVoice
<1>2. Leads({s}, c, off) /\ PassIsUsed({s}, c, passes)
  BY DEF Leads, PassIsUsed
<1> QED
  BY <1>1, <1>2

LEMMA LeaveVoicePlaces ==
    ASSUME Sound, NEW s \in Sessions, LeaveVoice(s)
    PROVE  /\ Place({s}, None, StreamsOf({s}), passes) /\ Leads({s}, None, StreamsOf({s}))
           /\ PassIsUsed({s}, None, passes) /\ UNCHANGED <<accounts, channels>>
BY DEF LeaveVoice, Leads, PassIsUsed

LEMMA MovePlaces ==
    ASSUME Sound, NEW u \in Users, NEW c \in Channels, Move(u, c)
    PROVE  \E S \in SUBSET Sessions, held \in [Users -> SUBSET Channels] :
              /\ Place(S, c, StreamsOf(S), held) /\ Leads(S, c, StreamsOf(S))
              /\ PassIsUsed(S, c, held) /\ c \in channels
              /\ UNCHANGED <<accounts, channels>>
<1> DEFINE S    == {s \in byUser[u] : here[s] \notin {None, c}}
           held == [passes EXCEPT ![u] = IF MayConnect(u, c) THEN @ ELSE @ \cup {c}]
<1>1. c \in channels /\ Place(S, c, StreamsOf(S), held) /\ UNCHANGED <<accounts, channels>>
  BY DEF Move
<1>2. held \in [Users -> SUBSET Channels] /\ S \in SUBSET Sessions
  BY DEF Sound, TypeOK
<1>3. Leads(S, c, StreamsOf(S))
  BY DEF Leads
<1>4. PassIsUsed(S, c, held)
  <2>1. PICK s \in FirstInVoice(u) : here[s] # c
    BY DEF Move
  <2>2. s \in S /\ Uid(s) = u
    BY <2>1 DEF FirstInVoice, InVoice, Sound, NoGhosts
  <2>3. ASSUME NEW v \in Users, NEW d \in held[v], d \notin passes[v] PROVE v = u /\ d = c
    BY <2>3 DEF Sound, TypeOK
  <2> QED
    BY <2>2, <2>3 DEF PassIsUsed
<1> HIDE DEF S, held
<1> QED
  BY <1>1, <1>2, <1>3, <1>4

LEMMA DisconnectPlaces ==
    ASSUME Sound, NEW u \in Users, Disconnect(u)
    PROVE  /\ InVoice(u) \in SUBSET Sessions
           /\ Place(InVoice(u), None, StreamsOf(InVoice(u)), passes)
           /\ Leads(InVoice(u), None, StreamsOf(InVoice(u)))
           /\ PassIsUsed(InVoice(u), None, passes) /\ UNCHANGED <<accounts, channels>>
BY DEF Disconnect, InVoice, Leads, PassIsUsed, Sound, TypeOK

LEMMA PlacingRelayed ==
    ASSUME Sound, Relayed,
           \/ \E s \in Sessions : LeaveVoice(s) \/ \E c \in Channels : JoinVoice(s, c)
           \/ \E u \in Users : Disconnect(u) \/ \E c \in Channels : Move(u, c)
    PROVE  Relayed'
<1>1. passes \in [Users -> SUBSET Channels]
  BY DEF Sound, TypeOK
<1>2. ASSUME NEW s \in Sessions, LeaveVoice(s) PROVE Relayed'
  <2>1. {s} \in SUBSET Sessions
    OBVIOUS
  <2> QED
    BY <1>1, <1>2, <2>1, LeaveVoicePlaces, PlaceRelayed
<1>3. ASSUME NEW s \in Sessions, NEW c \in Channels, JoinVoice(s, c) PROVE Relayed'
  <2>1. {s} \in SUBSET Sessions
    OBVIOUS
  <2>2. PICK off : /\ Place({s}, c, off, passes) /\ Leads({s}, c, off)
                   /\ PassIsUsed({s}, c, passes) /\ c \in channels
                   /\ UNCHANGED <<accounts, channels>>
    BY <1>3, JoinVoicePlaces
  <2> QED
    BY <1>1, <2>1, <2>2, PlaceRelayed
<1>4. ASSUME NEW u \in Users, Disconnect(u) PROVE Relayed'
  BY <1>1, <1>4, DisconnectPlaces, PlaceRelayed
<1>5. ASSUME NEW u \in Users, NEW c \in Channels, Move(u, c) PROVE Relayed'
  BY <1>5, MovePlaces, PlaceRelayed
<1> QED
  BY <1>2, <1>3, <1>4, <1>5

\* Signing in brings a session that is nowhere yet.
LEMMA AuthenticateRelayed ==
    ASSUME Sound, Relayed, NEW s \in Sessions, NEW t \in Tokens, Authenticate(s, t)
    PROVE  Relayed'
<1>1. /\ stage[s] = "new" /\ stage'[s] \in {"in", "closing"}
      /\ \A x \in Sessions : stage[x] \in {"in", "closing"} => stage'[x] \in {"in", "closing"}
      /\ token' = [token EXCEPT ![s] = t]
      /\ route' = [route EXCEPT ![t] = s]
      /\ UNCHANGED <<here, voice, streams, watchers, thumbs, group, channels, passes>>
  <2>1. /\ stage[s] = "new"
        /\ stage' = [x \in Sessions |-> IF x \in Evicted(UserOf[t]) THEN "closing"
                                        ELSE IF x = s THEN "in" ELSE stage[x]]
        /\ token' = [token EXCEPT ![s] = t]
        /\ route' = [route EXCEPT ![t] = s]
        /\ UNCHANGED <<here, voice, streams, watchers, thumbs, group, channels, passes>>
    BY DEF Authenticate, media
  <2> QED
    BY <2>1
<1>2. /\ \A x \in Sessions : here[x] # None => x # s
      /\ \A x \in Sessions : x # s => token'[x] = token[x]
      /\ token'[s] = t
  BY <1>1, SMTT(30) DEF Sound, NoGhosts, TypeOK
<1>3. StreamsStayInTheChannel'
  <2>1. ASSUME NEW c \in Channels, NEW u \in Users, streams[c][u] # None
        PROVE  here[streams[c][u]] = c /\ UserOf[token'[streams[c][u]]] = u
    BY <1>2, <2>1, OwnerIsThere, NoneIsNone DEF Relayed, Uid
  <2> QED
    BY <1>1, <2>1 DEF Relayed, StreamsStayInTheChannel, Uid
<1>4. PassEndsWithTheStay'
  <2> SUFFICES ASSUME NEW u \in Users, NEW c \in passes[u]
               PROVE  \E x \in voice[c] : UserOf[token'[x]] = u
    BY <1>1 DEF PassEndsWithTheStay, Uid
  <2>1. PICK x \in voice[c] : Uid(x) = u
    BY DEF Relayed, PassEndsWithTheStay
  <2>2. x \in Sessions /\ here[x] = c /\ c \in Channels
    BY <2>1 DEF Sound, TypeOK, NoGhosts
  <2> QED
    BY <1>2, <2>1, <2>2, NoneIsNone DEF Uid
<1>5. GroupsHaveMembers'
  BY <1>1 DEF Relayed, GroupsHaveMembers
<1>6. RoutesLive'
  <2> SUFFICES ASSUME NEW r \in Tokens, route'[r] # None
               PROVE  stage'[route'[r]] \in {"in", "closing"} /\ token'[route'[r]] = r
    BY DEF RoutesLive
  <2>1. CASE r = t
    BY <1>1, <1>2, <2>1 DEF Sound, TypeOK
  <2>2. CASE r # t
    <3>1. route'[r] = route[r] /\ route[r] \in Sessions
      BY <1>1, <2>2 DEF Sound, TypeOK
    <3>2. stage[route[r]] \in {"in", "closing"} /\ token[route[r]] = r
      BY <3>1 DEF Relayed, RoutesLive
    <3>3. route[r] # s
      BY <1>1, <3>2
    <3> QED
      BY <1>1, <1>2, <3>1, <3>2, <3>3
  <2> QED
    BY <2>1, <2>2
<1> QED
  BY <1>3, <1>4, <1>5, <1>6 DEF Relayed

\* The end of a session takes its own streams and watching along.
LEMMA LeaveRelayed ==
    ASSUME Sound, Relayed, NEW s \in Sessions, Leave(s)
    PROVE  Relayed'
<1> DEFINE off == {<<c, Uid(s)>> : c \in {d \in Channels : Owns(s, d)}}
<1>1. /\ Uid(s) \in Users
      /\ \A x \in Sessions : here'[x] = IF x = s THEN None ELSE here[x]
      /\ \A x \in Sessions : stage'[x] = IF x = s THEN "gone" ELSE stage[x]
      /\ \A c \in Channels : voice'[c] = voice[c] \ {s}
      /\ voice' = PlacedOnly({s}, None) /\ group' = GroupsWithout({s})
      /\ \A c \in Channels, u \in Users :
            streams'[c][u] = IF <<c, u>> \in off THEN None ELSE streams[c][u]
      /\ \A c \in Channels, u \in Users :
            /\ StreamEnds(s, c, u) => watchers'[c][u] = {}
            /\ watchers'[c][u] \subseteq watchers[c][u] \ {s}
      /\ thumbs' = {v \in thumbs : \A d \in Channels : <<d, v>> \notin off}
      /\ passes' = PassesWithout({s}, None, passes)
      /\ route' = Rerouted(s)
      /\ UNCHANGED <<token, channels>>
  <2>1. Uid(s) \in Users
    BY UidType DEF Leave
  <2>2. (\A c \in Channels : voice'[c] = voice[c] \ {s}) /\ voice' = PlacedOnly({s}, None)
    BY NoneIsNone DEF Leave, PlacedOnly
  <2>3. here' = [here EXCEPT ![s] = None] /\ stage' = [stage EXCEPT ![s] = "gone"]
    BY DEF Leave
  <2>4. \A c \in Channels, u \in Users :
            /\ StreamEnds(s, c, u) => watchers'[c][u] = {}
            /\ watchers'[c][u] \subseteq watchers[c][u] \ {s}
    <3> SUFFICES ASSUME NEW c \in Channels, NEW u \in Users
                 PROVE  /\ StreamEnds(s, c, u) => watchers'[c][u] = {}
                        /\ watchers'[c][u] \subseteq watchers[c][u] \ {s}
      OBVIOUS
    <3>1. watchers'[c][u] = IF StreamEnds(s, c, u) THEN {} ELSE watchers[c][u] \ {s}
      BY DEF Leave
    <3>2. CASE StreamEnds(s, c, u)
      BY <3>1, <3>2
    <3>3. CASE ~StreamEnds(s, c, u)
      BY <3>1, <3>3
    <3> QED
      BY <3>2, <3>3
  <2>5. /\ \A x \in Sessions : here'[x] = IF x = s THEN None ELSE here[x]
        /\ \A x \in Sessions : stage'[x] = IF x = s THEN "gone" ELSE stage[x]
    BY <2>3 DEF Sound, TypeOK
  <2>6. \A c \in Channels, u \in Users :
            streams'[c][u] = IF <<c, u>> \in off THEN None ELSE streams[c][u]
    BY DEF Leave, StreamsWithout
  <2>7. /\ thumbs' = {v \in thumbs : \A d \in Channels : <<d, v>> \notin off}
        /\ group' = GroupsWithout({s}) /\ passes' = PassesWithout({s}, None, passes)
        /\ route' = Rerouted(s) /\ UNCHANGED <<token, channels>>
    BY DEF Leave, ThumbsWithout
  <2> HIDE DEF off
  <2> QED
    BY <2>1, <2>2, <2>4, <2>5, <2>6, <2>7
<1>2. \A c \in Channels, u \in Users : <<c, u>> \in off => u = Uid(s) /\ Owns(s, c)
  OBVIOUS
<1>3. \A c \in Channels : Owns(s, c) => <<c, Uid(s)>> \in off /\ streams[c][Uid(s)] = s
  BY <1>1, OwnsItsOwn DEF Relayed
<1> HIDE DEF off
<1>4. StreamsStayInTheChannel'
  <2> SUFFICES ASSUME NEW c \in Channels, NEW u \in Users
               PROVE  /\ streams'[c][u] # None =>
                            here'[streams'[c][u]] = c /\ UserOf[token'[streams'[c][u]]] = u
                      /\ watchers'[c][u] # {} => streams'[c][u] # None
                      /\ watchers'[c][u] \subseteq voice'[c]
                      /\ u \in thumbs' => \E d \in Channels : streams'[d][u] # None
    BY DEF StreamsStayInTheChannel, Uid
  <2>1. ASSUME streams'[c][u] # None
        PROVE  here'[streams'[c][u]] = c /\ UserOf[token'[streams'[c][u]]] = u
    <3>1. streams'[c][u] = streams[c][u] /\ <<c, u>> \notin off
      BY <1>1, <2>1
    <3>2. streams[c][u] \in Sessions /\ here[streams[c][u]] = c /\ Uid(streams[c][u]) = u
      BY <2>1, <3>1, OwnerIsThere DEF Relayed
    <3>3. streams[c][u] # s
      BY <1>3, <3>1, <3>2, NoneIsNone DEF Owns
    <3> QED
      BY <1>1, <3>1, <3>2, <3>3 DEF Uid
  <2>2. ASSUME watchers'[c][u] # {} PROVE streams'[c][u] # None
    <3>1. ~StreamEnds(s, c, u) /\ watchers[c][u] # {}
      BY <1>1, <2>2
    <3>2. streams[c][u] # None
      BY <3>1 DEF Relayed, StreamsStayInTheChannel
    <3>3. <<c, u>> \notin off
      BY <1>2, <3>1 DEF StreamEnds
    <3> QED
      BY <1>1, <3>2, <3>3
  <2>3. watchers'[c][u] \subseteq voice'[c]
    <3>1. watchers'[c][u] \subseteq watchers[c][u] \ {s} /\ voice'[c] = voice[c] \ {s}
      BY <1>1
    <3>2. watchers[c][u] \subseteq voice[c]
      BY DEF Relayed, StreamsStayInTheChannel
    <3> QED
      BY <3>1, <3>2
  <2>4. ASSUME u \in thumbs' PROVE \E d \in Channels : streams'[d][u] # None
    <3>1. u \in thumbs /\ \A d \in Channels : <<d, u>> \notin off
      BY <1>1, <2>4
    <3>2. PICK d \in Channels : streams[d][u] # None
      BY <3>1 DEF Relayed, StreamsStayInTheChannel
    <3>3. <<d, u>> \notin off
      BY <3>1
    <3>4. streams'[d][u] = IF <<d, u>> \in off THEN None ELSE streams[d][u]
      BY <1>1
    <3> QED
      BY <3>2, <3>3, <3>4
  <2> QED
    BY <2>1, <2>2, <2>3, <2>4
<1>5. PassEndsWithTheStay'
  <2> SUFFICES ASSUME NEW u \in Users, NEW c \in passes'[u]
               PROVE  \E x \in voice'[c] : UserOf[token'[x]] = u
    BY DEF PassEndsWithTheStay, Uid
  <2>1. /\ c \in passes[u] /\ c \in Channels
        /\ (Uid(s) = u => here[s] # c) \/ \E t \in voice[c] \ {s} : Uid(t) = u
    BY <1>1, NoneIsNone DEF PassesWithout, Sound, TypeOK
  <2>2. PICK x \in voice[c] : Uid(x) = u
    BY <2>1 DEF Relayed, PassEndsWithTheStay
  <2>3. here[x] = c
    BY <2>1, <2>2 DEF Sound, TypeOK, NoGhosts
  <2>4. voice'[c] = voice[c] \ {s} /\ token' = token
    BY <1>1, <2>1
  <2> QED
    BY <2>1, <2>2, <2>3, <2>4 DEF Uid
<1>6. GroupsHaveMembers'
  <2>1. {s} \in SUBSET Sessions
    OBVIOUS
  <2> QED
    BY <1>1, <2>1, GroupsWithoutThem DEF Relayed
<1>7. RoutesLive'
  BY <1>1 DEF Rerouted, Relayed, RoutesLive, Sound, TypeOK
<1> QED
  BY <1>4, <1>5, <1>6, <1>7 DEF Relayed

LEMMA RemoveRelayed ==
    ASSUME Sound, Relayed, NEW u \in Users, Remove(u)
    PROVE  Relayed'
<1>1. /\ \A x \in Sessions : stage[x] \in {"in", "closing"} => stage'[x] \in {"in", "closing"}
      /\ \A v \in Users : passes'[v] \subseteq passes[v]
      /\ UNCHANGED <<token, route, here, voice, streams, watchers, thumbs, group, channels>>
  BY DEF Remove, media, Sound, TypeOK
<1>2. StreamsStayInTheChannel' /\ GroupsHaveMembers'
  BY <1>1 DEF Relayed, StreamsStayInTheChannel, GroupsHaveMembers, Uid
<1>3. PassEndsWithTheStay'
  BY <1>1 DEF Relayed, PassEndsWithTheStay, Uid
<1>4. RoutesLive'
  BY <1>1 DEF Relayed, RoutesLive, Sound, TypeOK
<1> QED
  BY <1>2, <1>3, <1>4 DEF Relayed

LEMMA DeleteChannelRelayed ==
    ASSUME Sound, Relayed, NEW c \in Channels, DeleteChannel(c)
    PROVE  Relayed'
<1>1. UNCHANGED <<stage, token, route, here, voice, streams, watchers, thumbs, group, passes>>
  BY DEF DeleteChannel, accounts, media
<1> QED
  BY <1>1 DEF Relayed, StreamsStayInTheChannel, PassEndsWithTheStay, GroupsHaveMembers, RoutesLive, Uid

\* What only touches streams cannot disturb the rest.
LEMMA StillRelayed ==
    ASSUME Relayed, UNCHANGED <<accounts, here, voice, passes, group>>, StreamsStayInTheChannel'
    PROVE  Relayed'
<1>1. PassEndsWithTheStay' /\ GroupsHaveMembers' /\ RoutesLive'
  BY DEF accounts, Relayed, PassEndsWithTheStay, GroupsHaveMembers, RoutesLive, Uid
<1> QED
  BY <1>1 DEF Relayed

LEMMA MlsRelayed ==
    ASSUME Sound, Relayed, NEW s \in Sessions, NEW c \in Channels,
           MlsCreate(s, c) \/ \E epoch \in 0..MaxEpoch : MlsCommit(s, c, epoch)
    PROVE  Relayed'
<1>1. /\ UNCHANGED <<accounts, here, voice, media, channels, passes>>
      /\ s \in voice[c] /\ \E g : group' = [group EXCEPT ![c] = g]
  BY DEF MlsCreate, MlsCommit
<1>2. StreamsStayInTheChannel' /\ PassEndsWithTheStay' /\ RoutesLive'
  BY <1>1 DEF accounts, media, Relayed, StreamsStayInTheChannel, PassEndsWithTheStay, RoutesLive, Uid
<1>3. GroupsHaveMembers'
  BY <1>1 DEF Relayed, GroupsHaveMembers, Sound, TypeOK
<1> QED
  BY <1>2, <1>3 DEF Relayed

LEMMA StartStreamRelayed ==
    ASSUME Sound, Relayed, NEW s \in Sessions, StartStream(s)
    PROVE  Relayed'
<1>1. here[s] \in Channels /\ Uid(s) \in Users
  BY InVoiceLives DEF StartStream
<1>2. /\ streams' = [streams EXCEPT ![here[s]][Uid(s)] = s]
      /\ UNCHANGED <<accounts, here, voice, watchers, group, channels, passes, thumbs>>
  BY DEF StartStream
<1>3. StreamsStayInTheChannel'
  <2>1. \A c \in Channels, u \in Users :
            streams'[c][u] = IF c = here[s] /\ u = Uid(s) THEN s ELSE streams[c][u]
    BY <1>1, <1>2 DEF Sound, TypeOK
  <2>2. \A c \in Channels, u \in Users : streams[c][u] # None => streams'[c][u] # None
    BY <2>1, NoneIsNone
  <2> SUFFICES ASSUME NEW c \in Channels, NEW u \in Users
               PROVE  /\ streams'[c][u] # None =>
                            here[streams'[c][u]] = c /\ UserOf[token[streams'[c][u]]] = u
                      /\ watchers[c][u] # {} => streams'[c][u] # None
                      /\ watchers[c][u] \subseteq voice[c]
                      /\ u \in thumbs => \E d \in Channels : streams'[d][u] # None
    BY <1>2 DEF StreamsStayInTheChannel, Uid, accounts
  <2>3. streams'[c][u] # None =>
            here[streams'[c][u]] = c /\ UserOf[token[streams'[c][u]]] = u
    BY <2>1 DEF Relayed, StreamsStayInTheChannel, Uid
  <2>4. /\ watchers[c][u] # {} => streams'[c][u] # None
        /\ watchers[c][u] \subseteq voice[c]
    BY <2>2 DEF Relayed, StreamsStayInTheChannel
  <2>5. u \in thumbs => \E d \in Channels : streams'[d][u] # None
    BY <2>2 DEF Relayed, StreamsStayInTheChannel
  <2> QED
    BY <2>3, <2>4, <2>5
<1> QED
  BY <1>2, <1>3, StillRelayed

LEMMA StopStreamRelayed ==
    ASSUME Sound, Relayed, NEW s \in Sessions, NEW c \in Channels, StopStream(s, c)
    PROVE  Relayed'
<1>1. /\ \A d \in Channels, u \in Users :
            streams'[d][u] = IF <<d, u>> \in {<<c, Uid(s)>>} THEN None ELSE streams[d][u]
      /\ \A d \in Channels, u \in Users :
            watchers'[d][u] = IF <<d, u>> \in {<<c, Uid(s)>>} THEN {} ELSE watchers[d][u]
      /\ \A u \in thumbs' : u \in thumbs /\ \A d \in Channels : <<d, u>> \notin {<<c, Uid(s)>>}
      /\ UNCHANGED <<accounts, here, voice, group, channels, passes>>
  BY DEF StopStream, StreamsWithout, WatchersWithout, ThumbsWithout, Sound, TypeOK
<1>2. StreamsStayInTheChannel'
  <2> SUFFICES ASSUME NEW d \in Channels, NEW u \in Users
               PROVE  /\ streams'[d][u] # None =>
                            here[streams'[d][u]] = d /\ UserOf[token[streams'[d][u]]] = u
                      /\ watchers'[d][u] # {} => streams'[d][u] # None
                      /\ watchers'[d][u] \subseteq voice[d]
                      /\ u \in thumbs' => \E e \in Channels : streams'[e][u] # None
    BY <1>1 DEF StreamsStayInTheChannel, Uid, accounts
  <2>1. /\ streams'[d][u] # None =>
              here[streams'[d][u]] = d /\ UserOf[token[streams'[d][u]]] = u
        /\ watchers'[d][u] # {} => streams'[d][u] # None
        /\ watchers'[d][u] \subseteq voice[d]
    <3>1. CASE <<d, u>> \in {<<c, Uid(s)>>}
      BY <1>1, <3>1
    <3>2. CASE <<d, u>> \notin {<<c, Uid(s)>>}
      <4>1. streams'[d][u] = streams[d][u] /\ watchers'[d][u] = watchers[d][u]
        BY <1>1, <3>2
      <4> QED
        BY <4>1 DEF Relayed, StreamsStayInTheChannel, Uid
    <3> QED
      BY <3>1, <3>2
  <2>2. ASSUME u \in thumbs' PROVE \E e \in Channels : streams'[e][u] # None
    <3>1. u \in thumbs /\ \A e \in Channels : <<e, u>> \notin {<<c, Uid(s)>>}
      BY <1>1, <2>2
    <3>2. PICK e \in Channels : streams[e][u] # None
      BY <3>1 DEF Relayed, StreamsStayInTheChannel
    <3>3. streams'[e][u] = streams[e][u]
      BY <1>1, <3>1
    <3> QED
      BY <3>2, <3>3
  <2> QED
    BY <2>1, <2>2
<1> QED
  BY <1>1, <1>2, StillRelayed

LEMMA WatchingRelayed ==
    ASSUME Sound, Relayed, NEW s \in Sessions, NEW c \in Channels, NEW v \in Users,
           Watch(s, v) \/ StopWatching(s, c, v) \/ ThumbnailUpdate(s, c)
    PROVE  Relayed'
<1>1. UNCHANGED <<accounts, here, voice, streams, group, channels, passes>>
  BY DEF Watch, StopWatching, ThumbnailUpdate
<1>2. StreamsStayInTheChannel'
  <2>1. CASE Watch(s, v)
    <3>1. /\ here[s] \in Channels /\ streams[here[s]][v] # None
          /\ watchers' = [watchers EXCEPT ![here[s]][v] = @ \cup {s}] /\ thumbs' = thumbs
      BY <2>1, InVoiceLives DEF Watch
    <3>2. s \in voice[here[s]]
      BY <3>1 DEF Sound, NoGhosts
    <3> QED
      BY <1>1, <3>1, <3>2 DEF accounts, Relayed, StreamsStayInTheChannel, Uid, Sound, TypeOK
  <2>2. CASE StopWatching(s, c, v)
    BY <1>1, <2>2 DEF StopWatching, accounts, Relayed, StreamsStayInTheChannel, Uid, Sound, TypeOK
  <2>3. CASE ThumbnailUpdate(s, c)
    BY <1>1, <2>3 DEF ThumbnailUpdate, accounts, Relayed, StreamsStayInTheChannel, Uid
  <2> QED
    BY <2>1, <2>2, <2>3
<1> QED
  BY <1>1, <1>2, StillRelayed

LEMMA InitRelayed == Init => Relayed
BY DEF Init, Relayed, StreamsStayInTheChannel, PassEndsWithTheStay, GroupsHaveMembers, RoutesLive

LEMMA StepRelayed == Sound /\ Relayed /\ [Next]_vars => Relayed'
<1> SUFFICES ASSUME Sound, Relayed, [Next]_vars PROVE Relayed'
  OBVIOUS
<1>1. ASSUME NEW s \in Sessions, NEW t \in Tokens, Authenticate(s, t) PROVE Relayed'
  BY <1>1, AuthenticateRelayed
<1>2. ASSUME NEW s \in Sessions, Leave(s) \/ LeaveVoice(s) \/ StartStream(s) PROVE Relayed'
  BY <1>2, LeaveRelayed, PlacingRelayed, StartStreamRelayed
<1>3. ASSUME NEW u \in Users, Remove(u) \/ Disconnect(u) PROVE Relayed'
  BY <1>3, RemoveRelayed, PlacingRelayed
<1>4. ASSUME NEW s \in Sessions, NEW c \in Channels, JoinVoice(s, c) \/ StopStream(s, c)
      PROVE  Relayed'
  BY <1>4, PlacingRelayed, StopStreamRelayed
<1>5. ASSUME NEW s \in Sessions, NEW c \in Channels,
             MlsCreate(s, c) \/ \E epoch \in 0..MaxEpoch : MlsCommit(s, c, epoch)
      PROVE  Relayed'
  BY <1>5, MlsRelayed
<1>6. ASSUME NEW u \in Users, NEW c \in Channels, Move(u, c) PROVE Relayed'
  BY <1>6, PlacingRelayed
<1>7. ASSUME NEW c \in Channels, DeleteChannel(c) PROVE Relayed'
  BY <1>7, DeleteChannelRelayed
<1>8. ASSUME NEW s \in Sessions, NEW c \in Channels, ThumbnailUpdate(s, c) PROVE Relayed'
  <2>1. Uid(s) \in Users
    BY <1>8, UidType DEF ThumbnailUpdate, Acts
  <2> QED
    BY <1>8, <2>1, WatchingRelayed
<1>9. ASSUME NEW s \in Sessions, NEW v \in Users, Watch(s, v) PROVE Relayed'
  <2>1. here[s] \in Channels
    BY <1>9, InVoiceLives DEF Watch
  <2> QED
    BY <1>9, <2>1, WatchingRelayed
<1>10. ASSUME NEW s \in Sessions, NEW c \in Channels, NEW v \in Users, StopWatching(s, c, v)
       PROVE  Relayed'
  BY <1>10, WatchingRelayed
<1>11. CASE UNCHANGED vars
  <2>1. StreamsStayInTheChannel'
    BY <1>11 DEF vars, Relayed, StreamsStayInTheChannel, Uid
  <2> QED
    BY <1>11, <2>1, StillRelayed DEF vars, accounts
<1> QED
  BY <1>1, <1>2, <1>3, <1>4, <1>5, <1>6, <1>7, <1>8, <1>9, <1>10, <1>11 DEF Next

LEMMA SoundAndRelayed == Spec => [](Sound /\ Relayed)
BY InitSound, StepSound, InitRelayed, StepRelayed, PTL DEF Spec

\* However streams are started, taken over, watched and left behind, the relay
\* never has an owner or a watcher outside the stream's channel.
THEOREM RelayStaysInside == Spec => []StreamsStayInTheChannel
<1>1. Relayed => StreamsStayInTheChannel
  BY DEF Relayed
<1> QED
  BY <1>1, SoundAndRelayed, PTL

\* A voice pass is gone by the time the last of the account's sessions has left
\* the channel it was given for.
THEOREM PassesEnd == Spec => []PassEndsWithTheStay
<1>1. Relayed => PassEndsWithTheStay
  BY DEF Relayed
<1> QED
  BY <1>1, SoundAndRelayed, PTL

-----------------------------------------------------------------------------
(* What no step does.                                                      *)

\* Some sessions are placed somewhere.
APlacing ==
    \E S \in SUBSET Sessions, to \in channels \cup {None}, held \in [Users -> SUBSET Channels] :
        \E off : /\ Place(S, to, off, held) /\ Leads(S, to, off)
                /\ UNCHANGED <<accounts, channels>>

LEMMA IsAPlacing ==
    ASSUME NEW S \in SUBSET Sessions, NEW to \in channels \cup {None},
           NEW held \in [Users -> SUBSET Channels], NEW off,
           Place(S, to, off, held), Leads(S, to, off), UNCHANGED <<accounts, channels>>
    PROVE  APlacing
BY Zenon DEF APlacing

LEMMA PlacingKinds ==
    ASSUME Sound,
           \/ \E s \in Sessions : LeaveVoice(s) \/ \E c \in Channels : JoinVoice(s, c)
           \/ \E u \in Users : Disconnect(u) \/ \E c \in Channels : Move(u, c)
    PROVE  APlacing
<1>1. passes \in [Users -> SUBSET Channels]
  BY DEF Sound, TypeOK
<1>2. ASSUME NEW s \in Sessions, LeaveVoice(s) PROVE APlacing
  <2>1. {s} \in SUBSET Sessions
    OBVIOUS
  <2> QED
    BY <1>1, <1>2, <2>1, LeaveVoicePlaces, IsAPlacing
<1>3. ASSUME NEW s \in Sessions, NEW c \in Channels, JoinVoice(s, c) PROVE APlacing
  <2>1. {s} \in SUBSET Sessions
    OBVIOUS
  <2>2. PICK off : /\ Place({s}, c, off, passes) /\ Leads({s}, c, off)
                   /\ PassIsUsed({s}, c, passes) /\ c \in channels
                   /\ UNCHANGED <<accounts, channels>>
    BY <1>3, JoinVoicePlaces
  <2> QED
    BY <1>1, <2>1, <2>2, IsAPlacing
<1>4. ASSUME NEW u \in Users, Disconnect(u) PROVE APlacing
  BY <1>1, <1>4, DisconnectPlaces, IsAPlacing
<1>5. ASSUME NEW u \in Users, NEW c \in Channels, Move(u, c) PROVE APlacing
  BY <1>5, MovePlaces, IsAPlacing
<1> QED
  BY <1>2, <1>3, <1>4, <1>5

\* Nothing of a stream or of a group changes.
Quiet == UNCHANGED <<here, voice, streams, group>>

\* The disjuncts of the next-state relation, by what they do to voice.
LEMMA StepKinds ==
    ASSUME Sound, [Next]_vars
    PROVE  \/ APlacing
           \/ \E s \in Sessions : Leave(s) \/ StartStream(s) \/ \E c \in Channels : StopStream(s, c)
           \/ \E s \in Sessions, c \in Channels :
                 MlsCreate(s, c) \/ \E epoch \in 0..MaxEpoch : MlsCommit(s, c, epoch)
           \/ Quiet
<1> DEFINE Places ==
      \/ \E s \in Sessions : LeaveVoice(s) \/ \E c \in Channels : JoinVoice(s, c)
      \/ \E u \in Users : Disconnect(u) \/ \E c \in Channels : Move(u, c)
<1>1. CASE Places
  BY <1>1, PlacingKinds
<1>2. ASSUME NEW s \in Sessions, NEW t \in Tokens, Authenticate(s, t) PROVE Quiet
  BY <1>2 DEF Authenticate, media, Quiet
<1>3. ASSUME NEW u \in Users, Remove(u) PROVE Quiet
  BY <1>3 DEF Remove, media, Quiet
<1>4. ASSUME NEW c \in Channels, DeleteChannel(c) PROVE Quiet
  BY <1>4 DEF DeleteChannel, media, Quiet
<1>5. ASSUME NEW s \in Sessions, NEW c \in Channels, ThumbnailUpdate(s, c) PROVE Quiet
  BY <1>5 DEF ThumbnailUpdate, Quiet
<1>6. ASSUME NEW s \in Sessions, NEW v \in Users, Watch(s, v) PROVE Quiet
  BY <1>6 DEF Watch, Quiet
<1>7. ASSUME NEW s \in Sessions, NEW c \in Channels, NEW v \in Users, StopWatching(s, c, v)
      PROVE  Quiet
  BY <1>7 DEF StopWatching, Quiet
<1>8. CASE UNCHANGED vars
  BY <1>8 DEF vars, Quiet
<1> QED
  BY <1>1, <1>2, <1>3, <1>4, <1>5, <1>6, <1>7, <1>8 DEF Next

LEMMA PlaceSparesStreams ==
    ASSUME Sound, StreamsStayInTheChannel, NEW S \in SUBSET Sessions, NEW to, NEW off, NEW held,
           Place(S, to, off, held), Leads(S, to, off),
           \A s \in S : Uid(s) \in Users \/ here[s] = None,
           NEW c \in Channels, NEW u \in Users, streams[c][u] # None, streams'[c][u] = None
    PROVE  here'[streams[c][u]] # c
<1>1. <<c, u>> \in off /\ off # {}
  BY DEF Place, StreamsWithout
<1>2. off = StreamsOf(S) /\ \A s \in S : here[s] # to
  BY <1>1 DEF Leads
<1>3. PICK s \in S : here[s] = c /\ Uid(s) = u /\ Owns(s, c)
  BY <1>1, <1>2 DEF StreamsOf
<1>4. streams[c][u] = s
  BY <1>3, OwnsItsOwn
<1> QED
  BY <1>2, <1>3, <1>4 DEF Place

\* Whoever takes a stream down is its owner leaving the channel, or stopping it.
LEMMA StepSparesStreams ==
    ASSUME Sound, Relayed, [Next]_vars, NEW c \in Channels, NEW u \in Users,
           streams[c][u] # None, streams'[c][u] = None
    PROVE  here'[streams[c][u]] # c \/ StopStream(streams[c][u], c)
<1>1. ASSUME NEW S \in SUBSET Sessions, NEW to \in channels \cup {None}, NEW off,
             NEW held \in [Users -> SUBSET Channels],
             Place(S, to, off, held), Leads(S, to, off), UNCHANGED <<accounts, channels>>
      PROVE  here'[streams[c][u]] # c
  <2>1. \A s \in S : Uid(s) \in Users \/ here[s] = None
    BY InVoiceLives
  <2> QED
    BY <1>1, <2>1, PlaceSparesStreams DEF Relayed
<1>2. ASSUME NEW s \in Sessions, Leave(s) PROVE here'[streams[c][u]] # c
  <2>1. Uid(s) \in Users
    BY <1>2, UidType DEF Leave
  <2>2. u = Uid(s) /\ Owns(s, c)
    BY <1>2 DEF Leave, StreamsWithout
  <2>3. streams[c][u] = s
    BY <2>1, <2>2, OwnsItsOwn DEF Relayed
  <2> QED
    BY <1>2, <2>3, NoneIsNone DEF Leave, Sound, TypeOK
<1>3. ASSUME NEW s \in Sessions, StartStream(s) PROVE FALSE
  BY <1>3, NoneIsNone DEF StartStream, Sound, TypeOK
<1>4. ASSUME NEW s \in Sessions, NEW d \in Channels, StopStream(s, d)
      PROVE  StopStream(streams[c][u], c)
  <2>1. Uid(s) \in Users
    BY <1>4, UidType DEF StopStream, Acts
  <2>2. d = c /\ u = Uid(s) /\ Owns(s, c)
    BY <1>4 DEF StopStream, StreamsWithout
  <2>3. streams[c][u] = s
    BY <2>1, <2>2, OwnsItsOwn DEF Relayed
  <2> QED
    BY <1>4, <2>2, <2>3
<1>5. ASSUME NEW s \in Sessions, NEW d \in Channels,
             MlsCreate(s, d) \/ \E epoch \in 0..MaxEpoch : MlsCommit(s, d, epoch)
      PROVE  FALSE
  BY <1>5 DEF MlsCreate, MlsCommit, media
<1>6. CASE Quiet
  BY <1>6 DEF Quiet
<1>7. CASE APlacing
  BY <1>1, <1>7 DEF APlacing
<1> QED
  BY <1>2, <1>3, <1>4, <1>5, <1>6, <1>7, StepKinds

\* No session of an account ends a stream another one of its sessions owns.
THEOREM StreamsAreTheirOwners == Spec => StreamsEndWithTheirOwner
<1>1. Sound /\ Relayed /\ [Next]_vars =>
        \A c \in Channels, u \in Users :
          LET owner == streams[c][u]
          IN  (owner # None /\ streams'[c][u] = None)
                 => here'[owner] # c \/ StopStream(owner, c)
  BY StepSparesStreams
<1> QED
  BY <1>1, SoundAndRelayed, PTL DEF Spec, StreamsEndWithTheirOwner

\* A group is reset only when whoever was there has gone, or was there alone.
LEMMA PlaceKeepsGroups ==
    ASSUME Sound, NEW S \in SUBSET Sessions, NEW to, NEW off, NEW held,
           Place(S, to, off, held), Leads(S, to, off), NEW c \in Channels,
           NEW s \in voice[c], NEW t \in voice[c], s # t, s \in voice'[c] \/ t \in voice'[c]
    PROVE  group'[c] = group[c]
<1>1. voice'[c] = IF c = to THEN voice[c] \cup S ELSE voice[c] \ S
  BY DEF Place, PlacedOnly
<1>2. group'[c] = IF (\E x \in S : here[x] = c) /\ voice[c] \subseteq S THEN None ELSE group[c]
  BY DEF Place, GroupsWithout
<1>3. CASE c # to
  BY <1>1, <1>2, <1>3
<1>4. CASE c = to /\ \A x \in S : here[x] # to
  BY <1>2, <1>4
<1>5. CASE \E x \in Sessions : S = {x}
  BY <1>2, <1>5
<1> QED
  BY <1>3, <1>4, <1>5 DEF Leads

LEMMA StepKeepsGroups ==
    ASSUME Sound, [Next]_vars, NEW c \in Channels, group[c] # None,
           NEW s \in voice[c], NEW t \in voice[c], s # t, s \in voice'[c] \/ t \in voice'[c]
    PROVE  group'[c] \in {group[c], group[c] + 1}
<1>1. CASE APlacing
  BY <1>1, PlaceKeepsGroups DEF APlacing
<1>2. ASSUME NEW x \in Sessions, Leave(x) PROVE group'[c] = group[c]
  <2>1. group'[c] = IF (\E y \in {x} : here[y] = c) /\ voice[c] \subseteq {x} THEN None ELSE group[c]
    BY <1>2 DEF Leave, GroupsWithout
  <2> QED
    BY <2>1
<1>3. ASSUME NEW x \in Sessions, NEW d \in Channels, StartStream(x) \/ StopStream(x, d)
      PROVE  group' = group
  BY <1>3 DEF StartStream, StopStream
<1>4. ASSUME NEW x \in Sessions, StartStream(x) PROVE group' = group
  BY <1>4 DEF StartStream
<1>5. ASSUME NEW x \in Sessions, NEW d \in Channels, MlsCreate(x, d) PROVE group'[c] = group[c]
  BY <1>5 DEF MlsCreate, Sound, TypeOK
<1>6. ASSUME NEW x \in Sessions, NEW d \in Channels, NEW epoch \in 0..MaxEpoch,
             MlsCommit(x, d, epoch)
      PROVE  group'[c] \in {group[c], group[c] + 1}
  BY <1>6 DEF MlsCommit, Sound, TypeOK
<1>7. CASE Quiet
  BY <1>7 DEF Quiet
<1> QED
  BY <1>1, <1>2, <1>3, <1>4, <1>5, <1>6, <1>7, StepKinds

\* An MLS group outlives nobody, and no rejoin or move resets it under those
\* who stay.
THEOREM GroupsLastWithTheirMembers == Spec => GroupLastsWithTheMembers
<1>1. Sound /\ Relayed /\ Relayed' /\ [Next]_vars =>
        \A c \in Channels :
          /\ voice'[c] = {} => group'[c] = None
          /\ (group[c] # None /\ \E s, t \in voice[c] : s # t /\ (s \in voice'[c] \/ t \in voice'[c]))
                => group'[c] \in {group[c], group[c] + 1}
  <2> SUFFICES ASSUME Sound, Relayed', [Next]_vars, NEW c \in Channels
               PROVE  /\ voice'[c] = {} => group'[c] = None
                      /\ (group[c] # None /\ \E s, t \in voice[c] :
                                s # t /\ (s \in voice'[c] \/ t \in voice'[c]))
                           => group'[c] \in {group[c], group[c] + 1}
    OBVIOUS
  <2>1. voice'[c] = {} => group'[c] = None
    BY DEF Relayed, GroupsHaveMembers
  <2>2. ASSUME group[c] # None, NEW s \in voice[c], NEW t \in voice[c], s # t,
               s \in voice'[c] \/ t \in voice'[c]
        PROVE  group'[c] \in {group[c], group[c] + 1}
    BY <2>2, StepKeepsGroups
  <2> QED
    BY <2>1, <2>2
<1> QED
  BY <1>1, SoundAndRelayed, PTL DEF Spec, GroupLastsWithTheMembers

\* Where the UDP relay looks a token up.
LEMMA RoutesMove ==
    ASSUME Sound, Relayed, [Next]_vars, NEW t \in Tokens
    PROVE  \/ route'[t] = route[t]
           \/ \E s \in Sessions : route'[t] = s /\ stage[s] = "new"
           \/ route'[t] = None /\ route[t] \in Sessions /\ stage'[route[t]] = "gone"
<1>1. ASSUME NEW s \in Sessions, NEW r \in Tokens, Authenticate(s, r)
      PROVE  route'[t] = route[t] \/ (route'[t] = s /\ stage[s] = "new")
  <2>1. route' = [route EXCEPT ![r] = s] /\ stage[s] = "new"
    BY <1>1 DEF Authenticate
  <2> QED
    BY <2>1 DEF Sound, TypeOK
<1>2. ASSUME NEW s \in Sessions, Leave(s), route'[t] # route[t]
      PROVE  route'[t] = None /\ route[t] \in Sessions /\ stage'[route[t]] = "gone"
  <2>1. route'[t] = IF route[t] = s THEN None ELSE route[t]
    BY <1>2 DEF Leave, Rerouted
  <2>2. stage' = [stage EXCEPT ![s] = "gone"]
    BY <1>2 DEF Leave
  <2> QED
    BY <1>2, <2>1, <2>2 DEF Sound, TypeOK
<1>3. CASE APlacing
  BY <1>3 DEF APlacing, accounts
<1>4. ASSUME NEW s \in Sessions, StartStream(s) PROVE route' = route
  BY <1>4 DEF StartStream, accounts
<1>5. ASSUME NEW s \in Sessions, NEW c \in Channels, StopStream(s, c) \/ ThumbnailUpdate(s, c)
      PROVE  route' = route
  BY <1>5 DEF StopStream, ThumbnailUpdate, accounts
<1>6. ASSUME NEW s \in Sessions, NEW c \in Channels,
             MlsCreate(s, c) \/ \E epoch \in 0..MaxEpoch : MlsCommit(s, c, epoch)
      PROVE  route' = route
  BY <1>6 DEF MlsCreate, MlsCommit, accounts
<1>7. ASSUME NEW u \in Users, Remove(u) PROVE route' = route
  BY <1>7 DEF Remove
<1>8. ASSUME NEW c \in Channels, DeleteChannel(c) PROVE route' = route
  BY <1>8 DEF DeleteChannel, accounts
<1>9. ASSUME NEW s \in Sessions, NEW v \in Users,
             Watch(s, v) \/ \E c \in Channels : StopWatching(s, c, v)
      PROVE  route' = route
  BY <1>9 DEF Watch, StopWatching, accounts
<1>10. CASE UNCHANGED vars
  BY <1>10 DEF vars
<1> QED
  BY <1>1, <1>2, <1>3, <1>4, <1>5, <1>6, <1>7, <1>8, <1>9, <1>10, PlacingKinds DEF Next

\* The relay finds the session that signed in last, and never a dead one.
THEOREM RelayFindsTheNewest == Spec => UdpFollowsTheNewest
<1>1. Sound /\ Relayed /\ Sound' /\ Relayed' /\ [Next]_vars =>
        \A t \in Tokens :
          LET before == route[t]
              after  == route'[t]
          IN  /\ after # None => stage'[after] \in {"in", "closing"} /\ token'[after] = t
              /\ (before # None /\ after # before)
                    => IF after = None THEN stage'[before] = "gone"
                                       ELSE stage[after] = "new"
  BY RoutesMove, NoneIsNone DEF Relayed, RoutesLive
<1> QED
  BY <1>1, SoundAndRelayed, PTL DEF Spec, UdpFollowsTheNewest

=============================================================================
