------------------------ MODULE ChannelHistoryProofs ------------------------
(***************************************************************************)
(* Theorems about ChannelHistory, for any number of rows, posts, sends and *)
(* losses and for any sizes of pages and caps.                             *)
(*                                                                         *)
(* A handler is a few mutators of `client` one after another.  Each of     *)
(* them keeps the record well formed and goes on in the sense of `Goes`,   *)
(* which is transitive; so does the handler.                               *)
(*                                                                         *)
(* Two invariants follow one another: Inv, of the types and of what is     *)
(* said of sends, and Told, of the line in which requests, packets and     *)
(* waits stand, for the echo watchdog.  ChannelSliceProofs goes on with    *)
(* the rows of the slice.                                                  *)
(***************************************************************************)
EXTENDS ChannelHistory, FiniteSetTheorems, SequenceTheorems, WellFoundedInduction,
        TLAPS

-----------------------------------------------------------------------------
(* Numbers and sets.                                                       *)

(* Every set of numbers that is not empty has a least one.                 *)
LEMMA LeastNat ==
  ASSUME NEW S \in SUBSET Nat, S # {}
  PROVE  \E m \in S : \A x \in S : m <= x
<1> DEFINE R == OpToRel(<, Nat)
<1>1. IsWellFoundedOn(R, Nat)
  BY NatLessThanWellFounded
<1>2. \E x \in S : \A y \in S : ~ (<<y, x>> \in R)
  <2> HIDE DEF R
  <2> QED BY <1>1, WFMin
<1>3. \A x, y \in S : ~ (<<y, x>> \in R) => x <= y
  BY DEF OpToRel
<1> QED BY <1>2, <1>3

(* A bounded one has a greatest.                                           *)
LEMMA GreatestNat ==
  ASSUME NEW k \in Nat, NEW S \in SUBSET (0..k), S # {}
  PROVE  \E m \in S : \A x \in S : x <= m
<1> DEFINE U == {u \in Nat : \A x \in S : x <= u}
<1>1. k \in U
  OBVIOUS
<1>2. PICK m \in U : \A u \in U : m <= u
  BY <1>1, LeastNat
<1>3. m \in S
  <2>1. SUFFICES ASSUME m \notin S PROVE FALSE
    OBVIOUS
  <2>2. PICK s \in S : TRUE
    OBVIOUS
  <2>3. m - 1 \in U
    BY <2>1, <2>2
  <2> QED BY <1>2, <2>3
<1> QED BY <1>3

LEMMA NewestIs ==
  ASSUME NEW k \in Nat, NEW S \in SUBSET (1..k)
  PROVE  /\ Newest(S) \in 0..k
         /\ S = {} => Newest(S) = 0
         /\ S # {} => Newest(S) \in S
         /\ \A x \in S : x <= Newest(S)
<1>1. CASE S = {}
  BY <1>1 DEF Newest
<1>2. CASE S # {}
  <2>1. \E m \in S : \A x \in S : x <= m
    <3>1. S \in SUBSET (0..k)
      OBVIOUS
    <3> QED BY <3>1, <1>2, GreatestNat
  <2> DEFINE End(r) == \A x \in S : x <= r
  <2> DEFINE e == CHOOSE r \in S : End(r)
  <2>2. Newest(S) = e
    BY <1>2 DEF Newest
  <2>3. \E m \in S : End(m)
    BY <2>1
  <2>4. e \in S /\ End(e)
    <3> HIDE DEF End
    <3> QED BY <2>3, Zenon
  <2> HIDE DEF e
  <2> QED BY <2>2, <2>4, <1>2
<1> QED BY <1>1, <1>2

LEMMA OldestIs ==
  ASSUME NEW k \in Nat, NEW S \in SUBSET (1..k)
  PROVE  /\ Oldest(S) \in 0..k
         /\ S = {} => Oldest(S) = 0
         /\ S # {} => Oldest(S) \in S
         /\ \A x \in S : Oldest(S) <= x
<1>1. CASE S = {}
  BY <1>1 DEF Oldest
<1>2. CASE S # {}
  <2>1. \E m \in S : \A x \in S : m <= x
    <3>1. S \in SUBSET Nat
      OBVIOUS
    <3> QED BY <3>1, <1>2, LeastNat
  <2> DEFINE End(r) == \A x \in S : r <= x
  <2> DEFINE e == CHOOSE r \in S : End(r)
  <2>2. Oldest(S) = e
    BY <1>2 DEF Oldest
  <2>3. \E m \in S : End(m)
    BY <2>1
  <2>4. e \in S /\ End(e)
    <3> HIDE DEF End
    <3> QED BY <2>3, Zenon
  <2> HIDE DEF e
  <2> QED BY <2>2, <2>4, <1>2
<1> QED BY <1>1, <1>2

(* The elements of a finite set, in some order.                            *)
LEMMA SeqOfSet ==
  ASSUME NEW S, IsFiniteSet(S)
  PROVE  SetToSeq(S) \in Seq(S)
<1>1. \E f \in [1..Cardinality(S) -> S] : IsInjective(f)
  BY FS_CardinalityType DEF ExistsBijection, Bijection, Injection, IsInjective
<1>2. Cardinality(S) \in Nat
  BY FS_CardinalityType
<1>3. SetToSeq(S) \in [1..Cardinality(S) -> S]
  BY <1>1 DEF SetToSeq
<1> QED BY <1>2, <1>3

(* What is left when the i-th element is taken out.                        *)
LEMMA RemoveAtIs ==
  ASSUME NEW S, NEW s \in Seq(S), NEW i \in 1..Len(s)
  PROVE  /\ RemoveAt(s, i) \in Seq(S)
         /\ Len(RemoveAt(s, i)) = Len(s) - 1
         /\ \A j \in 1..(Len(s) - 1) :
               RemoveAt(s, i)[j] = IF j < i THEN s[j] ELSE s[j + 1]
<1> DEFINE a == SubSeq(s, 1, i - 1)
           b == SubSeq(s, i + 1, Len(s))
<1>1. a \in Seq(S) /\ Len(a) = i - 1 /\ \A j \in 1..(i - 1) : a[j] = s[j]
  BY SubSeqProperties
<1>2. b \in Seq(S) /\ Len(b) = Len(s) - i /\ \A j \in 1..(Len(s) - i) : b[j] = s[j + i]
  BY SubSeqProperties
<1>3. RemoveAt(s, i) = a \o b
  BY DEF RemoveAt
<1> HIDE DEF a, b
<1>4. a \o b \in Seq(S) /\ Len(a \o b) = Len(a) + Len(b)
  BY <1>1, <1>2, ConcatProperties
<1>5. \A j \in 1..(Len(a) + Len(b)) :
        (a \o b)[j] = IF j <= Len(a) THEN a[j] ELSE b[j - Len(a)]
  BY <1>1, <1>2, ConcatProperties
<1>6. ASSUME NEW j \in 1..(Len(s) - 1)
      PROVE  RemoveAt(s, i)[j] = IF j < i THEN s[j] ELSE s[j + 1]
  BY <1>1, <1>2, <1>3, <1>5, <1>6
<1> QED BY <1>1, <1>2, <1>3, <1>4, <1>6

-----------------------------------------------------------------------------
(* The state is well formed.  No id is above `last`.                       *)

Row(k) == 1..k
Modes == {"latest", "before", "around", "after"}

Waits == [mode: {"before", "around", "after"}, cur: Nat,
          by: {"latest", "older", "newer", "jump", "check"}, arg: Nat,
          page: 1..CheckPages]
Asks == [t: {"page"}, mode: Modes, id: Nat, limit: Nat] \cup [t: {"send"}, id: Sends]
          \cup [t: {"delete"}, id: Nat]

Packets(k) ==
  [t: {"msg", "page", "auth", "rejected", "deleted", "ack"}, id: Nat,
   send: Sends \cup {0}, mode: Modes \cup {""}, cur: Nat, rows: SUBSET Row(k),
   more: BOOLEAN, newer: BOOLEAN]

(* A packet says what its kind says.                                       *)
PacketOK(p, k) ==
  /\ p.t = "msg" => p.id \in Row(k)
  /\ p.t = "page" => p.mode \in Modes
  /\ p.t = "rejected" => p.send \in Sends

Clients(k) ==
  [rows: SUBSET Row(k), cached: BOOLEAN, older: BOOLEAN, newer: BOOLEAN,
   fetched: BOOLEAN, loading: BOOLEAN, resyncing: BOOLEAN,
   held: SUBSET Row(k), lapsed: BOOLEAN, deleting: SUBSET Row(k),
   bubble: [Sends -> {"none", "pending", "sent"}], after: [Sends -> Nat],
   check: [Sends -> {"new", "queued", "armed", "waiting", "asking", "off"}],
   shown: BOOLEAN, bottom: BOOLEAN, saved: {"none", "bottom", "up"},
   lastBefore: Nat, lastAfter: Nat, jump: Nat,
   waits: Seq(Waits), asks: Seq(Asks), load: {"idle", "asked", "delay"}, tries: Nat,
   stuck: BOOLEAN, resync: BOOLEAN, withdrawn: SUBSET Sends]

(* Who waits for the reply of a check has composed its send.               *)
WaitOK(c, w) == w.by = "check" => w.arg \in Sends /\ c.check[w.arg] # "new"
WaitsOK(c) == \A i \in DOMAIN c.waits : WaitOK(c, c.waits[i])

Sound(c) == c \in Clients(last) /\ WaitsOK(c)

Spent == [drops: Nat, deletes: Nat, refusals: Nat, jumps: Nat, losses: Nat,
          visits: Nat, evicts: Nat]

TypeOK ==
  /\ last \in Nat /\ log \subseteq Row(last)
  /\ stored \in [Sends -> 0..last]
  /\ up \in BOOLEAN
  /\ wire \in Seq(Packets(last)) /\ \A i \in DOMAIN wire : PacketOK(wire[i], last)
  /\ jobs \in Seq(Packets(last)) /\ \A i \in DOMAIN jobs : PacketOK(jobs[i], last)
  /\ Sound(client)
  /\ spent \in Spent

-----------------------------------------------------------------------------
(* How the renderer goes on.                                               *)

Confirmed(d, r) == \A n \in Sends : stored[n] = r => d.bubble[n] = "none"

(* From c to d no send is composed or transmitted, none is asked for twice, *)
(* and a row that comes in has settled the bubble it confirms.             *)
Goes(c, d) ==
  /\ \A n \in Sends : d.bubble[n] # "none" => c.bubble[n] # "none"
  /\ \A n \in Sends : d.check[n] \in {"new", "queued"} => c.check[n] = d.check[n]
  /\ \A n \in Sends : c.check[n] = "new" => d.check[n] = "new"
  /\ \A r \in d.rows \cup d.deleting : r \in c.rows \cup c.deleting \/ Confirmed(d, r)
  /\ \A i \in DOMAIN d.asks : d.asks[i].t = "send" =>
        i \in DOMAIN c.asks /\ c.asks[i] = d.asks[i]
  /\ c.withdrawn \subseteq d.withdrawn

LEMMA GoesOn ==
  ASSUME NEW c, NEW d, NEW e, Goes(c, d), Goes(d, e)
  PROVE  Goes(c, e)
BY DEF Goes, Confirmed

(* A bubble that goes leaves its row at the server, or its text here; and   *)
(* no window is asked for, which would replace the slice.                  *)
Hands(c, d) ==
  /\ \A n \in Sends : c.bubble[n] # "none" /\ d.bubble[n] = "none" =>
        stored[n] # 0 \/ n \in d.withdrawn
  /\ \A i \in DOMAIN d.asks : d.asks[i].t = "page" /\ d.asks[i].mode = "around" =>
        i \in DOMAIN c.asks /\ c.asks[i] = d.asks[i]

(* Both, from one well-formed client to another.                           *)
To(c, d) == Sound(d) /\ Goes(c, d) /\ Hands(c, d)

LEMMA ToGoesOn ==
  ASSUME NEW c, NEW d, NEW e, To(c, d), To(d, e), Sound(c)
  PROVE  To(c, e)
<1>1. Goes(c, e)
  BY GoesOn DEF To
<1>2. Hands(c, e)
  BY DEF To, Hands, Goes
<1> QED BY <1>1, <1>2 DEF To

(* A merge brings in rows of the page only.                                *)
LEMMA MergesFromPage ==
  ASSUME NEW rows, NEW page, NEW after, NEW latest \in BOOLEAN
  PROVE  /\ MergeOlder(rows, page, latest).rows \subseteq rows \cup page
         /\ MergeNewer(rows, page, after).rows \subseteq rows \cup page
         /\ MergeNewer(rows, page, after).applied \in BOOLEAN
         /\ ApplyHeld(rows, page) \subseteq rows \cup page
<1>1. MergeOlder(rows, page, latest).rows \subseteq rows \cup page
  BY DEF MergeOlder, Refresh, Merged
<1>2. /\ MergeNewer(rows, page, after).rows \subseteq rows \cup page
      /\ MergeNewer(rows, page, after).applied \in BOOLEAN
  BY DEF MergeNewer, Refresh, Merged
<1>3. ApplyHeld(rows, page) \subseteq rows \cup page
  BY DEF ApplyHeld
<1> QED BY <1>1, <1>2, <1>3

LEMMA ToSelf ==
  ASSUME NEW c, Sound(c)
  PROVE  To(c, c)
BY DEF To, Goes, Hands

(* A mutator that touches neither rows, bubbles, checks nor queues.         *)
LEMMA ToAside ==
  ASSUME NEW c, Sound(c), NEW d \in Clients(last),
         d.rows \subseteq c.rows, d.deleting \subseteq c.rows \cup c.deleting,
         d.bubble = c.bubble, d.check = c.check, d.withdrawn = c.withdrawn,
         d.waits = c.waits, d.asks = c.asks
  PROVE  To(c, d)
BY DEF To, Goes, Hands, Sound, WaitsOK, WaitOK

LEMMA HoldLiveTo ==
  ASSUME NEW c, Sound(c), NEW id \in Row(last), NEW n
  PROVE  To(c, HoldLive(c, id, n))
<1>1. HoldLive(c, id, n) \in Clients(last)
  <2>1. CASE c.lapsed
    BY <2>1 DEF HoldLive, Sound
  <2>2. CASE ~c.lapsed /\ Cardinality(c.held) >= HeldCap
    BY <2>2 DEF HoldLive, Sound, Clients
  <2>3. CASE ~c.lapsed /\ ~(Cardinality(c.held) >= HeldCap)
    <3>1. c.held \cup {id} \in SUBSET Row(last)
      BY DEF Sound, Clients
    <3>2. [m \in Sends |-> IF m = n /\ c.bubble[m] = "pending" THEN "sent" ELSE c.bubble[m]]
            \in [Sends -> {"none", "pending", "sent"}]
      BY DEF Sound, Clients
    <3> QED BY <2>3, <3>1, <3>2 DEF HoldLive, Sound, Clients
  <2> QED BY <2>1, <2>2, <2>3
<1>2. /\ HoldLive(c, id, n).rows = c.rows /\ HoldLive(c, id, n).deleting = c.deleting
      /\ HoldLive(c, id, n).check = c.check /\ HoldLive(c, id, n).waits = c.waits
      /\ HoldLive(c, id, n).asks = c.asks /\ HoldLive(c, id, n).withdrawn = c.withdrawn
      /\ \A m \in Sends : HoldLive(c, id, n).bubble[m] = "none" <=> c.bubble[m] = "none"
  BY DEF HoldLive, Sound, Clients
<1> QED
  BY <1>1, <1>2 DEF To, Goes, Hands, Sound, WaitsOK, WaitOK

LEMMA ReleaseHeldTo ==
  ASSUME NEW c, Sound(c), stored \in [Sends -> 0..last]
  PROVE  To(c, ReleaseHeld(c))
<1> DEFINE d == ReleaseHeld(c)
<1>1. d \in Clients(last)
  BY MergesFromPage, ZenonT(60) DEF ReleaseHeld, WithoutBubbles, Sound, Clients, ApplyHeld
<1>2. /\ d.rows \subseteq c.rows \cup c.held
      /\ d.deleting = c.deleting /\ d.check = c.check /\ d.waits = c.waits
      /\ d.asks = c.asks /\ d.withdrawn = c.withdrawn
      /\ \A m \in Sends : d.bubble[m] = IF stored[m] \in c.held THEN "none" ELSE c.bubble[m]
  BY DEF ReleaseHeld, WithoutBubbles, Sound, Clients, ApplyHeld
<1>3. 0 \notin c.held
  BY DEF Sound, Clients, Row
<1> QED
  BY <1>1, <1>2, <1>3 DEF To, Goes, Hands, Sound, WaitsOK, WaitOK, Confirmed

(* A row of the server: `send` is the send it was stored for, if any.      *)
LEMMA AddMessageTo ==
  ASSUME NEW c, Sound(c), NEW id \in Row(last), NEW n,
         \A m \in Sends : stored[m] = id <=> m = n
  PROVE  To(c, AddMessage(c, id, n))
<1> DEFINE merged == [WithoutBubbles(c, {n}) EXCEPT !.rows = @ \cup {id}, !.cached = TRUE]
           kept == KeepNewest(merged.rows, BackgroundCap - Cardinality(Bubbles(merged)))
<1>1. merged \in Clients(last)
  <2>1. c.rows \cup {id} \in SUBSET Row(last)
    BY DEF Sound, Clients
  <2>2. [m \in Sends |-> IF m \in {n} THEN "none" ELSE c.bubble[m]]
          \in [Sends -> {"none", "pending", "sent"}]
    BY DEF Sound, Clients
  <2> QED BY <2>1, <2>2 DEF WithoutBubbles, Sound, Clients
<1>2. /\ merged.rows = c.rows \cup {id} /\ merged.deleting = c.deleting
      /\ merged.check = c.check /\ merged.waits = c.waits /\ merged.asks = c.asks
      /\ merged.withdrawn = c.withdrawn
      /\ \A m \in Sends : merged.bubble[m] = IF m = n THEN "none" ELSE c.bubble[m]
  BY DEF WithoutBubbles, Sound, Clients
<1>3. To(c, merged)
  <2> HIDE DEF merged
  <2>1. n \in Sends => stored[n] # 0
    BY DEF Row
  <2>2. Hands(c, merged)
    BY <1>2, <2>1 DEF Hands
  <2>3. Goes(c, merged)
    BY <1>2 DEF Goes, Confirmed
  <2> QED BY <1>1, <1>2, <2>2, <2>3 DEF To, Sound, WaitsOK, WaitOK
<1>4. To(merged, [merged EXCEPT !.rows = kept, !.older = TRUE])
  <2>1. kept \subseteq merged.rows
    BY DEF KeepNewest
  <2> HIDE DEF merged, kept
  <2> DEFINE d == [merged EXCEPT !.rows = kept, !.older = TRUE]
  <2>2. d \in Clients(last)
    BY <1>1, <2>1 DEF Clients
  <2>3. /\ d.rows = kept /\ d.deleting = merged.deleting /\ d.check = merged.check
        /\ d.waits = merged.waits /\ d.asks = merged.asks /\ d.bubble = merged.bubble
        /\ d.withdrawn = merged.withdrawn
    BY <1>1 DEF Clients
  <2> HIDE DEF d
  <2>4. d.rows \subseteq merged.rows /\ d.deleting \subseteq merged.rows \cup merged.deleting
    BY <2>1, <2>3
  <2>5. Sound(merged)
    BY <1>3 DEF To
  <2>6. To(merged, d)
    BY <2>2, <2>3, <2>4, <2>5, ToAside
  <2> QED BY <2>6 DEF d
<1>5. To(c, [merged EXCEPT !.rows = kept, !.older = TRUE])
  <2> HIDE DEF merged, kept
  <2> QED BY <1>3, <1>4, ToGoesOn
<1>6. To(c, [c EXCEPT !.newer = TRUE])
  <2> DEFINE d == [c EXCEPT !.newer = TRUE]
  <2>1. d \in Clients(last)
    BY DEF Sound, Clients
  <2>2. /\ d.rows = c.rows /\ d.deleting = c.deleting /\ d.check = c.check
        /\ d.waits = c.waits /\ d.asks = c.asks /\ d.bubble = c.bubble
        /\ d.withdrawn = c.withdrawn
    BY DEF Sound, Clients
  <2> HIDE DEF d
  <2>3. d.rows \subseteq c.rows /\ d.deleting \subseteq c.rows \cup c.deleting
    BY <2>2
  <2>4. To(c, d)
    BY <2>1, <2>2, <2>3, ToAside
  <2> QED BY <2>4 DEF d
<1>7. To(c, c) /\ To(c, HoldLive(c, id, n))
  BY ToSelf, HoldLiveTo
<1>8. \/ AddMessage(c, id, n) = HoldLive(c, id, n)
      \/ AddMessage(c, id, n) = c
      \/ AddMessage(c, id, n) = merged
      \/ AddMessage(c, id, n) = [c EXCEPT !.newer = TRUE]
      \/ AddMessage(c, id, n) = [merged EXCEPT !.rows = kept, !.older = TRUE]
  <2> DEFINE over == Cardinality(merged.rows) + Cardinality(Bubbles(merged)) > BackgroundCap
  <2>1. AddMessage(c, id, n) =
          IF c.newer THEN IF c.resyncing THEN HoldLive(c, id, n) ELSE c
          ELSE IF c.shown THEN merged
          ELSE IF ~c.cached /\ ~c.loading THEN c
          ELSE IF ~over THEN merged
          ELSE IF c.saved = "up" /\ Bubbles(merged) = {} THEN [c EXCEPT !.newer = TRUE]
          ELSE [merged EXCEPT !.rows = kept, !.older = TRUE]
    BY DEF AddMessage
  <2> HIDE DEF merged, kept, over
  <2> QED BY <2>1
<1> HIDE DEF merged, kept
<1> QED BY <1>3, <1>5, <1>6, <1>7, <1>8

(* The merges of a page.  Every row of it is settled, shown or not.        *)
MergesPage(c, d, page) ==
  /\ d.rows \subseteq c.rows \cup page /\ d.deleting = c.deleting
  /\ \A m \in Sends : d.bubble[m] = IF stored[m] \in page THEN "none" ELSE c.bubble[m]
  /\ d.check = c.check /\ d.withdrawn = c.withdrawn
  /\ d.waits = c.waits /\ d.asks = c.asks

LEMMA MergedPageTo ==
  ASSUME NEW c, Sound(c), NEW page \in SUBSET Row(last), stored \in [Sends -> 0..last],
         NEW d \in Clients(last), MergesPage(c, d, page)
  PROVE  To(c, d)
BY DEF MergesPage, To, Goes, Hands, Sound, WaitsOK, WaitOK, Confirmed, Row

LEMMA PrependHistoryTo ==
  ASSUME NEW c, Sound(c), NEW p \in Packets(last), stored \in [Sends -> 0..last]
  PROVE  To(c, PrependHistory(c, p))
<1> DEFINE m == MergeOlder(c.rows, p.rows \ c.deleting, p.mode = "latest")
           merged == [WithoutBubbles(c, Settled(c, p.rows)) EXCEPT
                        !.rows = m.rows, !.cached = TRUE,
                        !.older = IF m.headExtended THEN p.more ELSE @,
                        !.newer = IF m.reachedNewest THEN FALSE ELSE @]
<1>0. m.rows \subseteq c.rows \cup p.rows
  <2> DEFINE page == p.rows \ c.deleting
             latest == p.mode = "latest"
  <2>1. latest \in BOOLEAN /\ page \subseteq p.rows
    OBVIOUS
  <2> HIDE DEF page, latest
  <2>2. MergeOlder(c.rows, page, latest).rows \subseteq c.rows \cup page
    BY <2>1, MergesFromPage
  <2> QED BY <2>1, <2>2 DEF page, latest
<1>1. p.rows \in SUBSET Row(last) /\ p.more \in BOOLEAN
  BY DEF Packets
<1> HIDE DEF m
<1>2. merged \in Clients(last)
  <2>1. m.rows \in SUBSET Row(last)
    BY <1>0, <1>1 DEF Sound, Clients
  <2>2. [n \in Sends |-> IF n \in Settled(c, p.rows) THEN "none" ELSE c.bubble[n]]
          \in [Sends -> {"none", "pending", "sent"}]
    BY DEF Sound, Clients
  <2>3. (IF m.headExtended THEN p.more ELSE c.older) \in BOOLEAN
    BY <1>1 DEF Sound, Clients
  <2>4. (IF m.reachedNewest THEN FALSE ELSE c.newer) \in BOOLEAN
    BY DEF Sound, Clients
  <2> QED BY <2>1, <2>2, <2>3, <2>4, ZenonT(60) DEF WithoutBubbles, Sound, Clients
<1>3. /\ merged.rows = m.rows /\ merged.deleting = c.deleting
      /\ merged.check = c.check /\ merged.waits = c.waits /\ merged.asks = c.asks
      /\ merged.withdrawn = c.withdrawn
      /\ \A n \in Sends : merged.bubble[n] = IF stored[n] \in p.rows THEN "none" ELSE c.bubble[n]
  BY DEF WithoutBubbles, Settled, Bubbles, Sound, Clients
<1>4. To(c, merged)
  <2> HIDE DEF merged
  <2>1. MergesPage(c, merged, p.rows)
    BY <1>0, <1>3 DEF MergesPage
  <2> DEFINE page == p.rows
  <2>2. page \in SUBSET Row(last) /\ MergesPage(c, merged, page)
    BY <1>1, <2>1
  <2> HIDE DEF page
  <2> QED BY <2>2, <1>2, MergedPageTo
<1>5. PrependHistory(c, p) \in {merged, ReleaseHeld(merged)}
  BY DEF PrependHistory, m
<1> HIDE DEF merged
<1>6. To(merged, ReleaseHeld(merged))
  BY <1>4, ReleaseHeldTo DEF To
<1> QED BY <1>4, <1>5, <1>6, ToGoesOn

LEMMA AppendNewerTo ==
  ASSUME NEW c, Sound(c), NEW p \in Packets(last), stored \in [Sends -> 0..last]
  PROVE  To(c, AppendNewer(c, p))
<1> DEFINE m == MergeNewer(c.rows, p.rows \ c.deleting, p.cur)
           base == WithoutBubbles(c, Settled(c, p.rows))
           some == base.cached \/ m.applied
           more == IF m.applied THEN base.newer /\ p.newer ELSE base.newer
           merged == [base EXCEPT !.rows = m.rows, !.cached = some, !.newer = more]
<1>0. m.rows \subseteq c.rows \cup p.rows /\ m.applied \in BOOLEAN
  <2> DEFINE page == p.rows \ c.deleting
  <2>1. page \subseteq p.rows
    OBVIOUS
  <2> HIDE DEF page
  <2>2. /\ MergeNewer(c.rows, page, p.cur).rows \subseteq c.rows \cup page
        /\ MergeNewer(c.rows, page, p.cur).applied \in BOOLEAN
    BY MergesFromPage
  <2> QED BY <2>1, <2>2 DEF page
<1>1. p.rows \in SUBSET Row(last) /\ p.newer \in BOOLEAN
  BY DEF Packets
<1> HIDE DEF m
<1>2. merged \in Clients(last)
  <2>1. m.rows \in SUBSET Row(last)
    BY <1>0, <1>1 DEF Sound, Clients
  <2>2. [n \in Sends |-> IF n \in Settled(c, p.rows) THEN "none" ELSE c.bubble[n]]
          \in [Sends -> {"none", "pending", "sent"}]
    BY DEF Sound, Clients
  <2>3. some \in BOOLEAN
    OBVIOUS
  <2>4. more \in BOOLEAN
    BY <1>0, <1>1 DEF WithoutBubbles, Sound, Clients
  <2> HIDE DEF some, more
  <2> QED BY <2>1, <2>2, <2>3, <2>4 DEF WithoutBubbles, Sound, Clients
<1>3. /\ merged.rows = m.rows /\ merged.deleting = c.deleting
      /\ merged.check = c.check /\ merged.waits = c.waits /\ merged.asks = c.asks
      /\ merged.withdrawn = c.withdrawn
      /\ \A n \in Sends : merged.bubble[n] = IF stored[n] \in p.rows THEN "none" ELSE c.bubble[n]
  BY DEF WithoutBubbles, Settled, Bubbles, Sound, Clients
<1>4. To(c, merged)
  <2> HIDE DEF merged
  <2>1. MergesPage(c, merged, p.rows)
    BY <1>0, <1>3 DEF MergesPage
  <2> DEFINE page == p.rows
  <2>2. page \in SUBSET Row(last) /\ MergesPage(c, merged, page)
    BY <1>1, <2>1
  <2> HIDE DEF page
  <2> QED BY <2>2, <1>2, MergedPageTo
<1>5. AppendNewer(c, p) \in {merged, ReleaseHeld(merged)}
  BY DEF AppendNewer, m
<1> HIDE DEF merged
<1>6. To(merged, ReleaseHeld(merged))
  BY <1>4, ReleaseHeldTo DEF To
<1> QED BY <1>4, <1>5, <1>6, ToGoesOn

(* A jump's window takes every bubble with it.                             *)
LEMMA SetChannelWindowGoes ==
  ASSUME NEW c, Sound(c), NEW p \in Packets(last)
  PROVE  Sound(SetChannelWindow(c, p)) /\ Goes(c, SetChannelWindow(c, p))
<1> DEFINE d == SetChannelWindow(c, p)
<1>1. [n \in Sends |-> IF n \in Sends THEN "none" ELSE c.bubble[n]]
        \in [Sends -> {"none", "pending", "sent"}]
  OBVIOUS
<1>2. p.rows \in SUBSET Row(last) /\ p.more \in BOOLEAN /\ p.newer \in BOOLEAN
  BY DEF Packets
<1>3. d \in Clients(last)
  BY <1>1, <1>2 DEF SetChannelWindow, WithoutBubbles, Sound, Clients
<1>4. /\ d.deleting = c.deleting /\ d.check = c.check /\ d.waits = c.waits
      /\ d.asks = c.asks /\ d.withdrawn = c.withdrawn
      /\ \A n \in Sends : d.bubble[n] = "none"
  BY DEF SetChannelWindow, WithoutBubbles, Sound, Clients
<1> HIDE DEF d
<1>5. Sound(d)
  BY <1>3, <1>4 DEF Sound, WaitsOK, WaitOK
<1>6. Goes(c, d)
  BY <1>4 DEF Goes, Confirmed
<1> QED BY <1>5, <1>6 DEF d

(* A slice that is dropped, too.                                           *)
LEMMA DroppedGoes ==
  ASSUME NEW c, Sound(c)
  PROVE  /\ Sound(Dropped(c)) /\ Goes(c, Dropped(c))
         /\ Bubbles(c) = {} => To(c, Dropped(c))
<1> DEFINE d == Dropped(c)
<1>1. [n \in Sends |-> IF n \in Sends THEN "none" ELSE c.bubble[n]]
        \in [Sends -> {"none", "pending", "sent"}]
  OBVIOUS
<1>3. d \in Clients(last)
  BY <1>1 DEF Dropped, WithoutBubbles, Sound, Clients
<1>4. /\ d.deleting = c.deleting /\ d.check = c.check /\ d.waits = c.waits
      /\ d.asks = c.asks /\ d.withdrawn = c.withdrawn
      /\ \A n \in Sends : d.bubble[n] = "none"
      /\ d.rows = {}
  BY DEF Dropped, WithoutBubbles, Sound, Clients
<1> HIDE DEF d
<1>5. Sound(d)
  BY <1>3, <1>4 DEF Sound, WaitsOK, WaitOK
<1>6. Goes(c, d)
  BY <1>4 DEF Goes, Confirmed
<1>7. ASSUME Bubbles(c) = {} PROVE To(c, d)
  <2>1. \A n \in Sends : c.bubble[n] = "none"
    BY <1>7 DEF Bubbles
  <2>2. Hands(c, d)
    BY <2>1, <1>4 DEF Hands
  <2> QED BY <2>2, <1>5, <1>6 DEF To
<1> QED BY <1>5, <1>6, <1>7 DEF d

LEMMA RemoveMessageTo ==
  ASSUME NEW c, Sound(c), NEW id
  PROVE  To(c, RemoveMessage(c, id))
<1> DEFINE d == RemoveMessage(c, id)
<1>1. d \in Clients(last)
  BY DEF RemoveMessage, Sound, Clients
<1>2. /\ d.rows \subseteq c.rows /\ d.deleting \subseteq c.deleting
      /\ d.check = c.check /\ d.waits = c.waits /\ d.asks = c.asks
      /\ d.bubble = c.bubble /\ d.withdrawn = c.withdrawn
  BY DEF RemoveMessage, Sound, Clients
<1> HIDE DEF d
<1>3. d.deleting \subseteq c.rows \cup c.deleting
  BY <1>2
<1>4. To(c, d)
  BY <1>1, <1>2, <1>3, ToAside
<1> QED BY <1>4 DEF d

(* A row that comes back was settled before it went.                       *)
LEMMA RestorePendingDeletionTo ==
  ASSUME NEW c, Sound(c), NEW id
  PROVE  To(c, RestorePendingDeletion(c, id))
<1> DEFINE d == RestorePendingDeletion(c, id)
<1>1. d \in Clients(last)
  <2>1. CASE id \in c.deleting
    BY <2>1, ZenonT(60) DEF RestorePendingDeletion, Sound, Clients
  <2>2. CASE id \notin c.deleting
    BY <2>2 DEF RestorePendingDeletion, Sound
  <2> QED BY <2>1, <2>2
<1>2. /\ d.rows \subseteq c.rows \cup c.deleting /\ d.deleting \subseteq c.deleting
      /\ d.check = c.check /\ d.waits = c.waits /\ d.asks = c.asks
      /\ d.bubble = c.bubble /\ d.withdrawn = c.withdrawn
  BY DEF RestorePendingDeletion, Sound, Clients
<1> HIDE DEF d
<1>3. Sound(d)
  BY <1>1, <1>2 DEF Sound, WaitsOK, WaitOK
<1>4. Goes(c, d)
  BY <1>2 DEF Goes
<1>5. Hands(c, d)
  BY <1>2 DEF Hands
<1>6. To(c, d)
  BY <1>3, <1>4, <1>5 DEF To
<1> QED BY <1>6 DEF d

LEMMA MarkStaleTo ==
  ASSUME NEW c, Sound(c)
  PROVE  To(c, MarkStale(c))
<1> DEFINE d == [c EXCEPT !.newer = TRUE, !.loading = FALSE]
<1>1. d \in Clients(last)
  BY DEF Sound, Clients
<1>2. /\ d.rows = c.rows /\ d.deleting = c.deleting
      /\ d.check = c.check /\ d.waits = c.waits /\ d.asks = c.asks
      /\ d.bubble = c.bubble /\ d.withdrawn = c.withdrawn
  BY DEF Sound, Clients
<1>3. \/ MarkStale(c) = c
      \/ MarkStale(c) = d
      \/ Bubbles(c) = {} /\ MarkStale(c) = Dropped(c)
  BY DEF MarkStale
<1> HIDE DEF d
<1>4. d.rows \subseteq c.rows /\ d.deleting \subseteq c.rows \cup c.deleting
  BY <1>2
<1>5. To(c, d)
  BY <1>1, <1>2, <1>4, ToAside
<1> QED BY <1>3, <1>5, DroppedGoes, ToSelf

LEMMA SetResyncingTo ==
  ASSUME NEW c, Sound(c), NEW on \in BOOLEAN
  PROVE  To(c, SetResyncing(c, on))
<1> DEFINE d == SetResyncing(c, on)
           nw == c.newer \/ on
<1>0. nw \in BOOLEAN
  OBVIOUS
<1>1. d \in Clients(last)
  <2> HIDE DEF nw
  <2>1. d = [c EXCEPT !.held = {}, !.lapsed = FALSE, !.resyncing = on, !.newer = nw]
    BY DEF SetResyncing, nw
  <2> QED BY <1>0, <2>1, ZenonT(60) DEF Sound, Clients
<1>2. /\ d.rows = c.rows /\ d.deleting = c.deleting
      /\ d.check = c.check /\ d.waits = c.waits /\ d.asks = c.asks
      /\ d.bubble = c.bubble /\ d.withdrawn = c.withdrawn
  BY DEF SetResyncing, Sound, Clients
<1> HIDE DEF d
<1>4. d.rows \subseteq c.rows /\ d.deleting \subseteq c.rows \cup c.deleting
  BY <1>2
<1>5. To(c, d)
  BY <1>1, <1>2, <1>4, ToAside
<1> QED BY <1>5 DEF d

LEMMA FirstPage == 1 \in 1..CheckPages /\ CheckPages \in Nat
BY BoundsAssumption

(* A request is asked, and waited for.                                     *)
LEMMA TrackTo ==
  ASSUME NEW c, Sound(c), NEW r \in Asks, r.t = "page", NEW w \in Waits, WaitOK(c, w)
  PROVE  /\ Sound(Track(c, r, w)) /\ Goes(c, Track(c, r, w))
         /\ r.mode # "around" => Hands(c, Track(c, r, w))
<1> DEFINE d == Track(c, r, w)
<1>2. d = [c EXCEPT !.asks = Append(c.asks, r), !.waits = Append(c.waits, w)]
  BY DEF Track
<1> HIDE DEF d
<1>3. c.asks \in Seq(Asks) /\ c.waits \in Seq(Waits)
  BY DEF Sound, Clients
<1>4. /\ Append(c.asks, r) \in Seq(Asks)
      /\ Len(Append(c.asks, r)) = Len(c.asks) + 1
      /\ \A i \in 1..Len(c.asks) : Append(c.asks, r)[i] = c.asks[i]
      /\ Append(c.asks, r)[Len(c.asks) + 1] = r
  BY <1>3, AppendProperties
<1>5. /\ Append(c.waits, w) \in Seq(Waits)
      /\ Len(Append(c.waits, w)) = Len(c.waits) + 1
      /\ \A i \in 1..Len(c.waits) : Append(c.waits, w)[i] = c.waits[i]
      /\ Append(c.waits, w)[Len(c.waits) + 1] = w
  BY <1>3, AppendProperties
<1>6. d \in Clients(last)
  BY <1>2, <1>4, <1>5 DEF Sound, Clients
<1>7. /\ d.rows = c.rows /\ d.deleting = c.deleting /\ d.check = c.check
      /\ d.bubble = c.bubble /\ d.withdrawn = c.withdrawn
      /\ d.asks = Append(c.asks, r) /\ d.waits = Append(c.waits, w)
  BY <1>2 DEF Sound, Clients
<1>8. WaitsOK(d)
  <2>1. ASSUME NEW i \in DOMAIN d.waits
        PROVE  WaitOK(d, d.waits[i])
    <3>1. CASE i \in 1..Len(c.waits)
      BY <3>1, <1>3, <1>5, <1>7 DEF Sound, WaitsOK, WaitOK
    <3>2. CASE i = Len(c.waits) + 1
      BY <3>2, <1>5, <1>7 DEF WaitOK
    <3> QED BY <2>1, <3>1, <3>2, <1>3, <1>5, <1>7
  <2> QED BY <2>1 DEF WaitsOK
<1>9. \A i \in DOMAIN d.asks : d.asks[i].t = "send" =>
        i \in DOMAIN c.asks /\ c.asks[i] = d.asks[i]
  BY <1>3, <1>4, <1>7
<1>10. ASSUME r.mode # "around", NEW i \in DOMAIN d.asks,
              d.asks[i].t = "page", d.asks[i].mode = "around"
       PROVE  i \in DOMAIN c.asks /\ c.asks[i] = d.asks[i]
  BY <1>3, <1>4, <1>7, <1>10
<1>11. Goes(c, d) /\ (r.mode # "around" => Hands(c, d))
  BY <1>7, <1>9, <1>10 DEF Goes, Hands
<1>12. Sound(d)
  BY <1>6, <1>8 DEF Sound
<1> QED BY <1>11, <1>12 DEF d

LEMMA AskTo ==
  ASSUME NEW c, Sound(c), NEW mode \in Modes, NEW cur \in Nat, NEW limit \in Nat,
         NEW by \in {"latest", "older", "newer", "jump", "check"}, NEW arg \in Nat,
         by = "check" => arg \in Sends /\ c.check[arg] # "new"
  PROVE  /\ Sound(Ask(c, mode, cur, limit, by, arg))
         /\ Goes(c, Ask(c, mode, cur, limit, by, arg))
         /\ mode # "around" => Hands(c, Ask(c, mode, cur, limit, by, arg))
<1> DEFINE r == Request(mode, cur, limit)
           w == WaitOn(mode, cur, by, arg)
<1>1. r \in Asks /\ r.t = "page" /\ r.mode = mode /\ w \in Waits /\ w.by = by /\ w.arg = arg
  BY FirstPage DEF Request, WaitOn, Asks, Waits, Modes
<1>2. Ask(c, mode, cur, limit, by, arg) = Track(c, r, w)
  BY DEF Ask
<1> HIDE DEF r, w
<1>3. WaitOK(c, w)
  BY <1>1 DEF WaitOK
<1> QED BY <1>1, <1>2, <1>3, TrackTo

LEMMA ResyncOverTo ==
  ASSUME NEW c, Sound(c)
  PROVE  To(c, ResyncOver(c)) /\ ResyncOver(c).waits = c.waits
<1> DEFINE d == [c EXCEPT !.resync = FALSE]
<1>1. d \in Clients(last)
  BY DEF Sound, Clients
<1>2. /\ d.rows = c.rows /\ d.deleting = c.deleting
      /\ d.check = c.check /\ d.waits = c.waits /\ d.asks = c.asks
      /\ d.bubble = c.bubble /\ d.withdrawn = c.withdrawn
  BY DEF Sound, Clients
<1>3. ResyncOver(c) = IF c.resync THEN SetResyncing(d, FALSE) ELSE c
  BY DEF ResyncOver
<1>4. SetResyncing(d, FALSE).waits = d.waits
  BY <1>1 DEF SetResyncing, Clients
<1> HIDE DEF d
<1>5. d.rows \subseteq c.rows /\ d.deleting \subseteq c.rows \cup c.deleting
  BY <1>2
<1>6. To(c, d)
  BY <1>1, <1>2, <1>5, ToAside
<1>7. To(d, SetResyncing(d, FALSE))
  BY <1>6, SetResyncingTo DEF To
<1> QED BY <1>2, <1>3, <1>4, <1>6, <1>7, ToGoesOn, ToSelf

LEMMA LoadEndsTo ==
  ASSUME NEW c, Sound(c)
  PROVE  To(c, LoadEnds(c)) /\ LoadEnds(c).waits = c.waits
<1> DEFINE d == [c EXCEPT !.load = "idle", !.tries = 0, !.loading = FALSE]
<1>1. d \in Clients(last)
  BY DEF Sound, Clients
<1>2. /\ d.rows = c.rows /\ d.deleting = c.deleting
      /\ d.check = c.check /\ d.waits = c.waits /\ d.asks = c.asks
      /\ d.bubble = c.bubble /\ d.withdrawn = c.withdrawn
  BY DEF Sound, Clients
<1>3. LoadEnds(c) = ResyncOver(d)
  BY DEF LoadEnds
<1> HIDE DEF d
<1>4. d.rows \subseteq c.rows /\ d.deleting \subseteq c.rows \cup c.deleting
  BY <1>2
<1>5. To(c, d)
  BY <1>1, <1>2, <1>4, ToAside
<1>6. To(d, ResyncOver(d)) /\ ResyncOver(d).waits = d.waits
  BY <1>5, ResyncOverTo DEF To
<1> QED BY <1>2, <1>3, <1>5, <1>6, ToGoesOn

LEMMA LoadLatestTo ==
  ASSUME NEW c, Sound(c)
  PROVE  To(c, LoadLatest(c))
<1> DEFINE d == [c EXCEPT !.loading = TRUE, !.load = "asked"]
           e == [LoadEnds(c) EXCEPT !.stuck = TRUE]
<1>1. d \in Clients(last)
  BY DEF Sound, Clients
<1>2. /\ d.rows = c.rows /\ d.deleting = c.deleting
      /\ d.check = c.check /\ d.waits = c.waits /\ d.asks = c.asks
      /\ d.bubble = c.bubble /\ d.withdrawn = c.withdrawn
  BY DEF Sound, Clients
<1>3. LoadLatest(c) = IF c.load # "idle" THEN c ELSE IF c.stuck THEN ResyncOver(c)
                      ELSE IF ~up THEN e
                      ELSE Ask(d, "latest", 0, PageLimit, "latest", 0)
  BY DEF LoadLatest
<1>4. To(c, LoadEnds(c)) /\ LoadEnds(c) \in Clients(last)
  BY LoadEndsTo DEF To, Sound
<1>5. To(LoadEnds(c), e)
  <2> DEFINE f == LoadEnds(c)
  <2> HIDE DEF f
  <2>1. /\ e \in Clients(last)
        /\ e.rows = f.rows /\ e.deleting = f.deleting
        /\ e.check = f.check /\ e.waits = f.waits /\ e.asks = f.asks
        /\ e.bubble = f.bubble /\ e.withdrawn = f.withdrawn
    BY <1>4 DEF Clients, f
  <2>2. e.rows \subseteq f.rows /\ e.deleting \subseteq f.rows \cup f.deleting /\ Sound(f)
    BY <2>1, <1>4 DEF To, f
  <2> HIDE DEF e
  <2>3. To(f, e)
    BY <2>1, <2>2, ToAside
  <2> QED BY <2>3 DEF f
<1> HIDE DEF d, e
<1>6. d.rows \subseteq c.rows /\ d.deleting \subseteq c.rows \cup c.deleting
  BY <1>2
<1>7. To(c, d)
  BY <1>1, <1>2, <1>6, ToAside
<1>8. To(d, Ask(d, "latest", 0, PageLimit, "latest", 0))
  BY <1>7, AskTo, BoundsAssumption DEF To, Modes
<1> QED BY <1>3, <1>4, <1>5, <1>7, <1>8, ToGoesOn, ToSelf, ResyncOverTo

LEMMA WithdrawTo ==
  ASSUME NEW c, Sound(c), NEW n \in Sends, c.check[n] # "new"
  PROVE  To(c, Withdraw(c, n))
<1> DEFINE d == Withdraw(c, n)
<1>1. d \in Clients(last)
  <2>1. [m \in Sends |-> IF m \in {n} THEN "none" ELSE c.bubble[m]]
          \in [Sends -> {"none", "pending", "sent"}]
    BY DEF Sound, Clients
  <2>2. WithoutBubbles(c, {n}) \in Clients(last)
    BY <2>1 DEF WithoutBubbles, Sound, Clients
  <2> QED BY <2>2 DEF Withdraw, Clients
<1>2. /\ d.rows = c.rows /\ d.deleting = c.deleting /\ d.waits = c.waits /\ d.asks = c.asks
      /\ \A m \in Sends : d.bubble[m] = IF m = n THEN "none" ELSE c.bubble[m]
      /\ \A m \in Sends : d.check[m] = IF m = n THEN "off" ELSE c.check[m]
      /\ d.withdrawn = c.withdrawn \cup {n}
  BY DEF Withdraw, WithoutBubbles, Sound, Clients
<1> HIDE DEF d
<1>3. WaitsOK(d)
  BY <1>2 DEF Sound, WaitsOK, WaitOK
<1>4. Goes(c, d) /\ Hands(c, d)
  BY <1>2 DEF Goes, Hands
<1>5. To(c, d)
  BY <1>1, <1>3, <1>4 DEF To, Sound
<1> QED BY <1>5 DEF d

(* A check that has begun goes to another stage.                           *)
LEMMA CheckTo ==
  ASSUME NEW c, Sound(c), NEW n \in Sends, c.check[n] # "new",
         NEW s \in {"asking", "off", "waiting"}
  PROVE  To(c, [c EXCEPT !.check[n] = s])
<1> DEFINE d == [c EXCEPT !.check[n] = s]
<1>1. d \in Clients(last)
  BY DEF Sound, Clients
<1>2. /\ d.rows = c.rows /\ d.deleting = c.deleting /\ d.waits = c.waits /\ d.asks = c.asks
      /\ d.bubble = c.bubble /\ d.withdrawn = c.withdrawn
      /\ \A m \in Sends : d.check[m] = IF m = n THEN s ELSE c.check[m]
  BY DEF Sound, Clients
<1> HIDE DEF d
<1>3. WaitsOK(d)
  BY <1>2 DEF Sound, WaitsOK, WaitOK
<1>4. Goes(c, d) /\ Hands(c, d)
  BY <1>2 DEF Goes, Hands
<1>5. To(c, d)
  BY <1>1, <1>3, <1>4 DEF To, Sound
<1> QED BY <1>5 DEF d

(* What a check asks for, and waits for.                                   *)
LEMMA CheckAsks ==
  ASSUME NEW n \in Sends, NEW from \in Nat, NEW page \in 1..CheckPages
  PROVE  /\ SinceMode(from) \in {"latest", "after"}
         /\ SinceMode(from) = IF from = 0 THEN "latest" ELSE "after"
         /\ Request(SinceMode(from), from, CheckLimit) \in Asks
         /\ Request(SinceMode(from), from, CheckLimit).t = "page"
         /\ Request(SinceMode(from), from, CheckLimit).mode = SinceMode(from)
         /\ Request(SinceMode(from), from, CheckLimit).id = from
         /\ Request(SinceMode(from), from, CheckLimit).limit = CheckLimit
         /\ CheckOn(n, from, page) \in Waits
         /\ CheckOn(n, from, page).by = "check" /\ CheckOn(n, from, page).arg = n
         /\ CheckOn(n, from, page).page = page
<1>1. n \in Nat /\ CheckLimit \in Nat
  BY BoundsAssumption
<1> QED BY <1>1 DEF SinceMode, Request, CheckOn, WaitOn, Asks, Waits, Modes

LEMMA AskSinceTo ==
  ASSUME NEW c, Sound(c), NEW n \in Sends, c.check[n] # "new", NEW from \in Nat,
         NEW page \in 1..CheckPages
  PROVE  To(c, AskSince(c, n, from, page))
<1> DEFINE d == [c EXCEPT !.check[n] = "asking"]
<1>1. To(c, d) /\ d.check[n] = "asking"
  BY CheckTo DEF Sound, Clients
<1> DEFINE r == Request(SinceMode(from), from, CheckLimit)
           w == CheckOn(n, from, page)
<1>2. AskSince(c, n, from, page) = Track(d, r, w)
  BY DEF AskSince
<1>3. r \in Asks /\ r.t = "page" /\ r.mode # "around" /\ w \in Waits /\ w.arg = n
  BY CheckAsks
<1> HIDE DEF d, r, w
<1>4. WaitOK(d, w)
  BY <1>1, <1>3 DEF WaitOK
<1>5. To(d, Track(d, r, w))
  BY <1>1, <1>3, <1>4, TrackTo DEF To
<1> QED BY <1>1, <1>2, <1>5, ToGoesOn

Replies == [answered: BOOLEAN, newest: Nat, newer: BOOLEAN]

LEMMA CheckGoesOnTo ==
  ASSUME NEW c, Sound(c), NEW w \in Waits, w.by = "check", WaitOK(c, w), NEW reply \in Replies
  PROVE  To(c, CheckGoesOn(c, w, reply))
<1>1. w.arg \in Sends /\ c.check[w.arg] # "new" /\ reply.newest \in Nat
  BY DEF WaitOK, Replies
<1>2. w.page < CheckPages => w.page + 1 \in 1..CheckPages
  BY FirstPage DEF Waits
<1> QED BY <1>1, <1>2, CheckTo, AskSinceTo, WithdrawTo DEF CheckGoesOn

LEMMA ContinueTo ==
  ASSUME NEW c, Sound(c), NEW w \in Waits, WaitOK(c, w), NEW reply \in Replies
  PROVE  To(c, Continue(c, w, reply))
<1> DEFINE Aside(d) == /\ d \in Clients(last)
                       /\ d.rows = c.rows /\ d.deleting = c.deleting
                       /\ d.bubble = c.bubble /\ d.check = c.check
                       /\ d.withdrawn = c.withdrawn /\ d.waits = c.waits /\ d.asks = c.asks
<1>1. ASSUME NEW d, Aside(d) PROVE To(c, d)
  <2>1. d.rows \subseteq c.rows /\ d.deleting \subseteq c.rows \cup c.deleting
    BY <1>1
  <2> QED BY <1>1, <2>1, ToAside
<1>2. /\ Aside([c EXCEPT !.load = "delay"]) /\ Aside([c EXCEPT !.lastBefore = 0])
      /\ Aside([c EXCEPT !.lastAfter = 0]) /\ Aside([c EXCEPT !.jump = 0, !.loading = FALSE])
  BY ZenonT(60) DEF Sound, Clients
<1> HIDE DEF Aside
<1>3. w.by \in {"latest", "older", "newer", "jump", "check"}
  BY DEF Waits
<1>4. CASE w.by = "latest"
  BY <1>4, <1>1, <1>2, LoadEndsTo DEF Continue
<1>5. CASE w.by = "older"
  BY <1>5, <1>1, <1>2, ToSelf DEF Continue
<1>6. CASE w.by = "newer"
  BY <1>6, <1>1, <1>2, ToSelf DEF Continue
<1>7. CASE w.by = "jump"
  BY <1>7, <1>1, <1>2, ToSelf DEF Continue
<1>8. CASE w.by = "check"
  BY <1>8, CheckGoesOnTo DEF Continue
<1> QED BY <1>3, <1>4, <1>5, <1>6, <1>7, <1>8

LEMMA AbandonTo ==
  ASSUME NEW c, Sound(c)
  PROVE  To(c, Abandon(c)) /\ Abandon(c).waits = <<>>
<1> DEFINE By(k) == {c.waits[i].arg : i \in {j \in DOMAIN c.waits : c.waits[j].by = k}}
           unsure == {n \in By("check") : c.bubble[n] = "pending"}
           base == WithoutBubbles(c, unsure)
           checks == [n \in Sends |-> IF n \in By("check") THEN "off" ELSE base.check[n]]
           loading == base.loading /\ ~(c.jump \in By("jump"))
           before == IF base.lastBefore \in By("older") THEN 0 ELSE base.lastBefore
           after == IF base.lastAfter \in By("newer") THEN 0 ELSE base.lastAfter
           jump == IF base.jump \in By("jump") THEN 0 ELSE base.jump
           ended == [base EXCEPT
                       !.waits = <<>>, !.check = checks,
                       !.withdrawn = @ \cup unsure,
                       !.lastBefore = before, !.lastAfter = after,
                       !.loading = loading, !.jump = jump]
<1>1. \A n \in By("check") : n \in Sends /\ c.check[n] # "new"
  BY DEF Sound, WaitsOK, WaitOK
<1>2. Abandon(c) = IF By("latest") = {} THEN ended
                   ELSE IF c.tries >= Attempts - 1 THEN LoadEnds(ended)
                   ELSE [ended EXCEPT !.load = "delay"]
  BY DEF Abandon
<1>3. unsure \subseteq Sends
  BY <1>1
<1> HIDE DEF By, unsure
<1>4. /\ base \in Clients(last)
      /\ base = [c EXCEPT !.bubble = base.bubble]
      /\ \A n \in Sends : base.bubble[n] = IF n \in unsure THEN "none" ELSE c.bubble[n]
  <2>1. [n \in Sends |-> IF n \in unsure THEN "none" ELSE c.bubble[n]]
          \in [Sends -> {"none", "pending", "sent"}]
    BY DEF Sound, Clients
  <2> QED BY <2>1 DEF WithoutBubbles, Sound, Clients
<1>5. /\ base.rows = c.rows /\ base.deleting = c.deleting /\ base.check = c.check
      /\ base.withdrawn = c.withdrawn /\ base.asks = c.asks
  BY <1>4 DEF Sound, Clients
<1> HIDE DEF base
<1>6. /\ checks \in [Sends -> {"new", "queued", "armed", "waiting", "asking", "off"}]
      /\ loading \in BOOLEAN /\ before \in Nat /\ after \in Nat /\ jump \in Nat
      /\ <<>> \in Seq(Waits)
  BY <1>4 DEF Clients
<1>7. \A n \in Sends : checks[n] = IF n \in By("check") THEN "off" ELSE c.check[n]
  BY <1>5
<1> HIDE DEF checks, loading, before, after, jump
<1>8. ended \in Clients(last)
  BY <1>3, <1>4, <1>6 DEF Clients
<1>9. /\ ended.rows = c.rows /\ ended.deleting = c.deleting /\ ended.asks = c.asks
      /\ ended.waits = <<>> /\ ended.check = checks /\ ended.bubble = base.bubble
      /\ ended.withdrawn = c.withdrawn \cup unsure
  BY <1>4, <1>5 DEF Clients
<1> HIDE DEF ended
<1>10. Sound(ended)
  BY <1>8, <1>9 DEF Sound, WaitsOK
<1>11. Goes(c, ended) /\ Hands(c, ended)
  BY <1>1, <1>4, <1>7, <1>9 DEF Goes, Hands
<1>12. To(c, ended)
  BY <1>10, <1>11 DEF To
<1>13. To(ended, LoadEnds(ended)) /\ LoadEnds(ended).waits = <<>>
  BY <1>10, <1>9, LoadEndsTo
<1>14. To(ended, [ended EXCEPT !.load = "delay"]) /\ [ended EXCEPT !.load = "delay"].waits = <<>>
  <2> DEFINE d == [ended EXCEPT !.load = "delay"]
  <2>1. d \in Clients(last)
    BY <1>8 DEF Clients
  <2>2. /\ d.rows = ended.rows /\ d.deleting = ended.deleting
        /\ d.check = ended.check /\ d.waits = ended.waits /\ d.asks = ended.asks
        /\ d.bubble = ended.bubble /\ d.withdrawn = ended.withdrawn
    BY <1>8 DEF Clients
  <2> HIDE DEF d
  <2>3. d.rows \subseteq ended.rows /\ d.deleting \subseteq ended.rows \cup ended.deleting
    BY <2>2
  <2>4. To(ended, d)
    BY <1>10, <2>1, <2>2, <2>3, ToAside
  <2> QED BY <2>2, <2>4, <1>9 DEF d
<1>15. To(c, LoadEnds(ended)) /\ To(c, [ended EXCEPT !.load = "delay"])
  BY <1>12, <1>13, <1>14, ToGoesOn
<1> QED BY <1>2, <1>9, <1>12, <1>13, <1>14, <1>15

(* One wait is taken out, and goes on.                                     *)
LEMMA DoneTo ==
  ASSUME NEW c, Sound(c), NEW i \in DOMAIN c.waits, NEW reply \in Replies
  PROVE  To(c, Continue([c EXCEPT !.waits = RemoveAt(c.waits, i)], c.waits[i], reply))
<1> DEFINE d == [c EXCEPT !.waits = RemoveAt(c.waits, i)]
<1>1. c.waits \in Seq(Waits) /\ i \in 1..Len(c.waits)
  BY DEF Sound, Clients
<1>2. RemoveAt(c.waits, i) \in Seq(Waits)
  BY <1>1, RemoveAtIs
<1>3. d \in Clients(last)
  BY <1>2 DEF Sound, Clients
<1>4. /\ d.rows = c.rows /\ d.deleting = c.deleting /\ d.check = c.check /\ d.asks = c.asks
      /\ d.bubble = c.bubble /\ d.withdrawn = c.withdrawn /\ d.waits = RemoveAt(c.waits, i)
  BY DEF Sound, Clients
<1> HIDE DEF d
<1>5. WaitsOK(d)
  <2>1. ASSUME NEW j \in DOMAIN d.waits
        PROVE  \E k \in DOMAIN c.waits : d.waits[j] = c.waits[k]
    <3>1. j \in 1..(Len(c.waits) - 1)
      <4>1. Len(RemoveAt(c.waits, i)) = Len(c.waits) - 1
        BY <1>1, RemoveAtIs
      <4> QED BY <4>1, <2>1, <1>2, <1>4
    <3>2. d.waits[j] = IF j < i THEN c.waits[j] ELSE c.waits[j + 1]
      BY <3>1, <1>1, <1>4, RemoveAtIs, ZenonT(60)
    <3>3. CASE j < i
      BY <3>1, <3>2, <3>3, <1>1
    <3>4. CASE ~(j < i)
      BY <3>1, <3>2, <3>4, <1>1
    <3> QED BY <3>3, <3>4
  <2> QED BY <2>1, <1>4 DEF Sound, WaitsOK, WaitOK
<1>6. Sound(d) /\ Goes(c, d) /\ Hands(c, d)
  BY <1>3, <1>4, <1>5 DEF Sound, Goes, Hands
<1>7. c.waits[i] \in Waits /\ WaitOK(d, c.waits[i])
  BY <1>1, <1>4 DEF Sound, WaitsOK, WaitOK
<1>8. To(d, Continue(d, c.waits[i], reply))
  BY <1>6, <1>7, ContinueTo
<1>9. To(c, d)
  BY <1>6 DEF To
<1>10. To(c, Continue(d, c.waits[i], reply))
  BY <1>8, <1>9, ToGoesOn
<1> QED BY <1>10 DEF d

(* The first that passes a test, or 0.                                     *)
LEMMA FirstOf ==
  ASSUME NEW S, NEW s \in Seq(S), NEW I \in SUBSET (1..Len(s))
  PROVE  (IF I # {} THEN Min(I) ELSE 0) \in {0} \cup I
<1>1. CASE I = {}
  BY <1>1
<1>2. CASE I # {}
  <2> DEFINE End(m) == \A x \in I : m <= x
             e == CHOOSE m \in I : End(m)
  <2>1. Min(I) = e
    BY DEF Min
  <2>2. \E m \in I : End(m)
    <3>1. I \in SUBSET Nat
      OBVIOUS
    <3> QED BY <1>2, <3>1, LeastNat
  <2>3. e \in I
    <3> HIDE DEF End
    <3> QED BY <2>2, Zenon
  <2> HIDE DEF e
  <2> QED BY <1>2, <2>1, <2>3
<1> QED BY <1>1, <1>2

LEMMA SettleTo ==
  ASSUME NEW c, Sound(c), NEW p \in Packets(last), last \in Nat
  PROVE  To(c, Settle(c, p))
<1> DEFINE Test(w) == IF p.mode \in {"latest", "before"} THEN w.mode = "before"
                      ELSE w.mode = p.mode /\ w.cur = p.cur
           I == {j \in 1..Len(c.waits) : Test(c.waits[j])}
           i == IF I # {} THEN Min(I) ELSE 0
           reply == [answered |-> TRUE, newest |-> Newest(p.rows), newer |-> p.newer]
<1>1. Settle(c, p) = IF i = 0 THEN c
        ELSE Continue([c EXCEPT !.waits = RemoveAt(c.waits, i)], c.waits[i], reply)
  <2>1. SelectInSeq(c.waits, LAMBDA w :
             IF p.mode \in {"latest", "before"} THEN w.mode = "before"
                                                ELSE w.mode = p.mode /\ w.cur = p.cur) = i
    BY DEF SelectInSeq
  <2> QED BY <2>1 DEF Settle
<1>2. reply \in Replies
  <2>1. p.rows \in SUBSET (1..last)
    BY DEF Packets, Row
  <2>2. Newest(p.rows) \in 0..last
    BY <2>1, NewestIs
  <2>3. p.newer \in BOOLEAN /\ Newest(p.rows) \in Nat
    <3>1. p.newer \in BOOLEAN
      BY DEF Packets
    <3>2. \A x \in 0..last : x \in Nat
      OBVIOUS
    <3> QED BY <2>2, <3>1, <3>2
  <2> QED BY <2>3 DEF Replies
<1>3. i \in {0} \cup I
  <2>1. c.waits \in Seq(Waits) /\ I \in SUBSET (1..Len(c.waits))
    BY DEF Sound, Clients
  <2> HIDE DEF I
  <2>2. (IF I # {} THEN Min(I) ELSE 0) \in {0} \cup I
    BY <2>1, FirstOf
  <2> QED BY <2>2
<1>4. i = 0 \/ i \in DOMAIN c.waits
  <2>1. I \subseteq DOMAIN c.waits
    OBVIOUS
  <2> HIDE DEF i, I
  <2> QED BY <1>3, <2>1
<1> HIDE DEF i, reply
<1> QED BY <1>1, <1>2, <1>4, DoneTo, ToSelf

LEMMA JumpLandsTo ==
  ASSUME NEW c, Sound(c)
  PROVE  To(c, JumpLands(c))
<1> DEFINE d == [c EXCEPT !.jump = 0, !.bottom = FALSE]
<1>1. d \in Clients(last)
  BY DEF Sound, Clients
<1>2. /\ d.rows = c.rows /\ d.deleting = c.deleting
      /\ d.check = c.check /\ d.waits = c.waits /\ d.asks = c.asks
      /\ d.bubble = c.bubble /\ d.withdrawn = c.withdrawn
  BY DEF Sound, Clients
<1>3. JumpLands(c) \in {c, d}
  BY DEF JumpLands
<1> HIDE DEF d
<1>4. d.rows \subseteq c.rows /\ d.deleting \subseteq c.rows \cup c.deleting
  BY <1>2
<1>5. To(c, d)
  BY <1>1, <1>2, <1>4, ToAside
<1> QED BY <1>3, <1>5, ToSelf

(* A page is merged, the wait on it goes on, the list lands on its target. *)
LEMMA OnHistoryGoes ==
  ASSUME NEW c, Sound(c), NEW p \in Packets(last), stored \in [Sends -> 0..last],
         last \in Nat
  PROVE  /\ Sound(OnHistory(c, p)) /\ Goes(c, OnHistory(c, p))
         /\ p.mode # "around" => Hands(c, OnHistory(c, p))
<1> DEFINE merged == CASE p.mode = "around" -> SetChannelWindow(c, p)
                       [] p.mode = "after"  -> AppendNewer(c, p)
                       [] OTHER             -> PrependHistory(c, p)
           fetched == merged.fetched \/ p.mode # "after"
           noted == [merged EXCEPT !.loading = FALSE, !.fetched = fetched]
           settled == Settle(noted, p)
<1>1. /\ Sound(merged) /\ Goes(c, merged)
      /\ p.mode # "around" => To(c, merged)
  <2>1. CASE p.mode = "around"
    BY <2>1, SetChannelWindowGoes
  <2>2. CASE p.mode = "after"
    BY <2>2, AppendNewerTo DEF To
  <2>3. CASE p.mode \notin {"around", "after"}
    BY <2>3, PrependHistoryTo DEF To
  <2> QED BY <2>1, <2>2, <2>3
<1>2. OnHistory(c, p) = JumpLands(settled)
  BY DEF OnHistory
<1>3. fetched \in BOOLEAN
  OBVIOUS
<1> HIDE DEF merged, fetched
<1>4. noted \in Clients(last)
  BY <1>1, <1>3 DEF Sound, Clients
<1>5. /\ noted.rows = merged.rows /\ noted.deleting = merged.deleting
      /\ noted.check = merged.check /\ noted.waits = merged.waits
      /\ noted.asks = merged.asks /\ noted.bubble = merged.bubble
      /\ noted.withdrawn = merged.withdrawn
  BY <1>1 DEF Sound, Clients
<1> HIDE DEF noted
<1>6. noted.rows \subseteq merged.rows /\ noted.deleting \subseteq merged.rows \cup merged.deleting
  BY <1>5
<1>7. To(merged, noted)
  BY <1>1, <1>4, <1>5, <1>6, ToAside
<1>8. To(noted, settled)
  BY <1>7, SettleTo DEF To
<1> HIDE DEF settled
<1>9. To(settled, JumpLands(settled))
  BY <1>8, JumpLandsTo DEF To
<1>10. To(merged, JumpLands(settled))
  <2>1. To(merged, settled)
    BY <1>1, <1>7, <1>8, ToGoesOn
  <2> QED BY <1>1, <1>9, <2>1, ToGoesOn
<1>11. Sound(JumpLands(settled)) /\ Goes(c, JumpLands(settled))
  BY <1>1, <1>10, GoesOn DEF To
<1>12. p.mode # "around" => To(c, JumpLands(settled))
  BY <1>1, <1>10, ToGoesOn
<1> QED BY <1>2, <1>11, <1>12 DEF To

LEMMA ResyncTo ==
  ASSUME NEW c, Sound(c)
  PROVE  To(c, Resync(c))
<1> DEFINE r == [c EXCEPT !.lastBefore = 0, !.lastAfter = 0, !.jump = 0]
           w == [r EXCEPT !.newer = TRUE]
           s == SetResyncing(r, TRUE)
           h == [s EXCEPT !.resync = TRUE]
<1>1. r \in Clients(last)
  BY DEF Sound, Clients
<1>2. /\ r.rows = c.rows /\ r.deleting = c.deleting /\ r.check = c.check
      /\ r.waits = c.waits /\ r.asks = c.asks /\ r.bubble = c.bubble
      /\ r.withdrawn = c.withdrawn
  BY DEF Sound, Clients
<1>3. Resync(c) = IF c.rows # {} /\ c.fetched /\ (c.newer \/ ~c.bottom) THEN w
                  ELSE IF c.rows # {} THEN LoadLatest(h) ELSE LoadLatest(r)
  BY DEF Resync
<1> HIDE DEF r
<1>4. To(c, r)
  <2>1. r.rows \subseteq c.rows /\ r.deleting \subseteq c.rows \cup c.deleting
    BY <1>2
  <2> QED BY <1>1, <1>2, <2>1, ToAside
<1>5. To(r, w)
  <2>1. w \in Clients(last)
    BY <1>1 DEF Clients
  <2>2. /\ w.rows = r.rows /\ w.deleting = r.deleting /\ w.check = r.check
        /\ w.waits = r.waits /\ w.asks = r.asks /\ w.bubble = r.bubble
        /\ w.withdrawn = r.withdrawn
    BY <1>1 DEF Clients
  <2> HIDE DEF w
  <2>3. w.rows \subseteq r.rows /\ w.deleting \subseteq r.rows \cup r.deleting
    BY <2>2
  <2>4. Sound(r)
    BY <1>4 DEF To
  <2> QED BY <2>1, <2>2, <2>3, <2>4, ToAside
<1>6. To(r, s)
  BY <1>4, SetResyncingTo DEF To
<1> HIDE DEF s, w
<1>7. To(s, h)
  <2>1. s \in Clients(last) /\ Sound(s)
    BY <1>6 DEF To, Sound
  <2>2. h \in Clients(last)
    BY <2>1 DEF Clients
  <2>3. /\ h.rows = s.rows /\ h.deleting = s.deleting /\ h.check = s.check
        /\ h.waits = s.waits /\ h.asks = s.asks /\ h.bubble = s.bubble
        /\ h.withdrawn = s.withdrawn
    BY <2>1 DEF Clients
  <2> HIDE DEF h
  <2>4. h.rows \subseteq s.rows /\ h.deleting \subseteq s.rows \cup s.deleting
    BY <2>3
  <2> QED BY <2>1, <2>2, <2>3, <2>4, ToAside
<1> HIDE DEF h
<1>8. To(c, h)
  BY <1>4, <1>6, <1>7, ToGoesOn
<1>9. To(h, LoadLatest(h)) /\ To(r, LoadLatest(r))
  BY <1>4, <1>8, LoadLatestTo DEF To
<1> QED BY <1>3, <1>4, <1>5, <1>8, <1>9, ToGoesOn

LEMMA CheckServerTo ==
  ASSUME NEW c, Sound(c), NEW n \in Sends, c.check[n] # "new"
  PROVE  To(c, CheckServer(c, n))
<1>1. c.after[n] \in Nat
  BY DEF Sound, Clients
<1> QED BY <1>1, FirstPage, AskSinceTo, CheckTo DEF CheckServer

LEMMA ResumeChecksTo ==
  ASSUME NEW c, Sound(c)
  PROVE  To(c, ResumeChecks(c))
<1> DEFINE waiting == {n \in Sends : c.check[n] = "waiting"}
           S == {n \in waiting : c.bubble[n] = "pending"}
           ns == SetToSeq(S)
           from(i) == c.after[ns[i]]
           rs == [i \in DOMAIN ns |-> Request(SinceMode(from(i)), from(i), CheckLimit)]
           ws == [i \in DOMAIN ns |-> CheckOn(ns[i], from(i), 1)]
           checks == [n \in Sends |-> IF n \notin waiting THEN c.check[n]
                                      ELSE IF c.bubble[n] = "pending" THEN "asking" ELSE "off"]
           d == [c EXCEPT !.check = checks, !.asks = c.asks \o rs, !.waits = c.waits \o ws]
<1>1. ResumeChecks(c) = d
  BY DEF ResumeChecks
<1>2. ns \in Seq(S)
  <2>1. IsFiniteSet(S)
    BY BoundsAssumption, FS_Subset
  <2> QED BY <2>1, SeqOfSet
<1>3. /\ checks \in [Sends -> {"new", "queued", "armed", "waiting", "asking", "off"}]
      /\ \A n \in Sends : checks[n] \in {"new", "queued"} \/ c.check[n] = "new"
                            => checks[n] = c.check[n]
      /\ \A n \in S : checks[n] # "new"
  BY DEF Sound, Clients
<1>4. /\ \A n \in S : n \in Sends /\ n \in Nat /\ c.after[n] \in Nat
      /\ CheckLimit \in Nat
  BY BoundsAssumption DEF Sound, Clients
<1> HIDE DEF S, ns, checks
<1>5. ASSUME NEW i \in DOMAIN ns
      PROVE  /\ ns[i] \in S
             /\ rs[i] \in Asks /\ rs[i].t = "page" /\ rs[i].mode # "around"
             /\ ws[i] \in Waits /\ ws[i].by = "check" /\ ws[i].arg = ns[i]
  <2>1. ns[i] \in S
    BY <1>2, <1>5
  <2>3. /\ Request(SinceMode(from(i)), from(i), CheckLimit) \in Asks
        /\ Request(SinceMode(from(i)), from(i), CheckLimit).t = "page"
        /\ Request(SinceMode(from(i)), from(i), CheckLimit).mode # "around"
        /\ CheckOn(ns[i], from(i), 1) \in Waits
        /\ CheckOn(ns[i], from(i), 1).by = "check"
        /\ CheckOn(ns[i], from(i), 1).arg = ns[i]
    <3> DEFINE n == ns[i]
               a == c.after[n]
    <3>1. n \in Sends /\ a \in Nat
      BY <2>1, <1>4
    <3> HIDE DEF n, a
    <3>2. /\ Request(SinceMode(a), a, CheckLimit) \in Asks
          /\ Request(SinceMode(a), a, CheckLimit).t = "page"
          /\ Request(SinceMode(a), a, CheckLimit).mode # "around"
          /\ CheckOn(n, a, 1) \in Waits
          /\ CheckOn(n, a, 1).by = "check" /\ CheckOn(n, a, 1).arg = n
      BY <3>1, FirstPage, CheckAsks
    <3> QED BY <3>2 DEF n, a
  <2> QED BY <2>1, <2>3
<1>6. DOMAIN ns = 1..Len(ns) /\ Len(ns) \in Nat
  BY <1>2
<1>7. /\ rs \in Seq(Asks) /\ Len(rs) = Len(ns)
      /\ ws \in Seq(Waits) /\ Len(ws) = Len(ns)
  <2>1. rs \in [1..Len(ns) -> Asks] /\ ws \in [1..Len(ns) -> Waits]
    BY <1>5, <1>6
  <2> HIDE DEF rs, ws
  <2> QED BY <2>1, <1>6
<1> HIDE DEF rs, ws
<1>8. c.asks \in Seq(Asks) /\ c.waits \in Seq(Waits)
  BY DEF Sound, Clients
<1>9. /\ c.asks \o rs \in Seq(Asks) /\ Len(c.asks \o rs) = Len(c.asks) + Len(rs)
      /\ \A i \in 1..(Len(c.asks) + Len(rs)) :
            (c.asks \o rs)[i] = IF i <= Len(c.asks) THEN c.asks[i] ELSE rs[i - Len(c.asks)]
  BY <1>7, <1>8, ConcatProperties
<1>10. /\ c.waits \o ws \in Seq(Waits) /\ Len(c.waits \o ws) = Len(c.waits) + Len(ws)
       /\ \A i \in 1..(Len(c.waits) + Len(ws)) :
             (c.waits \o ws)[i] = IF i <= Len(c.waits) THEN c.waits[i] ELSE ws[i - Len(c.waits)]
  BY <1>7, <1>8, ConcatProperties
<1>11. d \in Clients(last)
  BY <1>3, <1>9, <1>10 DEF Sound, Clients
<1>12. /\ d.rows = c.rows /\ d.deleting = c.deleting /\ d.bubble = c.bubble
       /\ d.withdrawn = c.withdrawn /\ d.check = checks
       /\ d.asks = c.asks \o rs /\ d.waits = c.waits \o ws
  BY DEF Sound, Clients
<1> HIDE DEF d
<1>13. WaitsOK(d)
  <2>1. ASSUME NEW i \in DOMAIN d.waits
        PROVE  WaitOK(d, d.waits[i])
    <3>0. i \in 1..(Len(c.waits) + Len(ws))
      BY <2>1, <1>10, <1>12
    <3>1. CASE i <= Len(c.waits)
      <4>1. i \in DOMAIN c.waits /\ d.waits[i] = c.waits[i]
        BY <3>0, <3>1, <1>8, <1>10, <1>12
      <4>2. WaitOK(c, c.waits[i])
        BY <4>1 DEF Sound, WaitsOK
      <4> QED BY <4>1, <4>2, <1>3, <1>12 DEF WaitOK
    <3>2. CASE ~(i <= Len(c.waits))
      <4>1. i - Len(c.waits) \in 1..Len(ns)
        BY <3>0, <3>2, <1>7, <1>8
      <4>2. d.waits[i] = ws[i - Len(c.waits)]
        BY <3>0, <3>2, <1>10, <1>12
      <4>3. ns[i - Len(c.waits)] \in S /\ d.waits[i].arg = ns[i - Len(c.waits)]
        BY <4>1, <4>2, <1>5, <1>6
      <4> QED BY <4>3, <1>3, <1>4, <1>12 DEF WaitOK
    <3> QED BY <3>1, <3>2
  <2> QED BY <2>1 DEF WaitsOK
<1>14. ASSUME NEW i \in DOMAIN d.asks,
              d.asks[i].t = "send" \/ d.asks[i].mode = "around"
       PROVE  i \in DOMAIN c.asks /\ c.asks[i] = d.asks[i]
  <2>0. i \in 1..(Len(c.asks) + Len(rs))
    BY <1>14, <1>9, <1>12
  <2>1. CASE i <= Len(c.asks)
    BY <2>0, <2>1, <1>8, <1>9, <1>12
  <2>2. CASE ~(i <= Len(c.asks))
    <3>1. i - Len(c.asks) \in 1..Len(ns)
      BY <2>0, <2>2, <1>7, <1>8
    <3>2. d.asks[i] = rs[i - Len(c.asks)]
      BY <2>0, <2>2, <1>9, <1>12
    <3>3. d.asks[i].t = "page" /\ d.asks[i].mode # "around"
      BY <3>1, <3>2, <1>5, <1>6
    <3> QED BY <3>3, <1>14
  <2> QED BY <2>1, <2>2
<1>15. Goes(c, d) /\ Hands(c, d)
  BY <1>3, <1>12, <1>14 DEF Goes, Hands
<1>16. To(c, d)
  BY <1>11, <1>13, <1>15 DEF To, Sound
<1> QED BY <1>1, <1>16

LEMMA OnAuthTo ==
  ASSUME NEW c, Sound(c)
  PROVE  To(c, OnAuth(c))
<1> DEFINE m == MarkStale(c)
           a == Abandon(m)
           r == ResumeChecks(a)
<1>1. To(c, m)
  BY MarkStaleTo
<1> HIDE DEF m
<1>2. To(m, a)
  BY <1>1, AbandonTo DEF To
<1> HIDE DEF a
<1>3. To(a, r)
  BY <1>2, ResumeChecksTo DEF To
<1>4. OnAuth(c) = IF c.shown THEN Resync(r) ELSE r
  BY DEF OnAuth, m, a
<1> HIDE DEF r
<1>5. To(r, Resync(r))
  BY <1>3, ResyncTo DEF To
<1>6. To(c, r)
  BY <1>1, <1>2, <1>3, ToGoesOn
<1> QED BY <1>4, <1>5, <1>6, ToGoesOn

(* A rejection is about a send that was composed.                          *)
LEMMA OnDirectTo ==
  ASSUME NEW c, Sound(c), NEW p \in Packets(last), p.t \notin {"msg", "page"},
         p.t = "rejected" => p.send \in Sends /\ c.check[p.send] # "new"
  PROVE  To(c, OnDirect(c, p))
<1>1. CASE p.t = "auth"
  BY <1>1, OnAuthTo DEF OnDirect
<1>2. CASE p.t = "rejected"
  BY <1>2, WithdrawTo, ToSelf DEF OnDirect
<1>3. CASE p.t = "deleted"
  BY <1>3, RemoveMessageTo DEF OnDirect
<1>4. CASE p.t = "ack"
  <2> DEFINE d == [c EXCEPT !.deleting = @ \ {p.id}]
  <2>1. d \in Clients(last)
    BY DEF Sound, Clients
  <2>2. /\ d.rows = c.rows /\ d.deleting \subseteq c.deleting
        /\ d.check = c.check /\ d.waits = c.waits /\ d.asks = c.asks
        /\ d.bubble = c.bubble /\ d.withdrawn = c.withdrawn
    BY DEF Sound, Clients
  <2>3. OnDirect(c, p) \in {d, RestorePendingDeletion(c, p.id)}
    BY <1>4 DEF OnDirect
  <2> HIDE DEF d
  <2>4. d.rows \subseteq c.rows /\ d.deleting \subseteq c.rows \cup c.deleting
    BY <2>2
  <2>5. To(c, d)
    BY <2>1, <2>2, <2>4, ToAside
  <2> QED BY <2>3, <2>5, RestorePendingDeletionTo
<1> QED BY <1>1, <1>2, <1>3, <1>4 DEF Packets

-----------------------------------------------------------------------------
(* The invariant.                                                          *)

(* Nothing replaces or drops a slice that shows a bubble.                  *)
Quiet == MaxJumps = 0 /\ MaxEvicts = 0

(* A message packet tells of its row as the server stored it; what is      *)
(* rejected was composed.                                                  *)
Said(p, st, c) ==
  /\ p.t = "msg" => \A n \in Sends : st[n] = p.id <=> n = p.send
  /\ p.t = "rejected" => c.check[p.send] # "new"
  /\ Quiet => p.mode # "around"

PacketsSay ==
  /\ \A i \in DOMAIN wire : Said(wire[i], stored, client)
  /\ \A i \in DOMAIN jobs : Said(jobs[i], stored, client)

(* A send under way to the server is not stored yet, and goes there once.  *)
SendsWait ==
  \A i \in DOMAIN client.asks : client.asks[i].t = "send" =>
    /\ stored[client.asks[i].id] = 0
    /\ client.check[client.asks[i].id] \notin {"new", "queued"}
    /\ \A j \in DOMAIN client.asks :
          client.asks[j].t = "send" /\ client.asks[j].id = client.asks[i].id => i = j

Unsent == \A n \in Sends : client.check[n] \in {"new", "queued"} => stored[n] = 0

(* DisplayedOnce, also for the rows a delete has taken out: it may be      *)
(* refused, and they come back.                                            *)
Settles ==
  \A n \in Sends : stored[n] \in client.rows \cup client.deleting => client.bubble[n] = "none"

NoWindow ==
  \A i \in DOMAIN client.asks : client.asks[i].t = "page" => client.asks[i].mode # "around"

TextKept ==
  \A n \in Sends :
    \/ client.check[n] = "new" \/ client.bubble[n] # "none" \/ stored[n] # 0
    \/ n \in client.withdrawn

Inv ==
  /\ TypeOK /\ PacketsSay /\ SendsWait /\ Unsent /\ Settles
  /\ Quiet => NoWindow /\ TextKept

THEOREM InitInv == Init => Inv
<1> SUFFICES ASSUME Init PROVE Inv
  OBVIOUS
<1>1. OldRows \in Nat /\ 0 \notin Sends
  BY BoundsAssumption
<1>2. log = Row(last) /\ last \in Nat /\ stored \in [Sends -> 0..last]
  BY <1>1 DEF Init, Row
<1>3. /\ wire = <<>> /\ jobs = <<>> /\ client.asks = <<>> /\ client.waits = <<>>
      /\ client.bubble = [n \in Sends |-> "none"] /\ client.check = [n \in Sends |-> "new"]
      /\ stored = [n \in Sends |-> 0]
  BY DEF Init
<1>4. /\ <<>> \in Seq(Packets(last)) /\ <<>> \in Seq(Asks) /\ <<>> \in Seq(Waits)
      /\ DOMAIN <<>> = {}
  OBVIOUS
<1>5. client \in Clients(last)
  BY <1>4 DEF Init, Clients
<1>6. spent \in Spent
  BY DEF Init, Spent
<1>7. TypeOK
  BY <1>2, <1>3, <1>4, <1>5, <1>6 DEF TypeOK, Init, Sound, WaitsOK
<1>8. PacketsSay /\ SendsWait /\ Unsent /\ Settles /\ NoWindow /\ TextKept
  BY <1>3, <1>4 DEF PacketsSay, SendsWait, Unsent, Settles, NoWindow, TextKept
<1> QED BY <1>7, <1>8 DEF Inv

-----------------------------------------------------------------------------
(* What a step of the renderer keeps.                                      *)

(* The rows it holds, the packets on their way to it.                      *)
LEMMA RendererKeeps ==
  ASSUME Inv, NEW d, Sound(d), Goes(client, d), Quiet => Hands(client, d),
         client' = d, UNCHANGED <<log, last, stored>>, up' \in BOOLEAN, spent' \in Spent,
         wire' \in Seq(Packets(last)), jobs' \in Seq(Packets(last)),
         \A i \in DOMAIN wire' : PacketOK(wire'[i], last) /\ Said(wire'[i], stored, client),
         \A i \in DOMAIN jobs' : PacketOK(jobs'[i], last) /\ Said(jobs'[i], stored, client)
  PROVE  Inv'
<1>1. TypeOK'
  BY DEF Inv, TypeOK, Sound, WaitsOK, WaitOK
<1>2. PacketsSay'
  <2>1. ASSUME NEW p, PacketOK(p, last), Said(p, stored, client)
        PROVE  Said(p, stored, d)
    BY <2>1 DEF Said, PacketOK, Goes
  <2> QED BY <2>1 DEF PacketsSay
<1>3. SendsWait'
  <2>1. ASSUME NEW i \in DOMAIN d.asks, d.asks[i].t = "send"
        PROVE  i \in DOMAIN client.asks /\ client.asks[i] = d.asks[i]
    BY <2>1 DEF Goes
  <2>2. \A i \in DOMAIN d.asks : d.asks[i].t = "send" => d.asks[i].id \in Sends
    <3>1. \A i \in DOMAIN d.asks : d.asks[i] \in Asks
      BY DEF Sound, Clients
    <3>2. \A a \in Asks : a.t = "send" => a.id \in Sends
      BY DEF Asks
    <3> QED BY <3>1, <3>2
  <2> QED BY <2>1, <2>2 DEF SendsWait, Inv, Goes
<1>4. Unsent'
  BY DEF Inv, Unsent, Goes
<1>5. Settles'
  <2>1. ASSUME NEW n \in Sends, stored[n] \in d.rows \cup d.deleting
        PROVE  d.bubble[n] = "none"
    BY <2>1 DEF Inv, Settles, Goes, Confirmed
  <2> QED BY <2>1 DEF Settles
<1>6. ASSUME Quiet PROVE NoWindow' /\ TextKept'
  <2>1. Hands(client, d)
    BY <1>6
  <2>2. NoWindow'
    <3>1. NoWindow
      BY <1>6 DEF Inv
    <3> QED BY <2>1, <3>1 DEF NoWindow, Hands
  <2>3. TextKept'
    <3>1. TextKept
      BY <1>6 DEF Inv
    <3> QED BY <2>1, <3>1 DEF TextKept, Hands, Goes
  <2> QED BY <2>2, <2>3
<1> QED BY <1>1, <1>2, <1>3, <1>4, <1>5, <1>6 DEF Inv, Quiet

(* The packets stay where they are.                                        *)
LEMMA RendererStep ==
  ASSUME Inv, NEW d, Sound(d), Goes(client, d), Quiet => Hands(client, d),
         Renderer(d), spent' \in Spent
  PROVE  Inv'
<1>1. /\ client' = d /\ UNCHANGED <<log, last, stored, up, wire, jobs>>
  BY DEF Renderer
<1>2. /\ \A i \in DOMAIN wire : PacketOK(wire[i], last) /\ Said(wire[i], stored, client)
      /\ \A i \in DOMAIN jobs : PacketOK(jobs[i], last) /\ Said(jobs[i], stored, client)
      /\ up \in BOOLEAN /\ wire \in Seq(Packets(last)) /\ jobs \in Seq(Packets(last))
  BY DEF Inv, TypeOK, PacketsSay
<1> QED BY <1>1, <1>2, RendererKeeps

LEMMA SpendOK ==
  ASSUME spent \in Spent,
         NEW b \in {"drops", "deletes", "refusals", "jumps", "losses", "visits", "evicts"},
         Spend(b)
  PROVE  spent' \in Spent
<1>1. spent' = [spent EXCEPT ![b] = spent[b] + 1]
  BY DEF Spend
<1>2. CASE b = "drops"
  BY <1>1, <1>2 DEF Spent
<1>3. CASE b = "deletes"
  BY <1>1, <1>3 DEF Spent
<1>4. CASE b = "refusals"
  BY <1>1, <1>4 DEF Spent
<1>5. CASE b = "jumps"
  BY <1>1, <1>5 DEF Spent
<1>6. CASE b = "losses"
  BY <1>1, <1>6 DEF Spent
<1>7. CASE b = "visits"
  BY <1>1, <1>7 DEF Spent
<1>8. CASE b = "evicts"
  BY <1>1, <1>8 DEF Spent
<1> QED BY <1>2, <1>3, <1>4, <1>5, <1>6, <1>7, <1>8

(* The first packet of a queue, and the others.                            *)
LEMMA FirstPacket ==
  ASSUME NEW s \in Seq(Packets(last)), s # <<>>,
         \A i \in DOMAIN s : PacketOK(s[i], last) /\ Said(s[i], stored, client)
  PROVE  /\ Head(s) \in Packets(last)
         /\ PacketOK(Head(s), last) /\ Said(Head(s), stored, client)
         /\ Tail(s) \in Seq(Packets(last))
         /\ \A i \in DOMAIN Tail(s) :
               PacketOK(Tail(s)[i], last) /\ Said(Tail(s)[i], stored, client)
<1>1. Head(s) = s[1] /\ 1 \in DOMAIN s /\ Head(s) \in Packets(last)
  BY HeadTailProperties
<1>2. /\ Tail(s) \in Seq(Packets(last)) /\ Len(Tail(s)) = Len(s) - 1
      /\ \A i \in 1..(Len(s) - 1) : Tail(s)[i] = s[i + 1]
  BY HeadTailProperties
<1>3. \A i \in 1..(Len(s) - 1) : i + 1 \in DOMAIN s
  OBVIOUS
<1>4. DOMAIN Tail(s) = 1..(Len(s) - 1)
  BY <1>2
<1> QED BY <1>1, <1>2, <1>3, <1>4

LEMMA ReadInv == Inv /\ Read => Inv'
<1> SUFFICES ASSUME Inv, Read PROVE Inv'
  OBVIOUS
<1> DEFINE p == Head(wire)
<1>1. /\ wire # <<>> /\ wire \in Seq(Packets(last)) /\ jobs \in Seq(Packets(last))
      /\ \A i \in DOMAIN wire : PacketOK(wire[i], last) /\ Said(wire[i], stored, client)
      /\ \A i \in DOMAIN jobs : PacketOK(jobs[i], last) /\ Said(jobs[i], stored, client)
      /\ spent \in Spent /\ up \in BOOLEAN /\ Sound(client)
  BY DEF Inv, TypeOK, PacketsSay, Read
<1>2. /\ p \in Packets(last) /\ PacketOK(p, last) /\ Said(p, stored, client)
      /\ Tail(wire) \in Seq(Packets(last))
      /\ \A i \in DOMAIN Tail(wire) :
            PacketOK(Tail(wire)[i], last) /\ Said(Tail(wire)[i], stored, client)
  BY <1>1, FirstPacket
<1>3. wire' = Tail(wire) /\ UNCHANGED <<log, last, stored, up, spent>>
  BY DEF Read
<1> HIDE DEF p
<1>4. CASE p.t \in {"msg", "page"}
  <2>1. jobs' = Append(jobs, p) /\ client' = client
    BY <1>4 DEF Read, p
  <2>2. /\ Append(jobs, p) \in Seq(Packets(last))
        /\ \A i \in DOMAIN Append(jobs, p) :
              PacketOK(Append(jobs, p)[i], last) /\ Said(Append(jobs, p)[i], stored, client)
    <3>1. /\ Append(jobs, p) \in Seq(Packets(last))
          /\ Len(Append(jobs, p)) = Len(jobs) + 1
          /\ \A i \in 1..Len(jobs) : Append(jobs, p)[i] = jobs[i]
          /\ Append(jobs, p)[Len(jobs) + 1] = p
      BY <1>1, <1>2, AppendProperties
    <3>2. \A i \in DOMAIN Append(jobs, p) : i \in DOMAIN jobs \/ i = Len(jobs) + 1
      BY <3>1, <1>1
    <3>3. DOMAIN jobs = 1..Len(jobs)
      BY <1>1
    <3> QED BY <3>1, <3>2, <3>3, <1>1, <1>2
  <2>3. To(client, client)
    BY <1>1, ToSelf
  <2> QED BY <1>1, <1>2, <1>3, <2>1, <2>2, <2>3, RendererKeeps DEF To
<1>5. CASE p.t \notin {"msg", "page"}
  <2> DEFINE d == OnDirect(client, p)
  <2>1. jobs' = jobs /\ client' = d
    BY <1>5 DEF Read, p
  <2>2. p.t = "rejected" => p.send \in Sends /\ client.check[p.send] # "new"
    BY <1>2 DEF PacketOK, Said
  <2>3. To(client, d)
    BY <1>1, <1>2, <1>5, <2>2, OnDirectTo
  <2> HIDE DEF d
  <2> QED BY <1>1, <1>2, <1>3, <2>1, <2>3, RendererKeeps DEF To
<1> QED BY <1>4, <1>5

LEMMA WorkInv == Inv /\ Work => Inv'
<1> SUFFICES ASSUME Inv, Work PROVE Inv'
  OBVIOUS
<1> DEFINE p == Head(jobs)
           d == IF p.t = "msg" THEN AddMessage(client, p.id, p.send) ELSE OnHistory(client, p)
<1>1. /\ jobs # <<>> /\ wire \in Seq(Packets(last)) /\ jobs \in Seq(Packets(last))
      /\ \A i \in DOMAIN wire : PacketOK(wire[i], last) /\ Said(wire[i], stored, client)
      /\ \A i \in DOMAIN jobs : PacketOK(jobs[i], last) /\ Said(jobs[i], stored, client)
      /\ spent \in Spent /\ up \in BOOLEAN /\ Sound(client)
      /\ last \in Nat /\ stored \in [Sends -> 0..last]
  BY DEF Inv, TypeOK, PacketsSay, Work
<1>2. /\ p \in Packets(last) /\ PacketOK(p, last) /\ Said(p, stored, client)
      /\ Tail(jobs) \in Seq(Packets(last))
      /\ \A i \in DOMAIN Tail(jobs) :
            PacketOK(Tail(jobs)[i], last) /\ Said(Tail(jobs)[i], stored, client)
  BY <1>1, FirstPacket
<1>3. /\ jobs' = Tail(jobs) /\ UNCHANGED <<log, last, stored, up, wire, spent>>
      /\ client' = d
  BY DEF Work
<1>4. Sound(d) /\ Goes(client, d) /\ (Quiet => Hands(client, d))
  <2>1. CASE p.t = "msg"
    <3> HIDE DEF p
    <3>1. p.id \in Row(last) /\ \A m \in Sends : stored[m] = p.id <=> m = p.send
      BY <2>1, <1>2 DEF PacketOK, Said
    <3>2. To(client, AddMessage(client, p.id, p.send))
      BY <3>1, <1>1, AddMessageTo
    <3> QED BY <2>1, <3>2 DEF To
  <2>2. CASE p.t # "msg"
    <3> HIDE DEF p
    <3>1. Quiet => p.mode # "around"
      BY <1>2 DEF Said
    <3> QED BY <2>2, <3>1, <1>1, <1>2, OnHistoryGoes
  <2> QED BY <2>1, <2>2
<1> HIDE DEF p, d
<1> QED BY <1>1, <1>2, <1>3, <1>4, RendererKeeps

LEMMA SkipFrameInv == Inv /\ SkipFrame => Inv'
<1> SUFFICES ASSUME Inv, SkipFrame PROVE Inv'
  OBVIOUS
<1>1. /\ wire # <<>> /\ wire \in Seq(Packets(last)) /\ jobs \in Seq(Packets(last))
      /\ \A i \in DOMAIN wire : PacketOK(wire[i], last) /\ Said(wire[i], stored, client)
      /\ \A i \in DOMAIN jobs : PacketOK(jobs[i], last) /\ Said(jobs[i], stored, client)
      /\ spent \in Spent /\ up \in BOOLEAN /\ Sound(client)
  BY DEF Inv, TypeOK, PacketsSay, SkipFrame
<1>2. /\ Tail(wire) \in Seq(Packets(last))
      /\ \A i \in DOMAIN Tail(wire) :
            PacketOK(Tail(wire)[i], last) /\ Said(Tail(wire)[i], stored, client)
  BY <1>1, FirstPacket
<1>3. /\ wire' = Tail(wire) /\ UNCHANGED <<log, last, stored, up, jobs, client>>
      /\ spent' \in Spent
  BY <1>1, SpendOK DEF SkipFrame
<1>4. To(client, client)
  BY <1>1, ToSelf
<1> QED BY <1>1, <1>2, <1>3, <1>4, RendererKeeps DEF To

LEMMA DropInv == Inv /\ Drop => Inv'
<1> SUFFICES ASSUME Inv, Drop PROVE Inv'
  OBVIOUS
<1> DEFINE c == [client EXCEPT !.asks = <<>>]
<1>1. /\ jobs \in Seq(Packets(last))
      /\ \A i \in DOMAIN jobs : PacketOK(jobs[i], last) /\ Said(jobs[i], stored, client)
      /\ spent \in Spent /\ Sound(client)
  BY DEF Inv, TypeOK, PacketsSay
<1>2. /\ wire' = <<>> /\ up' = FALSE /\ UNCHANGED <<log, last, stored, jobs>>
      /\ client' = Abandon(c) /\ spent' \in Spent
  BY <1>1, SpendOK DEF Drop
<1>3. <<>> \in Seq(Packets(last)) /\ <<>> \in Seq(Asks) /\ DOMAIN <<>> = {}
  OBVIOUS
<1>4. c \in Clients(last)
  BY <1>1, <1>3 DEF Sound, Clients
<1>5. /\ c.rows = client.rows /\ c.deleting = client.deleting /\ c.check = client.check
      /\ c.waits = client.waits /\ c.asks = <<>> /\ c.bubble = client.bubble
      /\ c.withdrawn = client.withdrawn
  BY <1>1 DEF Sound, Clients
<1> HIDE DEF c
<1>6. To(client, c)
  BY <1>1, <1>3, <1>4, <1>5 DEF To, Goes, Hands, Sound, WaitsOK, WaitOK
<1>7. To(c, Abandon(c))
  BY <1>6, AbandonTo DEF To
<1>8. To(client, Abandon(c))
  BY <1>1, <1>6, <1>7, ToGoesOn
<1>9. \A i \in DOMAIN wire' : PacketOK(wire'[i], last) /\ Said(wire'[i], stored, client)
  BY <1>2, <1>3
<1>10. wire' \in Seq(Packets(last)) /\ jobs' \in Seq(Packets(last)) /\ up' \in BOOLEAN
  BY <1>1, <1>2, <1>3
<1>11. \A i \in DOMAIN jobs' : PacketOK(jobs'[i], last) /\ Said(jobs'[i], stored, client)
  BY <1>1, <1>2
<1> QED BY <1>2, <1>8, <1>9, <1>10, <1>11, RendererKeeps DEF To

LEMMA ReconnectInv == Inv /\ Reconnect => Inv'
<1> SUFFICES ASSUME Inv, Reconnect PROVE Inv'
  OBVIOUS
<1>1. /\ jobs \in Seq(Packets(last))
      /\ \A i \in DOMAIN jobs : PacketOK(jobs[i], last) /\ Said(jobs[i], stored, client)
      /\ spent \in Spent /\ Sound(client)
  BY DEF Inv, TypeOK, PacketsSay
<1>2. /\ wire' = <<Packet("auth")>> /\ up' = TRUE
      /\ UNCHANGED <<log, last, stored, jobs, client, spent>>
  BY DEF Reconnect
<1>3. /\ Packet("auth") \in Packets(last)
      /\ Packet("auth").t = "auth" /\ Packet("auth").mode = ""
  BY DEF Packet, Packets
<1>4. wire' \in Seq(Packets(last)) /\ \A i \in DOMAIN wire' : wire'[i].t = "auth" /\ wire'[i].mode = ""
  <2>1. ASSUME NEW a \in Packets(last) PROVE <<a>> \in Seq(Packets(last))
    BY <2>1
  <2>2. ASSUME NEW a, NEW i \in DOMAIN <<a>> PROVE <<a>>[i] = a
    BY <2>2
  <2> QED BY <1>2, <1>3, <2>1, <2>2
<1>5. \A i \in DOMAIN wire' : PacketOK(wire'[i], last) /\ Said(wire'[i], stored, client)
  BY <1>4 DEF PacketOK, Said
<1>6. To(client, client)
  BY <1>1, ToSelf
<1> QED BY <1>1, <1>2, <1>4, <1>5, <1>6, RendererKeeps DEF To

-----------------------------------------------------------------------------
(* The user, the list and the timers.                                      *)

(* What the mutators of an action leave as it was, in most of them.        *)
Aside(c, d) ==
  /\ d \in Clients(last) /\ d.rows \subseteq c.rows
  /\ d.deleting \subseteq c.rows \cup c.deleting
  /\ d.bubble = c.bubble /\ d.check = c.check /\ d.withdrawn = c.withdrawn
  /\ d.waits = c.waits /\ d.asks = c.asks

LEMMA AsideTo ==
  ASSUME Inv, NEW d, Aside(client, d)
  PROVE  To(client, d) /\ Sound(d)
<1>1. Sound(client)
  BY DEF Inv, TypeOK
<1> QED BY <1>1, ToAside DEF Aside, To

LEMMA ToStep ==
  ASSUME Inv, NEW d, To(client, d), Renderer(d), spent' \in Spent
  PROVE  Inv'
BY RendererStep DEF To

LEMMA ToToStep ==
  ASSUME Inv, NEW c, To(client, c), NEW d, To(c, d), Renderer(d), spent' \in Spent
  PROVE  Inv'
<1>1. Sound(client)
  BY DEF Inv, TypeOK
<1> QED BY <1>1, ToGoesOn, ToStep

LEMMA ScrollInv == Inv /\ Scroll => Inv'
<1> SUFFICES ASSUME Inv, Scroll PROVE Inv'
  OBVIOUS
<1> DEFINE b == ~client.bottom
           d == [client EXCEPT !.bottom = b]
<1>1. Renderer(d) /\ spent' = spent /\ spent \in Spent
  BY DEF Scroll, Inv, TypeOK
<1>2. b \in BOOLEAN
  OBVIOUS
<1> HIDE DEF b
<1>3. Aside(client, d)
  BY <1>2 DEF Aside, Inv, TypeOK, Sound, Clients
<1> HIDE DEF d
<1> QED BY <1>1, <1>3, AsideTo, ToStep

LEMMA LeaveInv == Inv /\ Leave => Inv'
<1> SUFFICES ASSUME Inv, Leave PROVE Inv'
  OBVIOUS
<1> DEFINE d == [client EXCEPT !.shown = FALSE, !.jump = 0, !.lastAfter = 0,
                               !.saved = IF client.bottom THEN "bottom" ELSE "up"]
<1>1. Renderer(d) /\ spent' \in Spent
  BY SpendOK DEF Leave, Inv, TypeOK
<1>3. Aside(client, d)
  BY ZenonT(60) DEF Aside, Inv, TypeOK, Sound, Clients
<1> HIDE DEF d
<1> QED BY <1>1, <1>3, AsideTo, ToStep

LEMMA VisitInv == Inv /\ Visit => Inv'
<1> SUFFICES ASSUME Inv, Visit PROVE Inv'
  OBVIOUS
<1> DEFINE b == client.saved # "up" \/ client.rows = {}
           c == [client EXCEPT !.shown = TRUE, !.bottom = b]
<1>1. Renderer(IF c.fetched THEN c ELSE LoadLatest(c)) /\ spent' = spent /\ spent \in Spent
  BY DEF Visit, Inv, TypeOK
<1>2. b \in BOOLEAN
  OBVIOUS
<1> HIDE DEF b
<1>3. Aside(client, c)
  BY <1>2 DEF Aside, Inv, TypeOK, Sound, Clients
<1> HIDE DEF c
<1>4. To(client, c) /\ Sound(c)
  BY <1>3, AsideTo
<1>5. To(c, LoadLatest(c))
  BY <1>4, LoadLatestTo
<1> QED BY <1>1, <1>4, <1>5, ToStep, ToToStep

LEMMA EvictInv == Inv /\ Evict => Inv'
<1> SUFFICES ASSUME Inv, Evict PROVE Inv'
  OBVIOUS
<1>1. Renderer(Dropped(client)) /\ spent' \in Spent
  BY SpendOK DEF Evict, Inv, TypeOK
<1>2. ~Quiet
  BY DEF Evict, Quiet, Inv, TypeOK, Spent
<1>3. Sound(Dropped(client)) /\ Goes(client, Dropped(client))
  BY DroppedGoes DEF Inv, TypeOK
<1> QED BY <1>1, <1>2, <1>3, RendererStep

LEMMA RetryLoadInv == Inv /\ RetryLoad => Inv'
<1> SUFFICES ASSUME Inv, RetryLoad PROVE Inv'
  OBVIOUS
<1> DEFINE tries == client.tries + 1
           c == [client EXCEPT !.tries = tries, !.load = "asked"]
           d == Ask(c, "latest", 0, PageLimit, "latest", 0)
<1>1. Renderer(IF up THEN d ELSE LoadEnds(client)) /\ spent' = spent /\ spent \in Spent
  BY DEF RetryLoad, Inv, TypeOK
<1>2. tries \in Nat
  BY DEF Inv, TypeOK, Sound, Clients
<1> HIDE DEF tries
<1>3. Aside(client, c)
  BY <1>2 DEF Aside, Inv, TypeOK, Sound, Clients
<1> HIDE DEF c
<1>4. To(client, c) /\ Sound(c)
  BY <1>3, AsideTo
<1>5. To(c, d)
  BY <1>4, AskTo, BoundsAssumption DEF Modes, To
<1>6. To(client, LoadEnds(client))
  BY LoadEndsTo DEF Inv, TypeOK
<1> HIDE DEF d
<1> QED BY <1>1, <1>4, <1>5, <1>6, ToStep, ToToStep

LEMMA RetryPressedInv == Inv /\ RetryPressed => Inv'
<1> SUFFICES ASSUME Inv, RetryPressed PROVE Inv'
  OBVIOUS
<1>1. Renderer(LoadLatest(client)) /\ spent' = spent /\ spent \in Spent
  BY DEF RetryPressed, Inv, TypeOK
<1>2. To(client, LoadLatest(client))
  BY LoadLatestTo DEF Inv, TypeOK
<1> QED BY <1>1, <1>2, ToStep

LEMMA LoadOlderInv == Inv /\ LoadOlder => Inv'
<1> SUFFICES ASSUME Inv, LoadOlder PROVE Inv'
  OBVIOUS
<1> DEFINE oldest == Oldest(client.rows)
           c == [client EXCEPT !.lastBefore = oldest]
           d == Ask(c, "before", oldest, PageLimit, "older", oldest)
<1>1. Renderer(d) /\ spent' = spent /\ spent \in Spent
  BY DEF LoadOlder, Inv, TypeOK
<1>2. oldest \in Nat
  <2>1. client.rows \in SUBSET (1..last) /\ last \in Nat
    BY DEF Inv, TypeOK, Sound, Clients, Row
  <2>2. oldest \in 0..last
    BY <2>1, OldestIs
  <2> HIDE DEF oldest
  <2> QED BY <2>1, <2>2
<1> HIDE DEF oldest
<1>3. Aside(client, c)
  BY <1>2 DEF Aside, Inv, TypeOK, Sound, Clients
<1> HIDE DEF c
<1>4. To(client, c) /\ Sound(c)
  BY <1>3, AsideTo
<1>5. To(c, d)
  BY <1>2, <1>4, AskTo, BoundsAssumption DEF Modes, To
<1> HIDE DEF d
<1> QED BY <1>1, <1>4, <1>5, ToToStep

LEMMA LoadNewerInv == Inv /\ LoadNewer => Inv'
<1> SUFFICES ASSUME Inv, LoadNewer PROVE Inv'
  OBVIOUS
<1> DEFINE newest == Newest(client.rows)
           c == [client EXCEPT !.lastAfter = newest]
           d == Ask(c, "after", newest, PageLimit, "newer", newest)
<1>1. Renderer(d) /\ spent' = spent /\ spent \in Spent
  BY DEF LoadNewer, Inv, TypeOK
<1>2. newest \in Nat
  <2>1. client.rows \in SUBSET (1..last) /\ last \in Nat
    BY DEF Inv, TypeOK, Sound, Clients, Row
  <2>2. newest \in 0..last
    BY <2>1, NewestIs
  <2> HIDE DEF newest
  <2> QED BY <2>1, <2>2
<1> HIDE DEF newest
<1>3. Aside(client, c)
  BY <1>2 DEF Aside, Inv, TypeOK, Sound, Clients
<1> HIDE DEF c
<1>4. To(client, c) /\ Sound(c)
  BY <1>3, AsideTo
<1>5. To(c, d)
  BY <1>2, <1>4, AskTo, BoundsAssumption DEF Modes, To
<1> HIDE DEF d
<1> QED BY <1>1, <1>4, <1>5, ToToStep

LEMMA JumpToPresentInv == Inv /\ JumpToPresent => Inv'
<1> SUFFICES ASSUME Inv, JumpToPresent PROVE Inv'
  OBVIOUS
<1> DEFINE c == [client EXCEPT
                   !.rows = {}, !.cached = TRUE, !.older = TRUE, !.newer = FALSE,
                   !.fetched = FALSE, !.bottom = TRUE, !.saved = "bottom",
                   !.jump = 0, !.lastBefore = 0, !.lastAfter = 0]
<1>1. Renderer(LoadLatest(c)) /\ spent' \in Spent
  BY SpendOK DEF JumpToPresent, Inv, TypeOK
<1>3. Aside(client, c)
  BY DEF Aside, Inv, TypeOK, Sound, Clients
<1> HIDE DEF c
<1>4. To(client, c) /\ Sound(c)
  BY <1>3, AsideTo
<1>5. To(c, LoadLatest(c))
  BY <1>4, LoadLatestTo
<1> QED BY <1>1, <1>4, <1>5, ToToStep

LEMMA JumpToInv == ASSUME NEW id \in Ids, Inv, JumpTo(id) PROVE Inv'
<1> DEFINE c == [client EXCEPT !.jump = id, !.lastBefore = 0, !.lastAfter = 0,
                               !.loading = TRUE]
           d == Ask(c, "around", id, WindowLimit, "jump", id)
<1>1. Renderer(d) /\ spent' \in Spent
  BY SpendOK DEF JumpTo, Inv, TypeOK
<1>2. id \in Nat
  BY DEF JumpTo, Inv, TypeOK
<1>3. Aside(client, c)
  BY <1>2 DEF Aside, Inv, TypeOK, Sound, Clients
<1> HIDE DEF c
<1>4. To(client, c) /\ Sound(c)
  BY <1>3, AsideTo
<1>5. Sound(d) /\ Goes(c, d)
  BY <1>2, <1>4, AskTo, BoundsAssumption DEF Modes
<1>6. Goes(client, d)
  BY <1>4, <1>5, GoesOn DEF To
<1>7. ~Quiet
  BY DEF JumpTo, Quiet, Inv, TypeOK, Spent
<1> HIDE DEF d
<1> QED BY <1>1, <1>5, <1>6, <1>7, RendererStep

LEMMA TrimInv == ASSUME NEW keep \in 1..ListCap, Inv, TrimTail(keep) \/ TrimHead(keep) PROVE Inv'
<1> DEFINE oldest == KeepOldest(client.rows, keep)
           newest == KeepNewest(client.rows, keep)
           t == [client EXCEPT !.rows = oldest, !.newer = TRUE]
           h == [client EXCEPT !.rows = newest, !.older = TRUE]
<1>1. (Renderer(t) \/ Renderer(h)) /\ spent' = spent /\ spent \in Spent
  BY DEF TrimTail, TrimHead, Inv, TypeOK
<1>2. oldest \subseteq client.rows /\ newest \subseteq client.rows
  BY DEF KeepOldest, KeepNewest
<1> HIDE DEF oldest, newest
<1>3. Aside(client, t) /\ Aside(client, h)
  BY <1>2 DEF Aside, Inv, TypeOK, Sound, Clients
<1> HIDE DEF t, h
<1> QED BY <1>1, <1>3, AsideTo, ToStep

LEMMA EchoTimerInv == ASSUME NEW n \in Sends, Inv, EchoTimer(n) PROVE Inv'
<1>1. client.check[n] # "new" /\ spent' = spent /\ spent \in Spent /\ Sound(client)
  BY DEF EchoTimer, Inv, TypeOK
<1>2. Renderer([client EXCEPT !.check[n] = "waiting"]) \/ Renderer(CheckServer(client, n))
  BY DEF EchoTimer
<1>3. To(client, [client EXCEPT !.check[n] = "waiting"]) /\ To(client, CheckServer(client, n))
  BY <1>1, CheckTo, CheckServerTo
<1> QED BY <1>1, <1>2, <1>3, ToStep

LEMMA DeleteTimeoutInv == ASSUME NEW id \in Ids, Inv, DeleteTimeout(id) PROVE Inv'
<1>1. Renderer(RestorePendingDeletion(client, id)) /\ spent' \in Spent /\ Sound(client)
  BY SpendOK DEF DeleteTimeout, Inv, TypeOK
<1> QED BY <1>1, RestorePendingDeletionTo, ToStep

LEMMA ExpireInv ==
  ASSUME NEW i \in DOMAIN client.waits, Inv, Expire(i), spent' \in Spent
  PROVE  Inv'
<1> DEFINE c == [client EXCEPT !.waits = RemoveAt(client.waits, i)]
<1>1. Renderer(Continue(c, client.waits[i], NoReply)) /\ Sound(client)
  BY DEF Expire, Inv, TypeOK
<1>2. NoReply \in Replies
  BY DEF NoReply, Replies
<1> HIDE DEF c
<1>3. To(client, Continue(c, client.waits[i], NoReply))
  BY <1>1, <1>2, DoneTo DEF c
<1> QED BY <1>1, <1>3, ToStep

LEMMA DeleteMineInv == ASSUME NEW id \in Ids, Inv, DeleteMine(id) PROVE Inv'
<1> DEFINE r == [t |-> "delete", id |-> id]
           d == [client EXCEPT !.rows = @ \ {id}, !.deleting = @ \cup {id},
                               !.asks = Append(@, r)]
<1>1. Renderer(d) /\ spent' \in Spent /\ id \in client.rows /\ Sound(client)
  BY SpendOK DEF DeleteMine, Inv, TypeOK
<1>2. id \in Row(last)
  BY <1>1 DEF Sound, Clients
<1>3. r \in Asks /\ r.t = "delete"
  BY <1>2 DEF Asks, Row
<1> HIDE DEF r
<1>4. client.asks \in Seq(Asks)
  BY <1>1 DEF Sound, Clients
<1>5. /\ Append(client.asks, r) \in Seq(Asks)
      /\ Len(Append(client.asks, r)) = Len(client.asks) + 1
      /\ \A i \in 1..Len(client.asks) : Append(client.asks, r)[i] = client.asks[i]
      /\ Append(client.asks, r)[Len(client.asks) + 1] = r
  BY <1>3, <1>4, AppendProperties
<1>6. d \in Clients(last)
  BY <1>1, <1>2, <1>5 DEF Sound, Clients
<1>7. /\ d.rows \subseteq client.rows /\ d.deleting \subseteq client.rows \cup client.deleting
      /\ d.check = client.check /\ d.waits = client.waits /\ d.bubble = client.bubble
      /\ d.withdrawn = client.withdrawn /\ d.asks = Append(client.asks, r)
  BY <1>1 DEF Sound, Clients
<1> HIDE DEF d
<1>8. \A i \in DOMAIN d.asks : d.asks[i].t \in {"send", "page"} =>
        i \in DOMAIN client.asks /\ client.asks[i] = d.asks[i]
  BY <1>3, <1>4, <1>5, <1>7
<1>9. Sound(d)
  BY <1>1, <1>6, <1>7 DEF Sound, WaitsOK, WaitOK
<1>10. Goes(client, d) /\ Hands(client, d)
  BY <1>7, <1>8 DEF Goes, Hands
<1>11. To(client, d)
  BY <1>9, <1>10 DEF To
<1> QED BY <1>1, <1>11, ToStep

(* A bubble is put up, for a send that is not stored.                      *)
LEMMA ComposeInv == ASSUME NEW n \in Sends, Inv, Compose(n) PROVE Inv'
<1> DEFINE newest == Newest(client.rows)
           d == [client EXCEPT !.bubble[n] = "pending", !.check[n] = "queued",
                               !.after[n] = newest, !.cached = TRUE]
<1>1. /\ Renderer(d) /\ spent' = spent /\ client.check[n] = "new"
  BY DEF Compose
<1>2. newest \in Nat
  <2>1. client.rows \in SUBSET (1..last) /\ last \in Nat
    BY DEF Inv, TypeOK, Sound, Clients, Row
  <2>2. newest \in 0..last
    BY <2>1, NewestIs
  <2> HIDE DEF newest
  <2> QED BY <2>1, <2>2
<1> HIDE DEF newest
<1>3. client \in Clients(last)
  BY DEF Inv, TypeOK, Sound
<1>4. d \in Clients(last)
  BY <1>2, <1>3 DEF Clients
<1>5. /\ d.rows = client.rows /\ d.deleting = client.deleting /\ d.waits = client.waits
      /\ d.asks = client.asks /\ d.withdrawn = client.withdrawn
      /\ \A m \in Sends : d.bubble[m] = IF m = n THEN "pending" ELSE client.bubble[m]
      /\ \A m \in Sends : d.check[m] = IF m = n THEN "queued" ELSE client.check[m]
  BY <1>3 DEF Clients
<1>6. client' = d /\ UNCHANGED <<log, last, stored, up, wire, jobs, spent>>
  BY <1>1 DEF Renderer
<1> HIDE DEF d
<1>7. TypeOK'
  <2>1. WaitsOK(d)
    BY <1>5 DEF Inv, TypeOK, Sound, WaitsOK, WaitOK
  <2> QED BY <1>4, <1>6, <2>1 DEF Inv, TypeOK, Sound
<1>8. PacketsSay'
  <2>1. ASSUME NEW p, PacketOK(p, last), Said(p, stored, client) PROVE Said(p, stored, d)
    BY <2>1, <1>5 DEF Said, PacketOK
  <2> QED BY <2>1, <1>6 DEF Inv, TypeOK, PacketsSay
<1>9. \A i \in DOMAIN client.asks : client.asks[i].t = "send" => client.asks[i].id \in Sends
  <2>1. \A i \in DOMAIN client.asks : client.asks[i] \in Asks
    BY <1>3 DEF Clients
  <2>2. \A a \in Asks : a.t = "send" => a.id \in Sends
    BY DEF Asks
  <2> QED BY <2>1, <2>2
<1>10. SendsWait'
  BY <1>1, <1>5, <1>6, <1>9 DEF Inv, SendsWait
<1>11. Unsent' /\ stored[n] = 0
  BY <1>1, <1>5, <1>6 DEF Inv, Unsent
<1>12. Settles'
  <2>1. 0 \notin client.rows \cup client.deleting
    BY <1>3 DEF Clients, Row
  <2> QED BY <1>5, <1>6, <1>11, <2>1 DEF Inv, Settles
<1>13. ASSUME Quiet PROVE NoWindow' /\ TextKept'
  BY <1>13, <1>5, <1>6 DEF Inv, NoWindow, TextKept
<1> QED BY <1>7, <1>8, <1>10, <1>11, <1>12, <1>13 DEF Inv, Quiet

(* A send leaves for the server, once.                                     *)
LEMMA TransmitInv == ASSUME NEW n \in Sends, Inv, Transmit(n) PROVE Inv'
<1> DEFINE r == [t |-> "send", id |-> n]
           d == [client EXCEPT !.check[n] = "armed", !.asks = Append(@, r)]
<1>1. /\ Renderer(IF up THEN d ELSE Withdraw(client, n)) /\ spent' = spent
      /\ client.check[n] = "queued" /\ spent \in Spent
  BY DEF Transmit, Inv, TypeOK
<1>2. client \in Clients(last) /\ client.asks \in Seq(Asks)
  BY DEF Inv, TypeOK, Sound, Clients
<1>3. r \in Asks /\ r.t = "send" /\ r.id = n
  BY DEF Asks
<1> HIDE DEF r
<1>4. /\ Append(client.asks, r) \in Seq(Asks)
      /\ Len(Append(client.asks, r)) = Len(client.asks) + 1
      /\ \A i \in 1..Len(client.asks) : Append(client.asks, r)[i] = client.asks[i]
      /\ Append(client.asks, r)[Len(client.asks) + 1] = r
  BY <1>2, <1>3, AppendProperties
<1>5. d \in Clients(last)
  BY <1>2, <1>4 DEF Clients
<1>6. /\ d.rows = client.rows /\ d.deleting = client.deleting /\ d.waits = client.waits
      /\ d.bubble = client.bubble /\ d.withdrawn = client.withdrawn
      /\ d.asks = Append(client.asks, r)
      /\ \A m \in Sends : d.check[m] = IF m = n THEN "armed" ELSE client.check[m]
  BY <1>2 DEF Clients
<1> HIDE DEF d
<1>7. CASE ~up
  <2>1. To(client, Withdraw(client, n))
    BY <1>1, WithdrawTo DEF Inv, TypeOK
  <2> QED BY <1>1, <1>7, <2>1, ToStep
<1>8. CASE up
  <2>1. client' = d /\ UNCHANGED <<log, last, stored, up, wire, jobs, spent>>
    BY <1>1, <1>8 DEF Renderer
  <2>2. TypeOK'
    <3>1. WaitsOK(d)
      BY <1>6 DEF Inv, TypeOK, Sound, WaitsOK, WaitOK
    <3> QED BY <1>5, <2>1, <3>1 DEF Inv, TypeOK, Sound
  <2>3. PacketsSay'
    <3>1. ASSUME NEW p, PacketOK(p, last), Said(p, stored, client) PROVE Said(p, stored, d)
      BY <3>1, <1>6 DEF Said, PacketOK
    <3> QED BY <2>1, <3>1 DEF Inv, TypeOK, PacketsSay
  <2>4. \A i \in DOMAIN client.asks : client.asks[i].t = "send" => client.asks[i].id \in Sends
    <3>1. \A i \in DOMAIN client.asks : client.asks[i] \in Asks
      BY <1>2
    <3>2. \A a \in Asks : a.t = "send" => a.id \in Sends
      BY DEF Asks
    <3> QED BY <3>1, <3>2
  <2>5. stored[n] = 0
    BY <1>1 DEF Inv, Unsent
  <2>6. SendsWait'
    <3>1. ASSUME NEW i \in DOMAIN d.asks
          PROVE  \/ i \in DOMAIN client.asks /\ d.asks[i] = client.asks[i]
                 \/ i = Len(client.asks) + 1 /\ d.asks[i] = r
      BY <3>1, <1>2, <1>4, <1>6
    <3>2. \A i \in DOMAIN client.asks : client.asks[i].t = "send" =>
             /\ client.asks[i].id # n /\ stored[client.asks[i].id] = 0
             /\ d.check[client.asks[i].id] \notin {"new", "queued"}
             /\ \A j \in DOMAIN client.asks :
                  client.asks[j].t = "send" /\ client.asks[j].id = client.asks[i].id => i = j
      BY <1>1, <1>6, <2>4 DEF Inv, SendsWait
    <3>3. d.check[n] = "armed"
      BY <1>6
    <3> QED BY <1>3, <2>1, <2>5, <3>1, <3>2, <3>3 DEF SendsWait
  <2>7. Unsent' /\ Settles'
    BY <1>6, <2>1 DEF Inv, Unsent, Settles
  <2>8. ASSUME Quiet PROVE NoWindow' /\ TextKept'
    <3>1. NoWindow'
      BY <2>8, <1>2, <1>3, <1>4, <1>6, <2>1, SMTT(30) DEF Inv, NoWindow
    <3>2. TextKept'
      BY <2>8, <1>1, <1>6, <2>1 DEF Inv, TextKept
    <3> QED BY <3>1, <3>2
  <2> QED BY <2>2, <2>3, <2>6, <2>7, <2>8 DEF Inv, Quiet
<1> QED BY <1>7, <1>8

-----------------------------------------------------------------------------
(* The server.  `last` grows, and what is well formed stays so.            *)

LEMMA RowsGrow ==
  ASSUME NEW k \in Nat, NEW l \in Nat, k <= l
  PROVE  /\ Row(k) \subseteq Row(l)
         /\ Packets(k) \subseteq Packets(l) /\ Clients(k) \subseteq Clients(l)
         /\ \A p : PacketOK(p, k) => PacketOK(p, l)
<1>1. Row(k) \subseteq Row(l)
  BY DEF Row
<1>2. Packets(k) \subseteq Packets(l)
  BY <1>1 DEF Packets
<1>3. ASSUME NEW c \in Clients(k) PROVE c \in Clients(l)
  <2>1. c.rows \in SUBSET Row(l) /\ c.held \in SUBSET Row(l) /\ c.deleting \in SUBSET Row(l)
    BY <1>1 DEF Clients
  <2> QED BY <2>1 DEF Clients
<1>4. \A p : PacketOK(p, k) => PacketOK(p, l)
  BY <1>1 DEF PacketOK
<1> QED BY <1>1, <1>2, <1>3, <1>4

(* What is pushed joins what was on the wire.                              *)
LEMMA PushKeeps ==
  ASSUME NEW P, NEW s \in Seq(P), wire \in Seq(P), up \in BOOLEAN, Push(s)
  PROVE  /\ wire' \in Seq(P)
         /\ \A i \in DOMAIN wire' :
               \/ i \in DOMAIN wire /\ wire'[i] = wire[i]
               \/ \E j \in DOMAIN s : wire'[i] = s[j]
<1>1. /\ wire \o s \in Seq(P) /\ Len(wire \o s) = Len(wire) + Len(s)
      /\ \A i \in 1..(Len(wire) + Len(s)) :
            (wire \o s)[i] = IF i <= Len(wire) THEN wire[i] ELSE s[i - Len(wire)]
  BY ConcatProperties
<1>2. CASE up
  <2>1. wire' = wire \o s
    BY <1>2 DEF Push
  <2>2. ASSUME NEW i \in DOMAIN wire'
        PROVE  \/ i \in DOMAIN wire /\ wire'[i] = wire[i]
               \/ \E j \in DOMAIN s : wire'[i] = s[j]
    <3>1. i \in 1..(Len(wire) + Len(s))
      BY <2>1, <2>2, <1>1
    <3>2. CASE i <= Len(wire)
      BY <3>1, <3>2, <2>1, <1>1
    <3>3. CASE ~(i <= Len(wire))
      <4>1. i - Len(wire) \in DOMAIN s /\ wire'[i] = s[i - Len(wire)]
        BY <3>1, <3>3, <2>1, <1>1
      <4> QED BY <4>1
    <3> QED BY <3>2, <3>3
  <2> QED BY <2>1, <2>2, <1>1
<1>3. CASE ~up
  BY <1>3 DEF Push
<1> QED BY <1>2, <1>3

(* `f` is the send that is stored, if one is; it was the first request.    *)
LEMMA ServerKeeps ==
  ASSUME Inv, NEW f \in Sends \cup {0}, NEW s,
         last' \in Nat, last <= last', f # 0 => last < last',
         log' \subseteq Row(last'), UNCHANGED <<up, jobs>>, spent' \in Spent,
         stored' = [n \in Sends |-> IF n = f THEN last' ELSE stored[n]],
         s \in Seq(Packets(last')), Push(s),
         \A i \in DOMAIN s : PacketOK(s[i], last') /\ Said(s[i], stored', client),
         \/ client' = client /\ f = 0
         \/ /\ client.asks # <<>> /\ Served
            /\ f # 0 => Head(client.asks).t = "send" /\ Head(client.asks).id = f
  PROVE  Inv'
<1>0. last \in Nat /\ client \in Clients(last) /\ client.asks \in Seq(Asks) /\ 0 \notin Sends
  BY BoundsAssumption DEF Inv, TypeOK, Sound, Clients
<1>1. /\ Row(last) \subseteq Row(last')
      /\ Packets(last) \subseteq Packets(last') /\ Clients(last) \subseteq Clients(last')
      /\ \A p : PacketOK(p, last) => PacketOK(p, last')
  BY <1>0, RowsGrow
<1>2. PICK d \in Clients(last), k \in {0, 1} :
        /\ client' = d /\ d = [client EXCEPT !.asks = d.asks]
        /\ \A i \in DOMAIN d.asks : i + k \in DOMAIN client.asks /\ d.asks[i] = client.asks[i + k]
        /\ f # 0 => /\ k = 1 /\ 1 \in DOMAIN client.asks
                    /\ client.asks[1].t = "send" /\ client.asks[1].id = f
  <2>1. CASE client' = client /\ f = 0
    <3>1. client = [client EXCEPT !.asks = client.asks]
      BY <1>0 DEF Clients
    <3>2. \A i \in DOMAIN client.asks : i + 0 = i
      BY <1>0
    <3> QED BY <2>1, <3>1, <3>2, <1>0
  <2>2. CASE /\ client.asks # <<>> /\ Served
             /\ f # 0 => Head(client.asks).t = "send" /\ Head(client.asks).id = f
    <3> DEFINE d == [client EXCEPT !.asks = Tail(client.asks)]
    <3>1. client' = d
      BY <2>2 DEF Served
    <3>2. /\ Tail(client.asks) \in Seq(Asks) /\ Len(Tail(client.asks)) = Len(client.asks) - 1
          /\ \A i \in 1..(Len(client.asks) - 1) : Tail(client.asks)[i] = client.asks[i + 1]
          /\ Head(client.asks) = client.asks[1] /\ 1 \in DOMAIN client.asks
      BY <1>0, <2>2, HeadTailProperties
    <3>3. d \in Clients(last) /\ d.asks = Tail(client.asks)
      BY <1>0, <3>2 DEF Clients
    <3>4. d = [client EXCEPT !.asks = d.asks]
      BY <3>3
    <3> HIDE DEF d
    <3>5. \A i \in DOMAIN d.asks : i + 1 \in DOMAIN client.asks /\ d.asks[i] = client.asks[i + 1]
      BY <1>0, <3>2, <3>3
    <3> QED BY <2>2, <3>1, <3>2, <3>3, <3>4, <3>5
  <2> QED BY <2>1, <2>2
<1>3. /\ d.rows = client.rows /\ d.deleting = client.deleting /\ d.waits = client.waits
      /\ d.bubble = client.bubble /\ d.withdrawn = client.withdrawn
      /\ d.check = client.check
  <2>1. d = [client EXCEPT !.asks = d.asks]
    BY <1>2
  <2> QED BY <2>1, <1>0 DEF Clients
<1>4. f # 0 => /\ stored[f] = 0 /\ f \in Sends /\ client.check[f] \notin {"new", "queued"}
               /\ \A i \in DOMAIN d.asks : d.asks[i].t = "send" => d.asks[i].id # f
  <2>1. SUFFICES ASSUME f # 0
        PROVE  /\ stored[f] = 0 /\ f \in Sends /\ client.check[f] \notin {"new", "queued"}
               /\ \A i \in DOMAIN d.asks : d.asks[i].t = "send" => d.asks[i].id # f
    OBVIOUS
  <2>2. stored[f] = 0 /\ f \in Sends /\ client.check[f] \notin {"new", "queued"}
    BY <2>1, <1>2 DEF Inv, SendsWait
  <2>3. ASSUME NEW i \in DOMAIN d.asks, d.asks[i].t = "send", d.asks[i].id = f
        PROVE  FALSE
    <3>1. i + 1 \in DOMAIN client.asks /\ d.asks[i] = client.asks[i + 1]
      BY <2>1, <1>2
    <3>2. i + 1 = 1
      BY <2>1, <2>3, <3>1, <1>2 DEF Inv, SendsWait
    <3>3. d.asks \in Seq(Asks)
      BY DEF Clients
    <3> QED BY <3>2, <3>3
  <2> QED BY <2>2, <2>3
<1>5. stored \in [Sends -> 0..last]
  BY DEF Inv, TypeOK
<1>6. \A n \in Sends : stored'[n] = IF n = f THEN last' ELSE stored[n]
  OBVIOUS
<1>7. stored' \in [Sends -> 0..last']
  BY <1>0, <1>5
<1>8. ASSUME NEW p, PacketOK(p, last), Said(p, stored, client)
      PROVE  PacketOK(p, last') /\ Said(p, stored', d)
  <2>1. ASSUME p.t = "msg", NEW n \in Sends
        PROVE  stored'[n] = p.id <=> n = p.send
    <3>1. p.id \in 1..last /\ (stored[n] = p.id <=> n = p.send)
      BY <2>1, <1>8 DEF PacketOK, Said, Row
    <3>2. CASE n = f
      BY <3>1, <3>2, <1>0, <1>4, <1>6
    <3>3. CASE n # f
      BY <3>1, <3>3, <1>6
    <3> QED BY <3>2, <3>3
  <2>2. p.t = "rejected" => d.check[p.send] # "new"
    BY <1>3, <1>8 DEF Said
  <2>3. Quiet => p.mode # "around"
    BY <1>8 DEF Said
  <2> QED BY <2>1, <2>2, <2>3, <1>1, <1>8 DEF Said
<1>9. /\ wire' \in Seq(Packets(last'))
      /\ \A i \in DOMAIN wire' : PacketOK(wire'[i], last') /\ Said(wire'[i], stored', d)
  <2>1. wire \in Seq(Packets(last')) /\ up \in BOOLEAN
    BY <1>1 DEF Inv, TypeOK
  <2>2. /\ wire' \in Seq(Packets(last'))
        /\ \A i \in DOMAIN wire' :
              \/ i \in DOMAIN wire /\ wire'[i] = wire[i]
              \/ \E j \in DOMAIN s : wire'[i] = s[j]
    BY <2>1, PushKeeps
  <2>3. \A i \in DOMAIN wire : PacketOK(wire[i], last) /\ Said(wire[i], stored, client)
    BY DEF Inv, TypeOK, PacketsSay
  <2>4. \A i \in DOMAIN s : PacketOK(s[i], last') /\ Said(s[i], stored', d)
    BY <1>3 DEF Said
  <2> QED BY <2>2, <2>3, <2>4, <1>8
<1>10. /\ jobs' \in Seq(Packets(last'))
       /\ \A i \in DOMAIN jobs' : PacketOK(jobs'[i], last') /\ Said(jobs'[i], stored', d)
  <2>1. \A i \in DOMAIN jobs : PacketOK(jobs[i], last) /\ Said(jobs[i], stored, client)
    BY DEF Inv, TypeOK, PacketsSay
  <2>2. jobs \in Seq(Packets(last'))
    BY <1>1 DEF Inv, TypeOK
  <2> QED BY <2>1, <2>2, <1>8
<1>11. TypeOK'
  <2>1. WaitsOK(d)
    BY <1>3 DEF Inv, TypeOK, Sound, WaitsOK, WaitOK
  <2>2. up' \in BOOLEAN /\ d \in Clients(last')
    BY <1>1 DEF Inv, TypeOK
  <2> QED BY <1>2, <1>7, <1>9, <1>10, <2>1, <2>2 DEF TypeOK, Sound
<1>12. PacketsSay'
  BY <1>2, <1>9, <1>10 DEF PacketsSay
<1>13. SendsWait'
  <2>1. ASSUME NEW i \in DOMAIN d.asks, d.asks[i].t = "send"
        PROVE  /\ stored'[d.asks[i].id] = 0
               /\ d.check[d.asks[i].id] \notin {"new", "queued"}
               /\ \A j \in DOMAIN d.asks :
                     d.asks[j].t = "send" /\ d.asks[j].id = d.asks[i].id => i = j
    <3>1. i + k \in DOMAIN client.asks /\ d.asks[i] = client.asks[i + k]
      BY <2>1, <1>2
    <3>2. \A j \in DOMAIN d.asks : j + k \in DOMAIN client.asks /\ d.asks[j] = client.asks[j + k]
      BY <1>2
    <3>3. d.asks[i].id \in Sends
      <4>1. d.asks[i] \in Asks
        BY DEF Clients
      <4> QED BY <4>1, <2>1 DEF Asks
    <3>4. /\ stored[d.asks[i].id] = 0
          /\ client.check[d.asks[i].id] \notin {"new", "queued"}
          /\ \A j \in DOMAIN d.asks :
                d.asks[j].t = "send" /\ d.asks[j].id = d.asks[i].id => i + k = j + k
      BY <2>1, <3>1, <3>2 DEF Inv, SendsWait
    <3>5. \A j \in DOMAIN d.asks : i + k = j + k => i = j
      <4>1. d.asks \in Seq(Asks)
        BY DEF Clients
      <4> QED BY <4>1
    <3>6. d.asks[i].id # f
      BY <2>1, <3>3, <1>0, <1>4
    <3> QED BY <3>3, <3>4, <3>5, <3>6, <1>3, <1>6
  <2> QED BY <2>1, <1>2 DEF SendsWait
<1>14. Unsent'
  <2>1. ASSUME NEW n \in Sends, d.check[n] \in {"new", "queued"}
        PROVE  stored'[n] = 0
    <3>1. n # f
      BY <2>1, <1>0, <1>3, <1>4
    <3>2. stored[n] = 0
      BY <2>1, <1>3 DEF Inv, Unsent
    <3> QED BY <3>1, <3>2, <1>6
  <2> QED BY <2>1, <1>2 DEF Unsent
<1>15. Settles'
  <2>1. ASSUME NEW n \in Sends, stored'[n] \in d.rows \cup d.deleting
        PROVE  d.bubble[n] = "none"
    <3>1. n # f
      BY <2>1, <1>0, <1>3, <1>6 DEF Clients, Row
    <3> QED BY <2>1, <3>1, <1>3, <1>6 DEF Inv, Settles
  <2> QED BY <2>1, <1>2 DEF Settles
<1>16. ASSUME Quiet PROVE NoWindow' /\ TextKept'
  <2>1. NoWindow'
    BY <1>16, <1>2 DEF Inv, NoWindow
  <2>2. ASSUME NEW n \in Sends
        PROVE  \/ d.check[n] = "new" \/ d.bubble[n] # "none" \/ stored'[n] # 0
               \/ n \in d.withdrawn
    <3>1. f = n => last' # 0
      BY <1>0
    <3> QED BY <1>16, <3>1, <1>3, <1>6 DEF Inv, TextKept
  <2> QED BY <2>1, <2>2, <1>2 DEF TextKept
<1> QED BY <1>11, <1>12, <1>13, <1>14, <1>15, <1>16 DEF Inv, Quiet

(* The packets the server sends are well formed.                           *)
LEMMA OnePacket ==
  ASSUME NEW P, NEW p \in P
  PROVE  <<p>> \in Seq(P) /\ DOMAIN <<p>> = {1} /\ <<p>>[1] = p
OBVIOUS

LEMMA OneSaid ==
  ASSUME NEW k, NEW st, NEW c, NEW p \in Packets(k), PacketOK(p, k), Said(p, st, c)
  PROVE  /\ <<p>> \in Seq(Packets(k))
         /\ \A i \in DOMAIN <<p>> : PacketOK(<<p>>[i], k) /\ Said(<<p>>[i], st, c)
<1>1. <<p>> \in Seq(Packets(k)) /\ \A i \in DOMAIN <<p>> : <<p>>[i] = p
  BY OnePacket
<1> QED BY <1>1

LEMMA TwoPackets ==
  ASSUME NEW P, NEW p \in P, NEW q \in P
  PROVE  /\ <<p, q>> \in Seq(P)
         /\ \A i \in DOMAIN <<p, q>> : <<p, q>>[i] \in {p, q}
OBVIOUS

LEMMA PostInv == Inv /\ Post => Inv'
<1> SUFFICES ASSUME Inv, Post PROVE Inv'
  OBVIOUS
<1> DEFINE id == last + 1
           p == [Packet("msg") EXCEPT !.id = id]
<1>1. /\ last' = last + 1 /\ log' = log \cup {last + 1} /\ Push(<<p>>)
      /\ UNCHANGED <<stored, up, jobs, client, spent>>
  BY DEF Post
<1>2. /\ last \in Nat /\ log \subseteq Row(last) /\ stored \in [Sends -> 0..last]
      /\ spent \in Spent /\ 0 \notin Sends
  BY BoundsAssumption DEF Inv, TypeOK
<1>3. last' \in Nat /\ last <= last' /\ log' \subseteq Row(last')
  BY <1>1, <1>2 DEF Row
<1>4. id \in Nat /\ id \in Row(last') /\ \A n \in Sends : stored[n] # id /\ n # 0
  BY <1>1, <1>2 DEF Row
<1> HIDE DEF id
<1>5. p \in Packets(last') /\ p.t = "msg" /\ p.id = id /\ p.send = 0 /\ p.mode = ""
  BY <1>4 DEF Packet, Packets
<1> HIDE DEF p
<1>8. PacketOK(p, last') /\ Said(p, stored', client)
  BY <1>1, <1>4, <1>5 DEF PacketOK, Said
<1>6. stored' = [n \in Sends |-> IF n = 0 THEN last' ELSE stored[n]]
  BY <1>1, <1>2
<1>7. /\ <<p>> \in Seq(Packets(last'))
      /\ \A i \in DOMAIN <<p>> : PacketOK(<<p>>[i], last') /\ Said(<<p>>[i], stored', client)
  BY <1>5, <1>8, OneSaid
<1> QED BY <1>1, <1>2, <1>3, <1>6, <1>7, ServerKeeps

LEMMA ServerDeleteInv == ASSUME NEW id \in Ids, Inv, ServerDelete(id) PROVE Inv'
<1> DEFINE p == [Packet("deleted") EXCEPT !.id = id]
<1>1. /\ log' = log \ {id} /\ Push(<<p>>) /\ id \in log
      /\ UNCHANGED <<last, stored, up, jobs, client>>
  BY DEF ServerDelete
<1>2. /\ last \in Nat /\ log \subseteq Row(last) /\ stored \in [Sends -> 0..last]
      /\ spent' \in Spent /\ 0 \notin Sends
  BY BoundsAssumption, SpendOK DEF Inv, TypeOK, ServerDelete
<1>3. last' \in Nat /\ last <= last' /\ log' \subseteq Row(last') /\ id \in Nat
  BY <1>1, <1>2 DEF Row
<1>4. p \in Packets(last') /\ p.t = "deleted" /\ p.mode = ""
  BY <1>1, <1>3 DEF Packet, Packets
<1> HIDE DEF p
<1>5. PacketOK(p, last') /\ Said(p, stored', client)
  BY <1>4 DEF PacketOK, Said
<1>6. stored' = [n \in Sends |-> IF n = 0 THEN last' ELSE stored[n]]
  BY <1>1, <1>2
<1>7. /\ <<p>> \in Seq(Packets(last'))
      /\ \A i \in DOMAIN <<p>> : PacketOK(<<p>>[i], last') /\ Said(<<p>>[i], stored', client)
  BY <1>4, <1>5, OneSaid
<1> QED BY <1>1, <1>2, <1>3, <1>6, <1>7, ServerKeeps

(* What the request at the head is about.                                  *)
LEMMA HeadAsk ==
  ASSUME Inv, NEW t, NextAsk(t)
  PROVE  /\ client.asks # <<>> /\ Head(client.asks) \in Asks /\ Head(client.asks).t = t
         /\ client.asks[1] = Head(client.asks) /\ 1 \in DOMAIN client.asks
         /\ t = "send" => /\ Head(client.asks).id \in Sends
                          /\ stored[Head(client.asks).id] = 0
                          /\ client.check[Head(client.asks).id] \notin {"new", "queued"}
<1>1. client.asks \in Seq(Asks) /\ client.asks # <<>> /\ Head(client.asks).t = t
  BY DEF Inv, TypeOK, Sound, Clients, NextAsk
<1>2. /\ Head(client.asks) \in Asks
      /\ client.asks[1] = Head(client.asks) /\ 1 \in DOMAIN client.asks
  BY <1>1, HeadTailProperties
<1>3. t = "send" => /\ Head(client.asks).id \in Sends
                    /\ stored[Head(client.asks).id] = 0
                    /\ client.check[Head(client.asks).id] \notin {"new", "queued"}
  <2>1. t = "send" => Head(client.asks).id \in Sends
    BY <1>1, <1>2 DEF Asks
  <2> QED BY <1>1, <1>2, <2>1 DEF Inv, SendsWait
<1> QED BY <1>1, <1>2, <1>3

LEMMA StoreSendInv == Inv /\ StoreSend => Inv'
<1> SUFFICES ASSUME Inv, StoreSend PROVE Inv'
  OBVIOUS
<1> DEFINE n == Head(client.asks).id
           id == last + 1
           p == [Packet("msg") EXCEPT !.id = id, !.send = n]
<1>1. /\ NextAsk("send") /\ Served
      /\ last' = last + 1 /\ log' = log \cup {last + 1} /\ Push(<<p>>)
      /\ stored' = [stored EXCEPT ![n] = last + 1]
      /\ UNCHANGED <<up, jobs, spent>>
  BY DEF StoreSend
<1>2. /\ last \in Nat /\ log \subseteq Row(last) /\ stored \in [Sends -> 0..last]
      /\ spent \in Spent /\ 0 \notin Sends
  BY BoundsAssumption DEF Inv, TypeOK
<1>3. last' \in Nat /\ last < last' /\ last <= last' /\ log' \subseteq Row(last')
  BY <1>1, <1>2 DEF Row
<1>4. client.asks # <<>> /\ Head(client.asks).t = "send" /\ n \in Sends
  BY <1>1, HeadAsk
<1>6. stored' = [m \in Sends |-> IF m = n THEN last' ELSE stored[m]]
  BY <1>1, <1>2, <1>4
<1>7. Head(client.asks).id = n
  OBVIOUS
<1>8. id \in Nat /\ id \in Row(last') /\ \A m \in Sends : stored'[m] = id <=> m = n
  BY <1>1, <1>2, <1>6 DEF Row
<1> HIDE DEF n, id
<1>5. p \in Packets(last') /\ p.t = "msg" /\ p.id = id /\ p.send = n /\ p.mode = ""
  BY <1>4, <1>8 DEF Packet, Packets
<1> HIDE DEF p
<1>9. PacketOK(p, last') /\ Said(p, stored', client)
  BY <1>5, <1>8 DEF PacketOK, Said
<1>10. /\ <<p>> \in Seq(Packets(last'))
       /\ \A i \in DOMAIN <<p>> : PacketOK(<<p>>[i], last') /\ Said(<<p>>[i], stored', client)
  BY <1>5, <1>9, OneSaid
<1>11. /\ n \in Sends \cup {0} /\ UNCHANGED <<up, jobs>> /\ spent' \in Spent
       /\ Push(<<p>>) /\ client.asks # <<>> /\ Served
       /\ Head(client.asks).t = "send" /\ Head(client.asks).id = n
  BY <1>1, <1>2, <1>4, <1>7
<1> QED BY <1>3, <1>6, <1>10, <1>11, ServerKeeps

LEMMA RefuseSendInv == Inv /\ RefuseSend => Inv'
<1> SUFFICES ASSUME Inv, RefuseSend PROVE Inv'
  OBVIOUS
<1> DEFINE n == Head(client.asks).id
           p == [Packet("rejected") EXCEPT !.send = n]
<1>1. /\ NextAsk("send") /\ Served /\ Push(<<p>>)
      /\ UNCHANGED <<log, last, stored, up, jobs>>
  BY DEF RefuseSend
<1>2. /\ last \in Nat /\ log \subseteq Row(last) /\ stored \in [Sends -> 0..last]
      /\ spent' \in Spent /\ 0 \notin Sends
  BY BoundsAssumption, SpendOK DEF Inv, TypeOK, RefuseSend
<1>3. last' \in Nat /\ last <= last' /\ log' \subseteq Row(last')
  BY <1>1, <1>2
<1>4. client.asks # <<>> /\ n \in Sends /\ client.check[n] \notin {"new", "queued"}
  BY <1>1, HeadAsk
<1> HIDE DEF n
<1>5. p \in Packets(last') /\ p.t = "rejected" /\ p.send = n /\ p.mode = ""
  BY <1>1, <1>2, <1>4 DEF Packet, Packets
<1> HIDE DEF p
<1>6. PacketOK(p, last') /\ Said(p, stored', client)
  BY <1>4, <1>5 DEF PacketOK, Said
<1>7. stored' = [m \in Sends |-> IF m = 0 THEN last' ELSE stored[m]]
  BY <1>1, <1>2
<1>8. /\ <<p>> \in Seq(Packets(last'))
      /\ \A i \in DOMAIN <<p>> : PacketOK(<<p>>[i], last') /\ Said(<<p>>[i], stored', client)
  BY <1>5, <1>6, OneSaid
<1> QED BY <1>1, <1>2, <1>3, <1>4, <1>7, <1>8, ServerKeeps

LEMMA ServePageInv == Inv /\ ServePage => Inv'
<1> SUFFICES ASSUME Inv, ServePage PROVE Inv'
  OBVIOUS
<1> DEFINE a == Head(client.asks)
           p == PageFor(a)
<1>1. /\ NextAsk("page") /\ Served /\ Push(<<p>>)
      /\ UNCHANGED <<log, last, stored, up, jobs, spent>>
  BY DEF ServePage
<1>2. /\ last \in Nat /\ log \subseteq Row(last) /\ stored \in [Sends -> 0..last]
      /\ spent' \in Spent /\ 0 \notin Sends
  BY <1>1, BoundsAssumption DEF Inv, TypeOK
<1>3. last' \in Nat /\ last <= last' /\ log' \subseteq Row(last')
  BY <1>1, <1>2
<1>4. client.asks # <<>> /\ a \in Asks /\ a.t = "page"
  BY <1>1, HeadAsk
<1>5. a.mode \in Modes /\ a.id \in Nat
  BY <1>4 DEF Asks
<1>6. Quiet => a.mode # "around"
  <2>1. client.asks[1] = a /\ 1 \in DOMAIN client.asks
    BY <1>1, HeadAsk
  <2> QED BY <1>4, <2>1 DEF Inv, NoWindow
<1> HIDE DEF a
<1>7. p \in Packets(last') /\ p.t = "page" /\ p.mode = a.mode
  <2> DEFINE below == CASE a.mode = "latest" -> log
                        [] a.mode = "before" -> {r \in log : r < a.id}
                        [] a.mode = "around" -> {r \in log : r <= a.id}
                        [] a.mode = "after"  -> {}
             above == IF a.mode \in {"around", "after"} THEN {r \in log : r > a.id} ELSE {}
             rows == KeepNewest(below, a.limit) \cup KeepOldest(above, a.limit)
             more == Cardinality(below) > a.limit
             newer == Cardinality(above) > a.limit
  <2>1. below \subseteq log /\ above \subseteq log
    BY <1>5 DEF Modes
  <2>2. p = [Packet("page") EXCEPT !.mode = a.mode, !.cur = a.id, !.rows = rows,
                                   !.more = more, !.newer = newer]
    BY DEF PageFor
  <2> HIDE DEF below, above
  <2>3. rows \in SUBSET Row(last) /\ more \in BOOLEAN /\ newer \in BOOLEAN
    BY <2>1, <1>2 DEF KeepNewest, KeepOldest
  <2> HIDE DEF rows, more, newer, p
  <2> QED BY <2>2, <2>3, <1>1, <1>5 DEF Packet, Packets
<1> HIDE DEF p
<1>8. PacketOK(p, last') /\ Said(p, stored', client)
  BY <1>5, <1>6, <1>7 DEF PacketOK, Said
<1>9. stored' = [m \in Sends |-> IF m = 0 THEN last' ELSE stored[m]]
  BY <1>1, <1>2
<1>10. /\ <<p>> \in Seq(Packets(last'))
       /\ \A i \in DOMAIN <<p>> : PacketOK(<<p>>[i], last') /\ Said(<<p>>[i], stored', client)
  BY <1>7, <1>8, OneSaid
<1> QED BY <1>1, <1>2, <1>3, <1>4, <1>9, <1>10, ServerKeeps

LEMMA ServeDeleteInv == Inv /\ ServeDelete => Inv'
<1> SUFFICES ASSUME Inv, ServeDelete PROVE Inv'
  OBVIOUS
<1> DEFINE id == Head(client.asks).id
           found == id \in log
           ack == [Packet("ack") EXCEPT !.id = id, !.more = found]
           gone == [Packet("deleted") EXCEPT !.id = id]
           s == IF found THEN <<ack, gone>> ELSE <<ack>>
<1>1. /\ NextAsk("delete") /\ Served /\ Push(s) /\ log' = log \ {id}
      /\ UNCHANGED <<last, stored, up, jobs, spent>>
  BY DEF ServeDelete
<1>2. /\ last \in Nat /\ log \subseteq Row(last) /\ stored \in [Sends -> 0..last]
      /\ spent' \in Spent /\ 0 \notin Sends
  BY <1>1, BoundsAssumption DEF Inv, TypeOK
<1>3. last' \in Nat /\ last <= last' /\ log' \subseteq Row(last')
  BY <1>1, <1>2
<1>4. client.asks # <<>> /\ id \in Nat
  <2>1. client.asks # <<>> /\ Head(client.asks) \in Asks /\ Head(client.asks).t = "delete"
    BY <1>1, HeadAsk
  <2> QED BY <2>1 DEF Asks
<1>5. found \in BOOLEAN
  OBVIOUS
<1> HIDE DEF id, found
<1>6. /\ ack \in Packets(last') /\ ack.t = "ack" /\ ack.mode = ""
      /\ gone \in Packets(last') /\ gone.t = "deleted" /\ gone.mode = ""
  BY <1>1, <1>4, <1>5 DEF Packet, Packets
<1> HIDE DEF ack, gone
<1>7. \A p \in {ack, gone} : PacketOK(p, last') /\ Said(p, stored', client)
  BY <1>6 DEF PacketOK, Said
<1>8. stored' = [m \in Sends |-> IF m = 0 THEN last' ELSE stored[m]]
  BY <1>1, <1>2
<1>9. /\ <<ack, gone>> \in Seq(Packets(last'))
      /\ \A i \in DOMAIN <<ack, gone>> : <<ack, gone>>[i] \in {ack, gone}
  BY <1>6, TwoPackets
<1>10. /\ <<ack>> \in Seq(Packets(last'))
       /\ \A i \in DOMAIN <<ack>> : <<ack>>[i] \in {ack, gone}
  BY <1>6, OnePacket
<1>11. s \in {<<ack, gone>>, <<ack>>}
  OBVIOUS
<1> HIDE DEF s
<1>12. /\ s \in Seq(Packets(last'))
       /\ \A i \in DOMAIN s : PacketOK(s[i], last') /\ Said(s[i], stored', client)
  BY <1>7, <1>9, <1>10, <1>11
<1> QED BY <1>1, <1>2, <1>3, <1>4, <1>8, <1>12, ServerKeeps

-----------------------------------------------------------------------------
(* The theorems.                                                           *)

(* The invariant is inductive: with it, what is said of the client is so   *)
(* whatever is lost, deleted, refused or timed out, in any order.          *)
THEOREM NextInv == Inv /\ [Next]_vars => Inv'
<1> SUFFICES ASSUME Inv, [Next]_vars PROVE Inv'
  OBVIOUS
<1>1. CASE Post \/ \E id \in Ids : ServerDelete(id)
  BY <1>1, PostInv, ServerDeleteInv
<1>2. CASE Serve
  BY <1>2, StoreSendInv, RefuseSendInv, ServePageInv, ServeDeleteInv DEF Serve
<1>3. CASE Transport
  BY <1>3, ReadInv, WorkInv, SkipFrameInv, DropInv, ReconnectInv DEF Transport
<1>4. CASE User
  BY <1>4, ScrollInv, LeaveInv, VisitInv, EvictInv, RetryPressedInv, LoadOlderInv,
     LoadNewerInv, JumpToPresentInv, JumpToInv, DeleteMineInv, TrimInv, ComposeInv DEF User
<1>5. CASE Timers
  <2>1. CASE RetryLoad
    BY <2>1, RetryLoadInv
  <2>2. CASE LostReply
    <3>1. 1 \in DOMAIN client.waits /\ Expire(1) /\ spent' \in Spent
      BY <2>2 DEF LostReply, Inv, TypeOK, Sound, Clients
    <3> QED BY <3>1, ExpireInv
  <2>3. CASE \E n \in Sends : Transmit(n) \/ EchoTimer(n)
    BY <2>3, TransmitInv, EchoTimerInv
  <2>4. CASE \E i \in DOMAIN client.waits : ReplyTimeout(i)
    BY <2>4, ExpireInv, SpendOK DEF ReplyTimeout, Inv, TypeOK
  <2>5. CASE \E id \in Ids : DeleteTimeout(id)
    BY <2>5, DeleteTimeoutInv
  <2> QED BY <1>5, <2>1, <2>2, <2>3, <2>4, <2>5 DEF Timers
<1>6. CASE UNCHANGED vars
  BY <1>6 DEF vars, Inv, TypeOK, PacketsSay, SendsWait, Unsent, Settles, NoWindow, TextKept,
              Sound, WaitsOK, WaitOK
<1> QED BY <1>1, <1>2, <1>3, <1>4, <1>5, <1>6 DEF Next

THEOREM SpecInv == Spec => []Inv
BY InitInv, NextInv, PTL DEF Spec

(* The client's record, the queues and the server's rows keep their shape. *)
THEOREM TypeCorrect == Spec => []TypeOK
<1>1. Inv => TypeOK
  BY DEF Inv
<1> QED BY <1>1, SpecInv, PTL

(* A send is never shown as its bubble and as its row: an echo, a page, a  *)
(* page that releases held rows, a window, and a refused delete all settle *)
(* the bubble of every row they bring in.                                  *)
THEOREM NoSendIsShownTwice == Spec => []DisplayedOnce
<1>1. Inv => DisplayedOnce
  BY DEF Inv, Settles, DisplayedOnce
<1> QED BY <1>1, SpecInv, PTL

(* As long as no window and no eviction replaces a slice that shows        *)
(* bubbles, a composed text is in its bubble, stored, or handed back.      *)
THEOREM TextsAreKept == ASSUME Quiet PROVE Spec => []NoTextVanishes
<1>1. Inv => NoTextVanishes
  BY Quiet DEF Inv, TextKept, NoTextVanishes
<1> QED BY <1>1, SpecInv, PTL

-----------------------------------------------------------------------------
(* Waits and replies.  Without lost connections and lost replies, every    *)
(* wait has its request or its page under way, in the order they were      *)
(* asked for.                                                              *)

(* The numbers 1..n are those of the elements of P, in order, and each of   *)
(* the pairs is in F.                                                      *)
Pairs(n, P, F, g) ==
  /\ g \in [1..n -> P]
  /\ \A i, j \in 1..n : i < j => g[i] < g[j]
  /\ \A p \in P : \E i \in 1..n : g[i] = p
  /\ \A i \in 1..n : <<i, g[i]>> \in F
Matches(n, P, F) == \E g : Pairs(n, P, F, g)

(* The elements move, in order.                                            *)
Moving(n, P, F, Q, G, h) ==
  /\ n \in Nat /\ P \in SUBSET Nat /\ Q \in SUBSET Nat /\ h \in [P -> Q]
  /\ \A p, q \in P : p < q => h[p] < h[q]
  /\ \A q \in Q : \E p \in P : h[p] = q
  /\ \A i \in 1..n, p \in P : <<i, p>> \in F => <<i, h[p]>> \in G

LEMMA MatchMoves ==
  ASSUME NEW n, NEW P, NEW F, Matches(n, P, F), NEW Q, NEW G, NEW h, Moving(n, P, F, Q, G, h)
  PROVE  Matches(n, Q, G)
<1> USE DEF Moving
<1>1. PICK g : Pairs(n, P, F, g)
  BY DEF Matches
<1> DEFINE k == [i \in 1..n |-> h[g[i]]]
<1>2. k \in [1..n -> Q] /\ \A i \in 1..n : g[i] \in P /\ k[i] = h[g[i]]
  BY <1>1 DEF Pairs
<1> HIDE DEF k
<1>3. \A i, j \in 1..n : i < j => k[i] < k[j]
  <2> SUFFICES ASSUME NEW i \in 1..n, NEW j \in 1..n, i < j PROVE k[i] < k[j]
    OBVIOUS
  <2>1. g[i] < g[j]
    BY <1>1 DEF Pairs
  <2> QED BY <2>1, <1>2
<1>4. \A q \in Q : \E i \in 1..n : k[i] = q
  BY <1>1, <1>2 DEF Pairs
<1>5. \A i \in 1..n : <<i, k[i]>> \in G
  BY <1>1, <1>2 DEF Pairs
<1> QED BY <1>2, <1>3, <1>4, <1>5 DEF Pairs, Matches

(* One more at the end.                                                    *)
LEMMA MatchGrows ==
  ASSUME NEW n \in Nat, NEW P \in SUBSET Nat, NEW F, Matches(n, P, F),
         NEW q \in Nat, \A p \in P : p < q, NEW G,
         \A i \in 1..n, p \in P : <<i, p>> \in F => <<i, p>> \in G,
         <<n + 1, q>> \in G
  PROVE  Matches(n + 1, P \cup {q}, G)
<1>1. PICK g : Pairs(n, P, F, g)
  BY DEF Matches
<1> DEFINE k == [i \in 1..(n + 1) |-> IF i = n + 1 THEN q ELSE g[i]]
<1>2. /\ k \in [1..(n + 1) -> P \cup {q}] /\ k[n + 1] = q
      /\ \A i \in 1..n : k[i] = g[i] /\ g[i] \in P
  BY <1>1 DEF Pairs
<1> HIDE DEF k
<1>3. \A i \in 1..(n + 1) : i \in 1..n \/ i = n + 1
  OBVIOUS
<1>4. \A i, j \in 1..(n + 1) : i < j => k[i] < k[j]
  <2> SUFFICES ASSUME NEW i \in 1..(n + 1), NEW j \in 1..(n + 1), i < j PROVE k[i] < k[j]
    OBVIOUS
  <2>1. i \in 1..n
    OBVIOUS
  <2> QED BY <2>1, <1>1, <1>2, <1>3 DEF Pairs
<1>5. \A p \in P \cup {q} : \E i \in 1..(n + 1) : k[i] = p
  <2>1. \A p \in P : \E i \in 1..n : k[i] = p
    BY <1>1, <1>2 DEF Pairs
  <2>2. n + 1 \in 1..(n + 1) /\ 1..n \subseteq 1..(n + 1)
    OBVIOUS
  <2> QED BY <2>1, <2>2, <1>2
<1>6. \A i \in 1..(n + 1) : <<i, k[i]>> \in G
  BY <1>1, <1>2, <1>3 DEF Pairs
<1> QED BY <1>2, <1>4, <1>5, <1>6 DEF Pairs, Matches

(* The first goes, and what follows it moves up.                           *)
LEMMA MatchPops ==
  ASSUME NEW n \in Nat, NEW P \in SUBSET (Nat \ {0}), NEW F, Matches(n, P, F), 1 \in P,
         NEW G, \A i \in 1..n, p \in P :
                   i > 1 /\ p > 1 /\ <<i, p>> \in F => <<i - 1, p - 1>> \in G
  PROVE  n > 0 /\ <<1, 1>> \in F /\ Matches(n - 1, {p - 1 : p \in P \ {1}}, G)
<1>1. PICK g : Pairs(n, P, F, g)
  BY DEF Matches
<1> DEFINE Q == {p - 1 : p \in P \ {1}}
<1>2. \A i \in 1..n : g[i] \in P /\ g[i] \in Nat /\ g[i] >= 1
  <2>1. \A i \in 1..n : g[i] \in P
    BY <1>1 DEF Pairs
  <2>2. \A p \in P : p \in Nat /\ p >= 1
    OBVIOUS
  <2> QED BY <2>1, <2>2
<1>3. n > 0 /\ g[1] = 1
  <2>1. PICK i \in 1..n : g[i] = 1
    BY <1>1 DEF Pairs
  <2>2. 1 \in 1..n
    BY <2>1
  <2>3. i = 1 \/ g[1] < g[i]
    BY <2>2, <1>1 DEF Pairs
  <2> QED BY <2>1, <2>2, <2>3, <1>2
<1>4. \A i \in 1..n : i > 1 => g[i] > 1
  <2>1. 1 \in 1..n
    BY <1>3
  <2> QED BY <2>1, <1>1, <1>3 DEF Pairs
<1> DEFINE k == [i \in 1..(n - 1) |-> g[i + 1] - 1]
<1>5. \A i \in 1..(n - 1) : i + 1 \in 1..n /\ i + 1 > 1
  BY <1>3
<1>6. \A i \in 1..(n - 1) : k[i] \in Q /\ k[i] = g[i + 1] - 1
  BY <1>2, <1>4, <1>5
<1>7. k \in [1..(n - 1) -> Q]
  BY <1>6
<1> HIDE DEF k
<1>8. \A i, j \in 1..(n - 1) : i < j => k[i] < k[j]
  BY <1>1, <1>2, <1>5, <1>6 DEF Pairs
<1>9. \A q \in Q : \E i \in 1..(n - 1) : k[i] = q
  <2> SUFFICES ASSUME NEW p \in P \ {1} PROVE \E i \in 1..(n - 1) : k[i] = p - 1
    OBVIOUS
  <2>1. PICK i \in 1..n : g[i] = p
    BY <1>1 DEF Pairs
  <2>2. i - 1 \in 1..(n - 1) /\ (i - 1) + 1 = i
    BY <2>1, <1>3
  <2> QED BY <2>1, <2>2, <1>6
<1>10. \A i \in 1..(n - 1) : <<i, k[i]>> \in G
  <2> SUFFICES ASSUME NEW i \in 1..(n - 1) PROVE <<i, k[i]>> \in G
    OBVIOUS
  <2>1. <<i + 1, g[i + 1]>> \in F
    BY <1>1, <1>5 DEF Pairs
  <2>2. (i + 1) - 1 = i
    OBVIOUS
  <2> QED BY <2>1, <2>2, <1>2, <1>4, <1>5, <1>6
<1>11. Matches(n - 1, Q, G)
  BY <1>7, <1>8, <1>9, <1>10 DEF Pairs, Matches
<1>12. <<1, 1>> \in F
  BY <1>1, <1>3 DEF Pairs
<1> QED BY <1>3, <1>11, <1>12

(* What the checks of sends depend on, as one record: the line of all that *)
(* is under way, from the job that is next to the request asked last, and  *)
(* beside it the waits, the sends and the rows of the server.              *)
Given(x) == [asked |-> FALSE, of |-> x]
Asked(x) == [asked |-> TRUE, of |-> x]
Size(j, w, a) == Len(j) + Len(w) + Len(a)
OnWire(j, p) == Len(j) + p
AsAsk(j, w, p) == Len(j) + Len(w) + p
Line(j, w, a) ==
  [p \in 1..Size(j, w, a) |->
     IF p <= Len(j) THEN Given(j[p])
     ELSE IF p <= Len(j) + Len(w) THEN Given(w[p - Len(j)])
     ELSE Asked(a[p - Len(j) - Len(w)])]

View(j, w, c, st, lg, k) ==
  [size |-> Size(j, w, c.asks), line |-> Line(j, w, c.asks), waits |-> c.waits,
   check |-> c.check, withdrawn |-> c.withdrawn, after |-> c.after,
   stored |-> st, log |-> lg, last |-> k]

Slots(v) == 1..v.size
IsPage(x) == x.of.t = "page"
Pages(v) == {p \in Slots(v) : IsPage(v.line[p])}
Sending(x, n) == x.asked /\ x.of.t = "send" /\ x.of.id = n
Composing == {"new", "queued"}

(* The ids a number of full pages passes, at least.                        *)
Span(pages) == pages * CheckLimit

LEMMA SpanGrows ==
  /\ Span(0) = 0 /\ \A k \in Nat : Span(k) \in Nat
  /\ \A k \in 1..CheckPages : k - 1 \in Nat /\ Span(k) = Span(k - 1) + CheckLimit
<1>1. CheckLimit \in Nat
  BY BoundsAssumption
<1>2. ASSUME NEW k \in 1..CheckPages
      PROVE  k - 1 \in Nat /\ Span(k) = Span(k - 1) + CheckLimit
  <2>1. k - 1 \in Nat /\ k = (k - 1) + 1
    BY FirstPage
  <2> DEFINE j == k - 1
  <2> HIDE DEF j
  <2>2. j \in Nat => (j + 1) * CheckLimit = j * CheckLimit + CheckLimit
    BY <1>1
  <2> QED BY <2>1, <2>2 DEF Span, j
<1> QED BY <1>1, <1>2 DEF Span

(* What a check of the send asks for comes to its row: the newest page has *)
(* all that is stored later, or the row is within CheckPages pages of      *)
(* where the send was composed.                                            *)
Deep == MaxPosts + Cardinality(Sends) <= CheckLimit
Reached(v, n) ==
  IF v.after[n] = 0 THEN Deep ELSE v.stored[n] <= v.after[n] + Span(CheckPages)

(* A check that begins where the send was composed has come to row k after *)
(* some pages, each of them full.                                          *)
Further(v, n, pages, k) == v.after[n] # 0 /\ v.after[n] + Span(pages) <= k
Landed(v, n) == \A p \in Slots(v) : ~Sending(v.line[p], n)

(* The server does not have the send, and will not.                        *)
Gone(v, n) ==
  /\ v.check[n] \notin Composing
  /\ Landed(v, n)
  /\ Reached(v, n) => v.stored[n] \notin v.log

(* A request of a check: what it asks for begins below the send's row, and *)
(* the server comes to it after the send.  Or there is no row.             *)
Begins(v, w, p) ==
  LET a == v.line[p].of IN
  /\ a.limit = CheckLimit /\ a.mode \in {"latest", "after"}
  /\ a.mode = "latest" => v.after[w.arg] = 0
  /\ a.mode = "after" =>
       /\ a.id <= v.last /\ (v.stored[w.arg] # 0 => a.id < v.stored[w.arg])
       /\ Further(v, w.arg, w.page - 1, a.id)
  /\ \A q \in Slots(v) : Sending(v.line[q], w.arg) => q < p
Asking(v, w, p) == Gone(v, w.arg) \/ Begins(v, w, p)

(* A page for a check: it has the row, or is full, has more above it and   *)
(* ends below the row, or there is none.                                   *)
Telling(v, w, x) ==
  \/ Gone(v, w.arg)
  \/ v.stored[w.arg] \in x.rows
  \/ /\ w.mode = "after" /\ x.newer
     /\ w.cur < Newest(x.rows) /\ Newest(x.rows) < v.stored[w.arg]
     /\ Further(v, w.arg, w.page, Newest(x.rows)) /\ Landed(v, w.arg)

AnswersTo(w, x) ==
  IF x.of.mode \in {"latest", "before"} THEN w.mode = "before"
  ELSE w.mode = x.of.mode /\ w.cur = IF x.asked THEN x.of.id ELSE x.of.cur

Fits(v, w, p) ==
  /\ AnswersTo(w, v.line[p])
  /\ w.by = "check" =>
       /\ v.check[w.arg] \notin Composing
       /\ v.line[p].asked => Asking(v, w, p)
       /\ ~v.line[p].asked => Telling(v, w, v.line[p].of)

Fitting(v) == {z \in (DOMAIN v.waits) \X Slots(v) : Fits(v, v.waits[z[1]], z[2])}
Aligned(v) == Matches(Len(v.waits), Pages(v), Fitting(v))
Rejecting(v) ==
  \A p \in Slots(v) :
    ~v.line[p].asked /\ v.line[p].of.t = "rejected" => Gone(v, v.line[p].of.send)
TakenBack(v) == \A n \in v.withdrawn : Gone(v, n)
Since(v) ==
  \A n \in Sends : v.after[n] <= v.last /\ (v.stored[n] # 0 => v.after[n] < v.stored[n])
Lined(v) == Aligned(v) /\ Rejecting(v) /\ TakenBack(v) /\ Since(v)

Stages == {"new", "queued", "armed", "waiting", "asking", "off"}
SlotOK(x, k) ==
  /\ x.asked \in BOOLEAN
  /\ x.asked => x.of \in Asks
  /\ ~x.asked => x.of \in Packets(k) /\ PacketOK(x.of, k)
ViewOK(v) ==
  /\ v.size \in Nat /\ v.last \in Nat
  /\ \A p \in Slots(v) : SlotOK(v.line[p], v.last)
  /\ v.waits \in Seq(Waits)
  /\ \A i \in DOMAIN v.waits : v.waits[i].by = "check" => v.waits[i].arg \in Sends
  /\ v.check \in [Sends -> Stages] /\ v.withdrawn \subseteq Sends /\ v.after \in [Sends -> Nat]
  /\ v.stored \in [Sends -> 0..v.last] /\ v.log \subseteq 1..v.last

(* What a step does to the rows and the sends.                             *)
Later(v, u) ==
  /\ v.last <= u.last
  /\ \A r \in u.log : r \in v.log \/ r > v.last
  /\ \A n \in Sends :
       \/ u.stored[n] = v.stored[n]
       \/ /\ v.stored[n] = 0 /\ u.stored[n] > v.last
          /\ \E p \in Slots(v) : Sending(v.line[p], n)
  /\ \A n \in Sends : v.check[n] \notin Composing =>
       u.check[n] \notin Composing /\ u.after[n] = v.after[n]
  /\ \A n \in Sends, q \in Slots(u) : Sending(u.line[q], n) =>
       v.check[n] \in Composing \/ \E p \in Slots(v) : Sending(v.line[p], n)

LEMMA GoneStays ==
  ASSUME NEW v, NEW u, ViewOK(v), ViewOK(u), Later(v, u), NEW n \in Sends, Gone(v, n)
  PROVE  Gone(u, n)
<1>1. u.stored[n] = v.stored[n] /\ v.stored[n] \in 0..v.last
  BY DEF Later, Gone, Landed, ViewOK
<1>2. Reached(u, n) => u.stored[n] \notin u.log
  <2>1. u.after[n] = v.after[n]
    BY DEF Later, Gone
  <2>2. Reached(u, n) => v.stored[n] \notin v.log
    BY <1>1, <2>1 DEF Gone, Reached
  <2> QED BY <1>1, <2>2 DEF Later, ViewOK
<1>3. u.check[n] \notin Composing /\ Landed(u, n)
  BY DEF Later, Gone, Landed
<1> QED BY <1>2, <1>3 DEF Gone

LEMMA TellingStays ==
  ASSUME NEW v, NEW u, ViewOK(v), ViewOK(u), Later(v, u), NEW w, w.arg \in Sends,
         v.check[w.arg] \notin Composing, NEW x \in Packets(v.last), Telling(v, w, x)
  PROVE  Telling(u, w, x)
<1>1. CASE Gone(v, w.arg)
  BY <1>1, GoneStays DEF Telling
<1>2. CASE u.stored[w.arg] = v.stored[w.arg] /\ ~Gone(v, w.arg)
  <2>1. u.after[w.arg] = v.after[w.arg] /\ (Landed(v, w.arg) => Landed(u, w.arg))
    BY DEF Later, Landed
  <2> QED BY <1>2, <2>1 DEF Telling, Further
<1>3. CASE v.stored[w.arg] = 0 /\ ~Gone(v, w.arg)
  <2>1. x.rows \subseteq 1..v.last /\ v.last \in Nat
    BY DEF Packets, Row, ViewOK
  <2>2. Newest(x.rows) \in 0..v.last /\ 0 \notin x.rows
    BY <2>1, NewestIs
  <2> QED BY <1>3, <2>2 DEF Telling
<1> QED BY <1>1, <1>2, <1>3 DEF Later

(* A step that takes slots out of the line, and puts others in: e says     *)
(* where a slot was, 0 for those that are new.                             *)
Relines(v, u, e) ==
  /\ e \in [Slots(u) -> Slots(v) \cup {0}]
  /\ \A p, q \in Slots(u) : p < q /\ e[p] # 0 /\ e[q] # 0 => e[p] < e[q]
  /\ \A q \in Slots(u) : e[q] # 0 => u.line[q] = v.line[e[q]]
  /\ \A q \in Slots(u) : e[q] = 0 =>
        /\ \A n \in Sends : Sending(u.line[q], n) => v.check[n] \in Composing
        /\ ~u.line[q].asked /\ u.line[q].of.t = "rejected" => Gone(u, u.line[q].of.send)

LEMMA FitsStays ==
  ASSUME NEW v, NEW u, ViewOK(v), ViewOK(u), Later(v, u), NEW e, Relines(v, u, e),
         NEW w, w.by = "check" => w.arg \in Sends,
         NEW q \in Slots(u), e[q] # 0, Fits(v, w, e[q])
  PROVE  Fits(u, w, q)
<1>1. u.line[q] = v.line[e[q]] /\ e[q] \in Slots(v)
  BY DEF Relines
<1>2. AnswersTo(w, u.line[q])
  BY <1>1 DEF Fits
<1>3. ASSUME w.by = "check"
      PROVE  u.check[w.arg] \notin Composing
  BY <1>3 DEF Fits, Later
<1>4. ASSUME w.by = "check", u.line[q].asked
      PROVE  Asking(u, w, q)
  <2>0. Asking(v, w, e[q]) /\ v.check[w.arg] \notin Composing
    BY <1>1, <1>4 DEF Fits
  <2> SUFFICES ASSUME Begins(v, w, e[q]) PROVE Begins(u, w, q)
    BY <1>4, <2>0, GoneStays DEF Asking
  <2>1. Begins(v, w, e[q]) /\ v.check[w.arg] \notin Composing
    BY <2>0
  <2> DEFINE a == u.line[q].of
  <2>2. /\ a.limit = CheckLimit /\ a.mode \in {"latest", "after"}
        /\ a.mode = "latest" => v.after[w.arg] = 0
        /\ a.mode = "after" =>
             /\ a.id <= v.last /\ (v.stored[w.arg] # 0 => a.id < v.stored[w.arg])
             /\ Further(v, w.arg, w.page - 1, a.id)
    BY <1>1, <2>1 DEF Begins
  <2>6. /\ u.after[w.arg] = v.after[w.arg]
        /\ a.mode = "after" => Further(u, w.arg, w.page - 1, a.id)
    BY <1>4, <2>1, <2>2 DEF Later, Further
  <2>3. a.id \in Nat
    <3>1. \A b \in Asks : b.id \in Nat
      BY BoundsAssumption DEF Asks
    <3>2. a \in Asks
      BY <1>4 DEF ViewOK, SlotOK
    <3> QED BY <3>1, <3>2
  <2>4. a.mode = "after" =>
             a.id <= u.last /\ (u.stored[w.arg] # 0 => a.id < u.stored[w.arg])
    <3> HIDE DEF a
    <3>1. v.last \in Nat /\ u.last \in Nat /\ v.last <= u.last
      BY DEF ViewOK, Later
    <3>2. \/ u.stored[w.arg] = v.stored[w.arg]
          \/ u.stored[w.arg] > v.last
      BY <1>4 DEF Later
    <3>3. u.stored[w.arg] \in Nat
      BY <1>4, <3>1 DEF ViewOK
    <3> QED BY <2>2, <2>3, <3>1, <3>2, <3>3
  <2>5. ASSUME NEW r \in Slots(u), Sending(u.line[r], w.arg)
        PROVE  r < q
    <3>1. e[r] # 0
      BY <1>4, <2>1, <2>5 DEF Relines
    <3>2. Sending(v.line[e[r]], w.arg) /\ e[r] \in Slots(v)
      BY <3>1, <2>5 DEF Relines
    <3>3. e[r] < e[q] /\ e[r] \in Nat /\ e[q] \in Nat
      BY <2>1, <3>2, <1>1 DEF Begins, Slots, ViewOK
    <3>4. r \in Nat /\ q \in Nat
      BY DEF Slots, ViewOK
    <3>5. ~(q < r) /\ q # r
      BY <3>1, <3>3 DEF Relines
    <3> QED BY <3>4, <3>5
  <2> QED BY <2>2, <2>4, <2>5, <2>6 DEF Begins
<1>5. ASSUME w.by = "check", ~u.line[q].asked
      PROVE  Telling(u, w, u.line[q].of)
  <2>1. Telling(v, w, u.line[q].of)
    BY <1>1, <1>5 DEF Fits
  <2>2. u.line[q].of \in Packets(v.last)
    BY <1>1, <1>5 DEF ViewOK, SlotOK
  <2>3. v.check[w.arg] \notin Composing
    BY <1>5 DEF Fits
  <2> QED BY <1>5, <2>1, <2>2, <2>3, TellingStays
<1> QED BY <1>2, <1>3, <1>4, <1>5 DEF Fits

LEMMA RestStays ==
  ASSUME NEW v, NEW u, ViewOK(v), ViewOK(u), Lined(v), Later(v, u), NEW e, Relines(v, u, e),
         \A n \in u.withdrawn : n \in v.withdrawn \/ Gone(u, n)
  PROVE  Rejecting(u) /\ TakenBack(u)
<1>1. Rejecting(u)
  <2> SUFFICES ASSUME NEW q \in Slots(u), ~u.line[q].asked, u.line[q].of.t = "rejected"
               PROVE  Gone(u, u.line[q].of.send)
    BY DEF Rejecting
  <2>1. CASE e[q] = 0
    BY <2>1 DEF Relines
  <2>2. CASE e[q] # 0
    <3>1. u.line[q] = v.line[e[q]] /\ e[q] \in Slots(v)
      BY <2>2 DEF Relines
    <3>2. Gone(v, u.line[q].of.send)
      BY <3>1 DEF Lined, Rejecting
    <3>3. u.line[q].of.send \in Sends
      BY DEF ViewOK, SlotOK, PacketOK
    <3> QED BY <3>2, <3>3, GoneStays
  <2> QED BY <2>1, <2>2
<1>2. TakenBack(u)
  <2> SUFFICES ASSUME NEW n \in u.withdrawn, n \in v.withdrawn PROVE Gone(u, n)
    BY DEF TakenBack
  <2>1. Gone(v, n) /\ n \in Sends
    BY DEF Lined, TakenBack, ViewOK
  <2> QED BY <2>1, GoneStays
<1> QED BY <1>1, <1>2

(* No wait begins or ends, and no page.                                    *)
LEMMA LineMoves ==
  ASSUME NEW v, NEW u, ViewOK(v), ViewOK(u), Lined(v), Later(v, u), NEW e, Relines(v, u, e),
         \A q \in Pages(u) : e[q] # 0,
         \A p \in Pages(v) : \E q \in Slots(u) : e[q] = p,
         u.waits = v.waits, \A n \in u.withdrawn : n \in v.withdrawn \/ Gone(u, n), Since(u)
  PROVE  Lined(u)
<1>1. Aligned(u)
  <2>1. ASSUME NEW p \in Pages(v) PROVE \E q \in Pages(u) : e[q] = p
    <3>1. PICK q \in Slots(u) : e[q] = p
      OBVIOUS
    <3>2. p # 0 /\ IsPage(v.line[p])
      BY DEF Pages, Slots, ViewOK
    <3>3. q \in Pages(u)
      BY <3>1, <3>2 DEF Relines, Pages
    <3> QED BY <3>1, <3>3
  <2>2. \A q \in Pages(u) : e[q] \in Pages(v)
    BY DEF Relines, Pages
  <2> DEFINE h == [p \in Pages(v) |-> CHOOSE q \in Pages(u) : e[q] = p]
  <2>3. \A p \in Pages(v) : h[p] \in Pages(u) /\ e[h[p]] = p
    BY <2>1
  <2>4. h \in [Pages(v) -> Pages(u)]
    BY <2>3
  <2> HIDE DEF h
  <2>5. /\ Pages(v) \in SUBSET Nat /\ Pages(u) \in SUBSET Nat
        /\ \A p \in Pages(v) : p # 0
        /\ Pages(u) \subseteq Slots(u)
    BY DEF Pages, Slots, ViewOK
  <2>6. ASSUME NEW p \in Pages(v), NEW q \in Pages(v), p < q
        PROVE  h[p] < h[q]
    <3>1. h[p] \in Nat /\ h[q] \in Nat
      BY <2>3, <2>5
    <3>2. h[p] \in Slots(u) /\ h[q] \in Slots(u) /\ e[h[p]] # 0 /\ e[h[q]] # 0
      BY <2>3, <2>5
    <3>3. ~(h[q] < h[p]) /\ h[p] # h[q]
      <4>1. p \in Nat /\ q \in Nat
        BY <2>5
      <4>2. h[q] < h[p] => e[h[q]] < e[h[p]]
        BY <3>2 DEF Relines
      <4> QED BY <4>1, <4>2, <2>3, <2>6
    <3> QED BY <3>1, <3>3
  <2>7. ASSUME NEW q \in Pages(u) PROVE \E p \in Pages(v) : h[p] = q
    <3>1. e[q] \in Pages(v) /\ h[e[q]] \in Pages(u) /\ e[h[e[q]]] = e[q]
      BY <2>2, <2>3
    <3>2. q \in Nat /\ h[e[q]] \in Nat /\ e[q] \in Nat /\ e[q] # 0
      BY <3>1, <2>5
    <3>3. ~(q < h[e[q]]) /\ ~(h[e[q]] < q)
      <4>1. q \in Slots(u) /\ h[e[q]] \in Slots(u)
        BY <3>1, <2>5
      <4> QED BY <3>1, <3>2, <4>1 DEF Relines
    <3> QED BY <3>1, <3>2, <3>3
  <2>8. ASSUME NEW i \in 1..Len(v.waits), NEW p \in Pages(v), <<i, p>> \in Fitting(v)
        PROVE  <<i, h[p]>> \in Fitting(u)
    <3>1. Fits(v, v.waits[i], p) /\ i \in DOMAIN v.waits
      BY <2>8 DEF Fitting
    <3>2. h[p] \in Slots(u) /\ e[h[p]] = p /\ p # 0
      BY <2>3, <2>5
    <3>3. v.waits[i].by = "check" => v.waits[i].arg \in Sends
      BY <3>1 DEF ViewOK
    <3>4. Fits(u, v.waits[i], h[p])
      BY <3>1, <3>2, <3>3, FitsStays
    <3> QED BY <3>1, <3>2, <3>4 DEF Fitting
  <2>9. Len(v.waits) \in Nat /\ Matches(Len(v.waits), Pages(v), Fitting(v))
    BY DEF ViewOK, Lined, Aligned
  <2>10. Matches(Len(v.waits), Pages(u), Fitting(u))
    <3>1. Moving(Len(v.waits), Pages(v), Fitting(v), Pages(u), Fitting(u), h)
      BY <2>4, <2>5, <2>6, <2>7, <2>8, <2>9 DEF Moving
    <3> QED BY <2>9, <3>1, MatchMoves
  <2> QED BY <2>10 DEF Aligned
<1> QED BY <1>1, RestStays DEF Lined

(* A request is put at the end of the line, and waited for.                *)
LEMMA LineAsks ==
  ASSUME NEW v, NEW u, ViewOK(v), ViewOK(u), Lined(v), Later(v, u),
         u.size = v.size + 1, \A p \in Slots(v) : u.line[p] = v.line[p],
         u.line[v.size + 1].asked, u.line[v.size + 1].of.t = "page",
         NEW w \in Waits, u.waits = Append(v.waits, w), Fits(u, w, v.size + 1),
         \A n \in u.withdrawn : n \in v.withdrawn \/ Gone(u, n), Since(u)
  PROVE  Lined(u)
<1> DEFINE s == v.size + 1
           e == [q \in Slots(u) |-> IF q = s THEN 0 ELSE q]
<1>1. /\ Slots(u) = Slots(v) \cup {s} /\ s \notin Slots(v) /\ 0 \notin Slots(v)
      /\ s \in Nat /\ Slots(v) \subseteq Nat /\ \A p \in Slots(v) : p < s
  BY DEF Slots, ViewOK
<1>2. e[s] = 0 /\ \A p \in Slots(v) : e[p] = p
  BY <1>1
<1>3. Relines(v, u, e)
  <2>1. e \in [Slots(u) -> Slots(v) \cup {0}]
    BY <1>1
  <2>2. \A q \in Slots(u) : e[q] # 0 => q \in Slots(v)
    BY <1>1, <1>2
  <2>3. \A p, q \in Slots(u) : p < q /\ e[p] # 0 /\ e[q] # 0 => e[p] < e[q]
    BY <1>2, <2>2
  <2>4. u.line[s].asked /\ \A n \in Sends : ~Sending(u.line[s], n)
    BY DEF Sending
  <2> HIDE DEF e
  <2>5. \A q \in Slots(u) : e[q] = 0 => q = s
    BY <1>1, <1>2
  <2>6. \A q \in Slots(u) : e[q] # 0 => u.line[q] = v.line[e[q]]
    BY <2>2, <1>2
  <2> HIDE DEF s
  <2> QED BY <2>1, <2>3, <2>4, <2>5, <2>6 DEF Relines
<1> HIDE DEF e
<1>4. Pages(u) = Pages(v) \cup {s} /\ Pages(v) \subseteq Slots(v)
  BY <1>1 DEF Pages, IsPage
<1>5. /\ v.waits \in Seq(Waits) /\ Len(u.waits) = Len(v.waits) + 1 /\ Len(v.waits) \in Nat
      /\ DOMAIN v.waits = 1..Len(v.waits) /\ DOMAIN u.waits = 1..(Len(v.waits) + 1)
      /\ u.waits[Len(v.waits) + 1] = w
      /\ \A i \in 1..Len(v.waits) : u.waits[i] = v.waits[i]
  BY AppendProperties DEF ViewOK
<1>6. ASSUME NEW i \in 1..Len(v.waits), NEW p \in Pages(v), <<i, p>> \in Fitting(v)
      PROVE  <<i, p>> \in Fitting(u)
  <2>1. Fits(v, v.waits[i], p) /\ p \in Slots(v)
    BY <1>6 DEF Fitting
  <2>2. v.waits[i].by = "check" => v.waits[i].arg \in Sends
    BY <1>5 DEF ViewOK
  <2>3. p \in Slots(u) /\ e[p] # 0 /\ e[p] = p
    BY <2>1, <1>1, <1>2
  <2>4. Fits(u, v.waits[i], p)
    BY <1>3, <2>1, <2>2, <2>3, FitsStays
  <2> QED BY <2>3, <2>4, <1>5 DEF Fitting
<1>7. <<Len(v.waits) + 1, s>> \in Fitting(u)
  BY <1>1, <1>5 DEF Fitting
<1>8. Matches(Len(v.waits) + 1, Pages(v) \cup {s}, Fitting(u))
  <2>1. Matches(Len(v.waits), Pages(v), Fitting(v))
    BY DEF Lined, Aligned
  <2>2. Pages(v) \in SUBSET Nat /\ \A p \in Pages(v) : p < s
    BY <1>1, <1>4
  <2> HIDE DEF s
  <2> QED BY <1>1, <1>5, <1>6, <1>7, <2>1, <2>2, MatchGrows
<1>9. Aligned(u)
  BY <1>4, <1>5, <1>8 DEF Aligned
<1> QED BY <1>3, <1>9, RestStays DEF Lined

(* The server answers a request with a page.                               *)
LEMMA LineServes ==
  ASSUME NEW v, NEW u, ViewOK(v), ViewOK(u), Lined(v), Later(v, u),
         u.size = v.size, NEW s \in Slots(v),
         \A p \in Slots(v) : p # s => u.line[p] = v.line[p],
         IsPage(v.line[s]), v.line[s].asked, IsPage(u.line[s]), ~u.line[s].asked,
         \A w : AnswersTo(w, v.line[s]) => AnswersTo(w, u.line[s]),
         \A w \in Waits : w.arg \in Sends /\ v.check[w.arg] \notin Composing
                            /\ AnswersTo(w, v.line[s]) /\ Asking(v, w, s)
                            => Telling(u, w, u.line[s].of),
         u.waits = v.waits, \A n \in u.withdrawn : n \in v.withdrawn \/ Gone(u, n), Since(u)
  PROVE  Lined(u)
<1> DEFINE e == [q \in Slots(u) |-> IF q = s THEN 0 ELSE q]
<1>1. Slots(u) = Slots(v) /\ 0 \notin Slots(v) /\ Slots(v) \subseteq Nat
  BY DEF Slots, ViewOK
<1>2. e[s] = 0 /\ \A p \in Slots(v) : p # s => e[p] = p
  BY <1>1
<1>3. Relines(v, u, e)
  <2>1. e \in [Slots(u) -> Slots(v) \cup {0}]
    BY <1>1
  <2>2. \A n \in Sends : ~Sending(u.line[s], n)
    BY DEF Sending
  <2>3. ~u.line[s].asked /\ u.line[s].of.t # "rejected"
    BY DEF IsPage
  <2> HIDE DEF e
  <2>4. \A q \in Slots(u) : e[q] = 0 => q = s
    BY <1>1, <1>2
  <2>5. \A q \in Slots(u) : e[q] # 0 => q # s /\ e[q] = q
    BY <1>1, <1>2
  <2>6. \A p, q \in Slots(u) : p < q /\ e[p] # 0 /\ e[q] # 0 => e[p] < e[q]
    BY <2>5
  <2> QED BY <1>1, <2>1, <2>2, <2>3, <2>4, <2>5, <2>6 DEF Relines
<1> HIDE DEF e
<1>4. Pages(u) = Pages(v) /\ Pages(v) \subseteq Slots(v)
  BY <1>1 DEF Pages
<1>5. ASSUME NEW i \in 1..Len(v.waits), NEW p \in Pages(v), <<i, p>> \in Fitting(v)
      PROVE  <<i, p>> \in Fitting(u)
  <2>1. Fits(v, v.waits[i], p) /\ p \in Slots(v) /\ i \in DOMAIN v.waits
    BY <1>5 DEF Fitting
  <2>2. /\ v.waits[i] \in Waits
        /\ v.waits[i].by = "check" => v.waits[i].arg \in Sends
    BY <2>1 DEF ViewOK
  <2>3. CASE p # s
    <3>1. p \in Slots(u) /\ e[p] # 0 /\ e[p] = p
      BY <2>1, <2>3, <1>1, <1>2
    <3> QED BY <1>3, <2>1, <2>2, <3>1, FitsStays DEF Fitting
  <2>4. CASE p = s
    <3>1. AnswersTo(v.waits[i], u.line[s])
      BY <2>1, <2>4 DEF Fits
    <3>2. ASSUME v.waits[i].by = "check"
          PROVE  /\ u.check[v.waits[i].arg] \notin Composing
                 /\ Telling(u, v.waits[i], u.line[s].of)
      <4>1. /\ AnswersTo(v.waits[i], v.line[s]) /\ Asking(v, v.waits[i], s)
            /\ v.check[v.waits[i].arg] \notin Composing
        BY <2>1, <2>4, <3>2 DEF Fits
      <4> QED BY <4>1, <2>2, <3>2 DEF Later
    <3> QED BY <2>1, <2>4, <3>1, <3>2, <1>1 DEF Fits, Fitting
  <2> QED BY <2>3, <2>4
<1>6. Matches(Len(v.waits), Pages(u), Fitting(u))
  <2> DEFINE h == [p \in Pages(v) |-> p]
  <2>1. /\ h \in [Pages(v) -> Pages(u)] /\ \A p \in Pages(v) : h[p] = p
        /\ Pages(v) \in SUBSET Nat /\ Pages(u) \in SUBSET Nat
    BY <1>1, <1>4
  <2> HIDE DEF h
  <2>2. Matches(Len(v.waits), Pages(v), Fitting(v)) /\ Len(v.waits) \in Nat
    BY DEF Lined, Aligned, ViewOK
  <2>3. \A p, q \in Pages(v) : p < q => h[p] < h[q]
    BY <2>1
  <2>4. \A q \in Pages(u) : \E p \in Pages(v) : h[p] = q
    BY <2>1, <1>4
  <2>5. \A i \in 1..Len(v.waits), p \in Pages(v) : <<i, p>> \in Fitting(v) => <<i, h[p]>> \in Fitting(u)
    BY <1>5, <2>1
  <2>6. Moving(Len(v.waits), Pages(v), Fitting(v), Pages(u), Fitting(u), h)
    BY <2>1, <2>2, <2>3, <2>4, <2>5 DEF Moving
  <2> QED BY <2>2, <2>6, MatchMoves
<1> QED BY <1>3, <1>6, RestStays DEF Lined, Aligned

(* The first of the line is a page: it is the one that is waited for first. *)
LEMMA LinePops ==
  ASSUME NEW v, NEW u, ViewOK(v), ViewOK(u), Lined(v), Later(v, u),
         1 \in Slots(v), IsPage(v.line[1]), ~v.line[1].asked,
         u.size = v.size - 1, \A p \in Slots(u) : u.line[p] = v.line[p + 1],
         v.waits # <<>> => u.waits = Tail(v.waits),
         \A n \in u.withdrawn : n \in v.withdrawn \/ Gone(u, n), Since(u)
  PROVE  v.waits # <<>> /\ Fits(v, v.waits[1], 1) /\ Lined(u)
<1> DEFINE e == [q \in Slots(u) |-> q + 1]
           n == Len(v.waits)
<1>1. /\ Slots(v) \subseteq Nat \ {0} /\ Slots(u) \subseteq Nat \ {0}
      /\ \A q \in Slots(u) : q + 1 \in Slots(v) /\ e[q] = q + 1
      /\ \A p \in Slots(v) : p > 1 => p - 1 \in Slots(u)
  BY DEF Slots, ViewOK
<1>2. Relines(v, u, e)
  <2>1. e \in [Slots(u) -> Slots(v) \cup {0}]
    BY <1>1
  <2>2. \A q \in Slots(u) : e[q] # 0
    BY <1>1
  <2>3. \A p, q \in Slots(u) : p < q => e[p] < e[q]
    BY <1>1
  <2> HIDE DEF e
  <2> QED BY <1>1, <2>1, <2>2, <2>3 DEF Relines
<1>3. v.waits \in Seq(Waits) /\ n \in Nat /\ DOMAIN v.waits = 1..n
  BY DEF ViewOK
<1> HIDE DEF e
<1>4. /\ Pages(v) \in SUBSET (Nat \ {0}) /\ 1 \in Pages(v)
      /\ Pages(u) = {p - 1 : p \in Pages(v) \ {1}}
  <2>1. \A q \in Pages(u) : q + 1 \in Pages(v) \ {1} /\ q = (q + 1) - 1
    BY <1>1 DEF Pages
  <2>2. ASSUME NEW p \in Pages(v) \ {1} PROVE p - 1 \in Pages(u)
    <3>1. p \in Slots(v) /\ p > 1 /\ (p - 1) + 1 = p
      BY <1>1 DEF Pages
    <3> QED BY <3>1, <1>1 DEF Pages
  <2> QED BY <1>1, <2>1, <2>2 DEF Pages
<1> DEFINE G == {z \in (1..(n - 1)) \X Slots(u) : Fits(u, v.waits[z[1] + 1], z[2])}
<1>5. ASSUME NEW i \in 1..n, NEW p \in Pages(v), i > 1, p > 1, <<i, p>> \in Fitting(v)
      PROVE  <<i - 1, p - 1>> \in G
  <2>1. Fits(v, v.waits[i], p) /\ p \in Slots(v)
    BY <1>5 DEF Fitting
  <2>2. p - 1 \in Slots(u) /\ e[p - 1] = p /\ p # 0 /\ (i - 1) + 1 = i /\ i - 1 \in 1..(n - 1)
    <3>1. p \in Nat /\ (p - 1) + 1 = p
      BY <1>1, <2>1
    <3> QED BY <1>1, <1>5, <2>1, <3>1, <1>3
  <2>3. v.waits[i].by = "check" => v.waits[i].arg \in Sends
    BY <1>3 DEF ViewOK
  <2>4. Fits(u, v.waits[i], p - 1)
    BY <1>2, <2>1, <2>2, <2>3, FitsStays
  <2> QED BY <2>2, <2>4
<1>6. Matches(n, Pages(v), Fitting(v))
  BY DEF Lined, Aligned
<1>7. n > 0 /\ <<1, 1>> \in Fitting(v) /\ Matches(n - 1, Pages(u), G)
  <2>1. \A i \in 1..n, p \in Pages(v) :
          i > 1 /\ p > 1 /\ <<i, p>> \in Fitting(v) => <<i - 1, p - 1>> \in G
    BY <1>5
  <2>2. n \in Nat
    BY <1>3
  <2> HIDE DEF G, n
  <2>3. n > 0 /\ <<1, 1>> \in Fitting(v) /\ Matches(n - 1, {p - 1 : p \in Pages(v) \ {1}}, G)
    BY <1>4, <1>6, <2>1, <2>2, MatchPops
  <2> QED BY <1>4, <2>3
<1>8. v.waits # <<>>
  BY <1>3, <1>7
<1>9. /\ u.waits \in Seq(Waits) /\ Len(u.waits) = n - 1 /\ DOMAIN u.waits = 1..(n - 1)
      /\ \A i \in 1..(n - 1) : u.waits[i] = v.waits[i + 1]
  <2>1. u.waits = Tail(v.waits) /\ n > 0
    BY <1>7, <1>8
  <2>2. /\ Tail(v.waits) \in Seq(Waits) /\ Len(Tail(v.waits)) = n - 1
        /\ \A i \in 1..Len(Tail(v.waits)) : Tail(v.waits)[i] = v.waits[i + 1]
    BY <1>3, <1>8, HeadTailProperties
  <2> HIDE DEF n
  <2> QED BY <2>1, <2>2
<1>10. Fitting(u) = G
  BY <1>9 DEF Fitting
<1>11. Aligned(u)
  BY <1>7, <1>9, <1>10 DEF Aligned
<1>12. Fits(v, v.waits[1], 1)
  BY <1>7 DEF Fitting
<1> QED BY <1>2, <1>8, <1>11, <1>12, RestStays DEF Lined

(* From slot s on, d slots that are no pages go and k come.                *)
Splices(v, u, s, d, k) ==
  /\ u.size = (v.size + k) - d /\ s \in 1..((v.size + 1) - d)
  /\ \A q \in Slots(u) : q < s => u.line[q] = v.line[q]
  /\ \A q \in Slots(u) : q >= s + k => u.line[q] = v.line[(q + d) - k]
  /\ \A q \in Slots(u) : s <= q /\ q < s + k =>
        /\ ~IsPage(u.line[q])
        /\ \A n \in Sends : Sending(u.line[q], n) => v.check[n] \in Composing
        /\ ~u.line[q].asked /\ u.line[q].of.t = "rejected" => Gone(u, u.line[q].of.send)
  /\ \A p \in Slots(v) : s <= p /\ p < s + d => ~IsPage(v.line[p])

LEMMA LineSplices ==
  ASSUME NEW v, NEW u, ViewOK(v), ViewOK(u), Lined(v), Later(v, u),
         NEW s, NEW d \in Nat, NEW k \in Nat, Splices(v, u, s, d, k),
         u.waits = v.waits, \A n \in u.withdrawn : n \in v.withdrawn \/ Gone(u, n), Since(u)
  PROVE  Lined(u)
<1> DEFINE e == [q \in Slots(u) |-> IF q < s THEN q ELSE IF q < s + k THEN 0 ELSE (q + d) - k]
<1>1. /\ s \in Nat /\ s > 0 /\ v.size \in Nat /\ u.size = (v.size + k) - d
      /\ s <= (v.size + 1) - d
  BY DEF Splices, ViewOK
<1>2. /\ \A q \in Slots(u) : q \in Nat /\ q >= 1 /\ q <= (v.size + k) - d
      /\ \A p : p \in Slots(v) <=> p \in Nat /\ p >= 1 /\ p <= v.size
  BY <1>1 DEF Slots
<1>3. \A q \in Slots(u) :
        /\ q < s => e[q] = q /\ e[q] \in Slots(v)
        /\ s <= q /\ q < s + k => e[q] = 0
        /\ s + k <= q => e[q] = (q + d) - k /\ e[q] \in Slots(v)
  BY <1>1, <1>2
<1>4. e \in [Slots(u) -> Slots(v) \cup {0}]
  BY <1>1, <1>2
<1> HIDE DEF e
<1>5. \A q \in Slots(u) : e[q] # 0 <=> q < s \/ s + k <= q
  BY <1>1, <1>2, <1>3
<1>6. ASSUME NEW p \in Slots(u), NEW q \in Slots(u), p < q, e[p] # 0, e[q] # 0
      PROVE  e[p] < e[q]
  BY <1>1, <1>2, <1>3, <1>5, <1>6
<1>7. Relines(v, u, e)
  <2>1. \A q \in Slots(u) : e[q] # 0 => u.line[q] = v.line[e[q]]
    BY <1>3, <1>5 DEF Splices
  <2>2. \A q \in Slots(u) : e[q] = 0 => s <= q /\ q < s + k
    BY <1>1, <1>2, <1>5
  <2> QED BY <1>4, <1>6, <2>1, <2>2 DEF Relines, Splices
<1>8. \A q \in Pages(u) : e[q] # 0
  BY <1>1, <1>2, <1>5 DEF Pages, Splices
<1>9. ASSUME NEW p \in Pages(v) PROVE \E q \in Slots(u) : e[q] = p
  <2>1. p \in Slots(v) /\ p \in Nat /\ p >= 1 /\ p <= v.size /\ (p < s \/ s + d <= p)
    BY <1>1, <1>2 DEF Pages, Splices
  <2>2. CASE p < s
    <3>1. p \in Slots(u)
      BY <2>1, <2>2, <1>1 DEF Slots
    <3> QED BY <2>2, <3>1, <1>3
  <2>3. CASE s + d <= p
    <3>1. (p + k) - d \in Slots(u) /\ s + k <= (p + k) - d /\ (((p + k) - d) + d) - k = p
      BY <2>1, <2>3, <1>1 DEF Slots
    <3> QED BY <3>1, <1>3
  <2> QED BY <2>1, <2>2, <2>3
<1> QED BY <1>7, <1>8, <1>9, LineMoves

LEMMA SizeIs ==
  ASSUME NEW j, NEW w, NEW a, Len(j) \in Nat, Len(w) \in Nat, Len(a) \in Nat
  PROVE  Size(j, w, a) \in Nat
BY DEF Size

LEMMA LineJob ==
  ASSUME NEW j, NEW w, NEW a, Len(j) \in Nat, Len(w) \in Nat, Len(a) \in Nat,
         NEW p \in 1..Len(j)
  PROVE  Line(j, w, a)[p] = Given(j[p])
<1>1. p \in 1..(Len(j) + Len(w) + Len(a))
  OBVIOUS
<1> QED BY <1>1 DEF Line, Size

LEMMA LineWire ==
  ASSUME NEW j, NEW w, NEW a, Len(j) \in Nat, Len(w) \in Nat, Len(a) \in Nat,
         NEW p \in 1..Len(w)
  PROVE  Line(j, w, a)[OnWire(j, p)] = Given(w[p])
<1> DEFINE q == Len(j) + p
<1>1. /\ q \in 1..(Len(j) + Len(w) + Len(a)) /\ ~(q <= Len(j)) /\ q <= Len(j) + Len(w)
      /\ q - Len(j) = p
  OBVIOUS
<1> HIDE DEF q
<1>2. Line(j, w, a)[q] = Given(w[p])
  BY <1>1 DEF Line, Size
<1> QED BY <1>2 DEF q, OnWire

LEMMA LineAsk ==
  ASSUME NEW j, NEW w, NEW a, Len(j) \in Nat, Len(w) \in Nat, Len(a) \in Nat,
         NEW p \in 1..Len(a)
  PROVE  Line(j, w, a)[AsAsk(j, w, p)] = Asked(a[p])
<1> DEFINE q == Len(j) + Len(w) + p
<1>1. /\ q \in 1..(Len(j) + Len(w) + Len(a)) /\ ~(q <= Len(j)) /\ ~(q <= Len(j) + Len(w))
      /\ q - Len(j) - Len(w) = p
  OBVIOUS
<1> HIDE DEF q
<1>2. Line(j, w, a)[q] = Asked(a[p])
  BY <1>1 DEF Line, Size
<1> QED BY <1>2 DEF q, AsAsk

(* Every slot is a job, a packet or a request.                             *)
LEMMA LineSlot ==
  ASSUME NEW j, NEW w, NEW a, Len(j) \in Nat, Len(w) \in Nat, Len(a) \in Nat,
         NEW q \in 1..Size(j, w, a)
  PROVE  \/ q \in 1..Len(j)
         \/ \E p \in 1..Len(w) : q = OnWire(j, p)
         \/ \E p \in 1..Len(a) : q = AsAsk(j, w, p)
<1>0. q \in 1..(Len(j) + Len(w) + Len(a))
  BY DEF Size
<1>1. CASE q <= Len(j)
  BY <1>0, <1>1
<1>2. CASE q > Len(j) /\ q <= Len(j) + Len(w)
  <2>1. q - Len(j) \in 1..Len(w) /\ q = Len(j) + (q - Len(j))
    BY <1>0, <1>2
  <2> QED BY <2>1 DEF OnWire
<1>3. CASE q > Len(j) + Len(w)
  <2>1. q - Len(j) - Len(w) \in 1..Len(a) /\ q = Len(j) + Len(w) + (q - Len(j) - Len(w))
    BY <1>0, <1>3
  <2> QED BY <2>1 DEF AsAsk
<1> QED BY <1>0, <1>1, <1>2, <1>3

LEMMA LineTyped ==
  ASSUME NEW j, NEW w, NEW a, Len(j) \in Nat, Len(w) \in Nat, Len(a) \in Nat, NEW k,
         \A i \in 1..Len(j) : j[i] \in Packets(k) /\ PacketOK(j[i], k),
         \A i \in 1..Len(w) : w[i] \in Packets(k) /\ PacketOK(w[i], k),
         \A i \in 1..Len(a) : a[i] \in Asks,
         NEW p \in 1..Size(j, w, a)
  PROVE  SlotOK(Line(j, w, a)[p], k)
<1>1. CASE p \in 1..Len(j)
  <2>1. Line(j, w, a)[p] = Given(j[p])
    BY <1>1, LineJob
  <2> QED BY <1>1, <2>1 DEF SlotOK, Given, Asked
<1>2. ASSUME NEW i \in 1..Len(w), p = OnWire(j, i)
      PROVE  SlotOK(Line(j, w, a)[p], k)
  <2>1. Line(j, w, a)[p] = Given(w[i])
    BY <1>2, LineWire
  <2> QED BY <1>2, <2>1 DEF SlotOK, Given, Asked
<1>3. ASSUME NEW i \in 1..Len(a), p = AsAsk(j, w, i)
      PROVE  SlotOK(Line(j, w, a)[p], k)
  <2>1. Line(j, w, a)[p] = Asked(a[i])
    BY <1>3, LineAsk
  <2> QED BY <1>3, <2>1 DEF SlotOK, Given, Asked
<1> QED BY <1>1, <1>2, <1>3, LineSlot

LEMMA ViewTyped ==
  ASSUME NEW k \in Nat, NEW j \in Seq(Packets(k)), NEW w \in Seq(Packets(k)),
         \A i \in DOMAIN j : PacketOK(j[i], k), \A i \in DOMAIN w : PacketOK(w[i], k),
         NEW c \in Clients(k), WaitsOK(c),
         NEW st \in [Sends -> 0..k], NEW lg \in SUBSET (1..k)
  PROVE  /\ ViewOK(View(j, w, c, st, lg, k))
         /\ c.asks \in Seq(Asks) /\ Len(j) \in Nat /\ Len(w) \in Nat /\ Len(c.asks) \in Nat
<1> DEFINE v == View(j, w, c, st, lg, k)
<1>1. /\ v.size = Size(j, w, c.asks) /\ v.line = Line(j, w, c.asks)
      /\ v.waits = c.waits /\ v.check = c.check /\ v.withdrawn = c.withdrawn
      /\ v.after = c.after /\ v.stored = st /\ v.log = lg /\ v.last = k
  BY DEF View
<1> HIDE DEF v
<1>2. /\ c.asks \in Seq(Asks) /\ Len(j) \in Nat /\ Len(w) \in Nat /\ Len(c.asks) \in Nat
      /\ c.waits \in Seq(Waits) /\ c.check \in [Sends -> Stages]
      /\ c.withdrawn \subseteq Sends /\ c.after \in [Sends -> Nat]
  BY DEF Clients, Stages
<1>3. ASSUME NEW p \in Slots(v)
      PROVE  SlotOK(v.line[p], k)
  <2>1. p \in 1..Size(j, w, c.asks)
    BY <1>1 DEF Slots
  <2>2. /\ \A i \in 1..Len(j) : j[i] \in Packets(k) /\ PacketOK(j[i], k)
        /\ \A i \in 1..Len(w) : w[i] \in Packets(k) /\ PacketOK(w[i], k)
        /\ \A i \in 1..Len(c.asks) : c.asks[i] \in Asks
    BY <1>2
  <2> QED BY <2>1, <2>2, <1>1, <1>2, LineTyped
<1>4. \A i \in DOMAIN c.waits : c.waits[i].by = "check" => c.waits[i].arg \in Sends
  BY DEF WaitsOK, WaitOK
<1>5. v.size \in Nat
  BY <1>1, <1>2, SizeIs, Zenon
<1>6. ViewOK(v)
  BY <1>1, <1>2, <1>3, <1>4, <1>5 DEF ViewOK
<1> QED BY <1>2, <1>6 DEF v

(* How the line changes with the queues.  Sequence r is w and k more; b is *)
(* a without its first d.                                                  *)
Extends(r, w, k) ==
  /\ Len(r) \in Nat /\ Len(r) = Len(w) + k
  /\ \A i \in 1..Len(w) : r[i] = w[i]
Follows(b, a, d) ==
  /\ Len(b) \in Nat /\ Len(a) = Len(b) + d
  /\ \A i \in 1..Len(b) : b[i] = a[i + d]

Growing(j, w, a, b) ==
  /\ Size(j, w, b) = Size(j, w, a) + 1
  /\ \A q \in 1..Size(j, w, a) : Line(j, w, b)[q] = Line(j, w, a)[q]
  /\ Line(j, w, b)[Size(j, w, a) + 1] = Asked(b[Len(a) + 1])

LEMMA LineGrows ==
  ASSUME NEW j, NEW w, NEW a, NEW b, Len(j) \in Nat, Len(w) \in Nat, Len(a) \in Nat,
         Extends(b, a, 1)
  PROVE  Growing(j, w, a, b)
<1> USE DEF Extends
<1>1. Len(b) \in Nat /\ \A p \in 1..Len(a) : p \in 1..Len(b)
  OBVIOUS
<1>2. Size(j, w, b) = Size(j, w, a) + 1 /\ Size(j, w, a) + 1 = AsAsk(j, w, Len(a) + 1)
  BY DEF Size, AsAsk
<1>3. ASSUME NEW q \in 1..Size(j, w, a)
      PROVE  Line(j, w, b)[q] = Line(j, w, a)[q]
  <2>1. CASE q \in 1..Len(j)
    BY <2>1, <1>1, LineJob
  <2>2. ASSUME NEW p \in 1..Len(w), q = OnWire(j, p)
        PROVE  Line(j, w, b)[q] = Line(j, w, a)[q]
    BY <2>2, <1>1, LineWire
  <2>3. ASSUME NEW p \in 1..Len(a), q = AsAsk(j, w, p)
        PROVE  Line(j, w, b)[q] = Line(j, w, a)[q]
    BY <2>3, <1>1, LineAsk
  <2> QED BY <2>1, <2>2, <2>3, LineSlot
<1>4. Line(j, w, b)[AsAsk(j, w, Len(a) + 1)] = Asked(b[Len(a) + 1])
  <2>1. Len(a) + 1 \in 1..Len(b)
    BY <1>1
  <2> QED BY <2>1, <1>1, LineAsk
<1> QED BY <1>2, <1>3, <1>4 DEF Growing

LEMMA LineAll ==
  ASSUME NEW j, NEW w, NEW a, Len(j) \in Nat, Len(w) \in Nat, Len(a) \in Nat
  PROVE  /\ \A p \in 1..Len(j) : Line(j, w, a)[p] = Given(j[p])
         /\ \A p \in 1..Len(w) : Line(j, w, a)[OnWire(j, p)] = Given(w[p])
         /\ \A p \in 1..Len(a) : Line(j, w, a)[AsAsk(j, w, p)] = Asked(a[p])
         /\ \A q \in 1..Size(j, w, a) :
              \/ q \in 1..Len(j)
              \/ \E p \in 1..Len(w) : q = OnWire(j, p)
              \/ \E p \in 1..Len(a) : q = AsAsk(j, w, p)
BY LineJob, LineWire, LineAsk, LineSlot

(* The wire grows by k, and d of the requests go.                          *)
Answering(j, w, a, r, b, k, d) ==
  LET m == Len(j) + Len(w)
  IN /\ m \in Nat /\ Size(j, w, a) = m + Len(a)
     /\ Size(j, r, b) = (Size(j, w, a) + k) - d
     /\ \A q \in 1..Size(j, r, b) :
          /\ q <= m => Line(j, r, b)[q] = Line(j, w, a)[q]
          /\ q > m + k => Line(j, r, b)[q] = Line(j, w, a)[(q + d) - k]
     /\ \A i \in 1..k : Line(j, r, b)[m + i] = Given(r[Len(w) + i])
     /\ d = 1 => Line(j, w, a)[m + 1] = Asked(a[1])

LEMMA LineAnswers ==
  ASSUME NEW j, NEW w, NEW a, NEW r, NEW b, NEW k \in Nat, NEW d \in Nat,
         Len(j) \in Nat, Len(w) \in Nat, Len(a) \in Nat,
         Extends(r, w, k), Follows(b, a, d)
  PROVE  Answering(j, w, a, r, b, k, d)
<1> DEFINE m == Len(j) + Len(w)
           L == Line(j, w, a)
           M == Line(j, r, b)
<1>1. Len(r) \in Nat /\ Len(b) \in Nat /\ m \in Nat
  BY DEF Extends, Follows
<1>2. /\ \A p \in 1..Len(j) : L[p] = Given(j[p])
      /\ \A p \in 1..Len(w) : L[OnWire(j, p)] = Given(w[p])
      /\ \A p \in 1..Len(a) : L[AsAsk(j, w, p)] = Asked(a[p])
  BY LineAll
<1>3. /\ \A p \in 1..Len(j) : M[p] = Given(j[p])
      /\ \A p \in 1..Len(r) : M[OnWire(j, p)] = Given(r[p])
      /\ \A p \in 1..Len(b) : M[AsAsk(j, r, p)] = Asked(b[p])
      /\ \A q \in 1..Size(j, r, b) :
              \/ q \in 1..Len(j)
              \/ \E p \in 1..Len(r) : q = OnWire(j, p)
              \/ \E p \in 1..Len(b) : q = AsAsk(j, r, p)
  BY <1>1, LineAll
<1> HIDE DEF L, M
<1>4. /\ \A i \in 1..Len(w) : r[i] = w[i]
      /\ \A i \in 1..Len(b) : i + d \in 1..Len(a) /\ b[i] = a[i + d]
      /\ \A i \in 1..k : Len(w) + i \in 1..Len(r)
  BY DEF Extends, Follows
<1>5. Size(j, w, a) = m + Len(a) /\ Size(j, r, b) = (Size(j, w, a) + k) - d
  BY DEF Size, Extends, Follows
<1>6. /\ \A i \in 1..Len(r) : OnWire(j, i) <= m => i \in 1..Len(w)
      /\ \A i \in 1..Len(r) : ~(OnWire(j, i) > m + k)
  BY DEF OnWire, Extends
<1>7. \A i \in 1..Len(b) : ~(AsAsk(j, r, i) <= m) /\ AsAsk(j, w, i + d) = (AsAsk(j, r, i) + d) - k
  BY DEF AsAsk, Extends, Follows
<1>8. ASSUME NEW q \in 1..Size(j, r, b), q <= m
      PROVE  M[q] = L[q]
  <2>1. CASE q \in 1..Len(j)
    BY <2>1, <1>2, <1>3
  <2>2. ASSUME NEW p \in 1..Len(r), q = OnWire(j, p)
        PROVE  M[q] = L[q]
    <3>1. p \in 1..Len(w)
      BY <1>6, <1>8, <2>2
    <3> QED BY <2>2, <3>1, <1>2, <1>3, <1>4
  <2>3. \A p \in 1..Len(b) : q # AsAsk(j, r, p)
    BY <1>7, <1>8
  <2> QED BY <2>1, <2>2, <2>3, <1>3
<1>9. ASSUME NEW q \in 1..Size(j, r, b), q > m + k
      PROVE  M[q] = L[(q + d) - k]
  <2>1. q \notin 1..Len(j)
    BY <1>9
  <2>2. \A p \in 1..Len(r) : q # OnWire(j, p)
    BY <1>6, <1>9
  <2>3. PICK p \in 1..Len(b) : q = AsAsk(j, r, p)
    BY <2>1, <2>2, <1>3
  <2>4. M[q] = Asked(b[p])
    BY <2>3, <1>3
  <2>5. AsAsk(j, w, p + d) = (q + d) - k /\ b[p] = a[p + d] /\ p + d \in 1..Len(a)
    BY <2>3, <1>4, <1>7
  <2>6. L[AsAsk(j, w, p + d)] = Asked(a[p + d])
    BY <2>5, <1>2
  <2> QED BY <2>4, <2>5, <2>6
<1>10. ASSUME NEW i \in 1..k
       PROVE  M[m + i] = Given(r[Len(w) + i])
  <2>1. OnWire(j, Len(w) + i) = m + i
    BY DEF OnWire
  <2>2. M[OnWire(j, Len(w) + i)] = Given(r[Len(w) + i])
    BY <1>3, <1>4
  <2> QED BY <2>1, <2>2
<1>11. ASSUME d = 1
       PROVE  L[m + 1] = Asked(a[1])
  <2>1. 1 \in 1..Len(a) /\ AsAsk(j, w, 1) = m + 1
    BY <1>11 DEF AsAsk, Follows
  <2> QED BY <2>1, <1>2
<1> QED BY <1>1, <1>5, <1>8, <1>9, <1>10, <1>11 DEF L, M, Answering

(* The first job goes.                                                     *)
LEMMA LineWorks ==
  ASSUME NEW j, NEW w, NEW a, NEW i,
         Len(j) \in Nat, Len(w) \in Nat, Len(a) \in Nat, Follows(i, j, 1)
  PROVE  /\ Size(j, w, a) = Size(i, w, a) + 1
         /\ \A q \in 1..Size(i, w, a) : Line(i, w, a)[q] = Line(j, w, a)[q + 1]
         /\ Line(j, w, a)[1] = Given(j[1])
<1> USE DEF Follows
<1>1. Size(j, w, a) = Size(i, w, a) + 1 /\ 1 \in 1..Len(j)
  BY DEF Size
<1>2. /\ \A p \in 1..Len(i) : p + 1 \in 1..Len(j)
      /\ \A p \in 1..Len(w) : OnWire(j, p) = OnWire(i, p) + 1
      /\ \A p \in 1..Len(a) : AsAsk(j, w, p) = AsAsk(i, w, p) + 1
  BY DEF OnWire, AsAsk
<1>3. ASSUME NEW q \in 1..Size(i, w, a)
      PROVE  Line(i, w, a)[q] = Line(j, w, a)[q + 1]
  <2>1. CASE q \in 1..Len(i)
    <3> DEFINE o == q + 1
    <3>1. o \in 1..Len(j) /\ i[q] = j[o]
      BY <2>1, <1>2
    <3> HIDE DEF o
    <3>2. Line(i, w, a)[q] = Given(i[q])
      BY <2>1, LineJob
    <3>3. Line(j, w, a)[o] = Given(j[o])
      BY <3>1, LineJob
    <3> QED BY <3>1, <3>2, <3>3 DEF o
  <2>2. ASSUME NEW p \in 1..Len(w), q = OnWire(i, p)
        PROVE  Line(i, w, a)[q] = Line(j, w, a)[q + 1]
    <3>1. Line(i, w, a)[OnWire(i, p)] = Given(w[p])
      BY LineWire
    <3>2. Line(j, w, a)[OnWire(j, p)] = Given(w[p])
      BY LineWire
    <3> QED BY <2>2, <3>1, <3>2, <1>2
  <2>3. ASSUME NEW p \in 1..Len(a), q = AsAsk(i, w, p)
        PROVE  Line(i, w, a)[q] = Line(j, w, a)[q + 1]
    <3>1. Line(i, w, a)[AsAsk(i, w, p)] = Asked(a[p])
      BY LineAsk
    <3>2. Line(j, w, a)[AsAsk(j, w, p)] = Asked(a[p])
      BY LineAsk
    <3> QED BY <2>3, <3>1, <3>2, <1>2
  <2> QED BY <2>1, <2>2, <2>3, LineSlot
<1>4. Line(j, w, a)[1] = Given(j[1])
  BY <1>1, LineJob
<1> QED BY <1>1, <1>3, <1>4

(* The first of the wire goes.                                             *)
Losing(j, w, a, r) ==
  /\ Size(j, w, a) = Size(j, r, a) + 1
  /\ Len(j) + 1 \in 1..Size(j, w, a)
  /\ \A q \in 1..Size(j, r, a) :
       /\ q <= Len(j) => Line(j, r, a)[q] = Line(j, w, a)[q]
       /\ q > Len(j) => Line(j, r, a)[q] = Line(j, w, a)[q + 1]
  /\ Line(j, w, a)[Len(j) + 1] = Given(w[1])

LEMMA LineLoses ==
  ASSUME NEW j, NEW w, NEW a, NEW r,
         Len(j) \in Nat, Len(w) \in Nat, Len(a) \in Nat, Follows(r, w, 1)
  PROVE  Losing(j, w, a, r)
<1> USE DEF Follows
<1>1. /\ Size(j, w, a) = Size(j, r, a) + 1 /\ 1 \in 1..Len(w)
      /\ Len(j) + 1 \in 1..Size(j, w, a) /\ OnWire(j, 1) = Len(j) + 1
  BY DEF Size, OnWire
<1>2. /\ \A p \in 1..Len(r) : p + 1 \in 1..Len(w) /\ OnWire(j, p + 1) = OnWire(j, p) + 1
      /\ \A p \in 1..Len(r) : OnWire(j, p) > Len(j) /\ OnWire(j, p) \in Nat
      /\ \A p \in 1..Len(a) : AsAsk(j, w, p) = AsAsk(j, r, p) + 1 /\ AsAsk(j, r, p) > Len(j)
  BY DEF OnWire, AsAsk
<1>7. \A p \in 1..Len(r) : r[p] = w[p + 1]
  OBVIOUS
<1> HIDE DEF Follows
<1>3. ASSUME NEW q \in 1..Len(j)
      PROVE  Line(j, r, a)[q] = Line(j, w, a)[q]
  <2>1. Line(j, w, a)[q] = Given(j[q])
    BY LineJob
  <2>2. Line(j, r, a)[q] = Given(j[q])
    BY LineJob
  <2> QED BY <2>1, <2>2
<1>4. ASSUME NEW q \in 1..Size(j, r, a), q \notin 1..Len(j)
      PROVE  Line(j, r, a)[q] = Line(j, w, a)[q + 1]
  <2>1. ASSUME NEW p \in 1..Len(r), q = OnWire(j, p)
        PROVE  Line(j, r, a)[q] = Line(j, w, a)[q + 1]
    <3> DEFINE o == p + 1
    <3>1. o \in 1..Len(w) /\ r[p] = w[o] /\ OnWire(j, o) = q + 1
      BY <2>1, <1>2, <1>7
    <3> HIDE DEF o
    <3>2. Line(j, r, a)[q] = Given(r[p])
      BY <2>1, LineWire
    <3>3. Line(j, w, a)[OnWire(j, o)] = Given(w[o])
      BY <3>1, LineWire
    <3> QED BY <3>1, <3>2, <3>3
  <2>2. ASSUME NEW p \in 1..Len(a), q = AsAsk(j, r, p)
        PROVE  Line(j, r, a)[q] = Line(j, w, a)[q + 1]
    <3>1. Line(j, r, a)[AsAsk(j, r, p)] = Asked(a[p])
      BY LineAsk
    <3>2. Line(j, w, a)[AsAsk(j, w, p)] = Asked(a[p])
      BY LineAsk
    <3> QED BY <2>2, <3>1, <3>2, <1>2
  <2> QED BY <2>1, <2>2, <1>4, LineSlot
<1>5. Line(j, w, a)[Len(j) + 1] = Given(w[1])
  <2>1. Line(j, w, a)[OnWire(j, 1)] = Given(w[1])
    BY <1>1, LineWire
  <2> QED BY <2>1, <1>1
<1>6. \A q \in 1..Size(j, r, a) : (q <= Len(j) <=> q \in 1..Len(j)) /\ (q > Len(j) <=> q \notin 1..Len(j))
  OBVIOUS
<1> QED BY <1>1, <1>3, <1>4, <1>5, <1>6 DEF Losing

(* The first of the wire becomes the last of the jobs.                     *)
LEMMA LineReads ==
  ASSUME NEW j, NEW w, NEW a, NEW i, NEW r,
         Len(j) \in Nat, Len(w) \in Nat, Len(a) \in Nat,
         Extends(i, j, 1), i[Len(j) + 1] = w[1], Follows(r, w, 1)
  PROVE  Line(i, r, a) = Line(j, w, a) /\ Size(i, r, a) = Size(j, w, a)
<1> USE DEF Extends, Follows
<1>1. Len(i) \in Nat /\ Size(i, r, a) = Size(j, w, a)
  BY DEF Size
<1>0. Len(r) \in Nat /\ \A p \in 1..Len(r) : r[p] = w[p + 1]
  OBVIOUS
<1>2. /\ \A p \in 1..Len(i) : p \in 1..Len(j) \/ p = Len(j) + 1
      /\ 1 \in 1..Len(w) /\ OnWire(j, 1) = Len(j) + 1
      /\ Len(j) + 1 \in 1..Len(i)
      /\ \A p \in 1..Len(r) : p + 1 \in 1..Len(w) /\ OnWire(j, p + 1) = OnWire(i, p)
      /\ \A p \in 1..Len(a) : AsAsk(i, r, p) = AsAsk(j, w, p)
  BY DEF OnWire, AsAsk
<1>3. ASSUME NEW q \in 1..Size(i, r, a)
      PROVE  Line(i, r, a)[q] = Line(j, w, a)[q]
  <2>1. CASE q \in 1..Len(j)
    <3>1. q \in 1..Len(i)
      BY <2>1
    <3>2. Line(i, r, a)[q] = Given(i[q])
      BY <3>1, <1>1, LineJob
    <3>3. Line(j, w, a)[q] = Given(j[q])
      BY <2>1, LineJob
    <3> QED BY <2>1, <3>2, <3>3
  <2>2. CASE q = Len(j) + 1
    <3>1. Line(i, r, a)[q] = Given(i[q])
      BY <2>2, <1>1, <1>2, LineJob
    <3>2. Line(j, w, a)[OnWire(j, 1)] = Given(w[1])
      BY <1>2, LineWire
    <3> QED BY <2>2, <3>1, <3>2, <1>2
  <2>3. ASSUME NEW p \in 1..Len(r), q = OnWire(i, p)
        PROVE  Line(i, r, a)[q] = Line(j, w, a)[q]
    <3> DEFINE o == p + 1
    <3>1. o \in 1..Len(w) /\ r[p] = w[o] /\ OnWire(j, o) = q
      BY <2>3, <1>0, <1>2
    <3> HIDE DEF o, Follows, Extends
    <3>2. Line(i, r, a)[q] = Given(r[p])
      BY <2>3, <1>0, <1>1, LineWire
    <3>3. Line(j, w, a)[OnWire(j, o)] = Given(w[o])
      BY <3>1, LineWire
    <3> QED BY <3>1, <3>2, <3>3
  <2>4. ASSUME NEW p \in 1..Len(a), q = AsAsk(i, r, p)
        PROVE  Line(i, r, a)[q] = Line(j, w, a)[q]
    <3>1. Line(i, r, a)[q] = Asked(a[p])
      BY <2>4, <1>1, LineAsk
    <3>2. Line(j, w, a)[AsAsk(j, w, p)] = Asked(a[p])
      BY LineAsk
    <3> QED BY <2>4, <3>1, <3>2, <1>2
  <2> QED BY <2>1, <2>2, <2>3, <2>4, <1>1, <1>2, LineSlot
<1>4. /\ Line(i, r, a) = [q \in 1..Size(i, r, a) |-> Line(i, r, a)[q]]
      /\ Line(j, w, a) = [q \in 1..Size(j, w, a) |-> Line(j, w, a)[q]]
  <2>1. \A x, y, z : Line(x, y, z) = [q \in 1..Size(x, y, z) |-> Line(x, y, z)[q]]
    BY DEF Line
  <2> QED BY <2>1
<1>5. Line(i, r, a) = Line(j, w, a)
  BY <1>1, <1>3, <1>4
<1> QED BY <1>1, <1>5

-----------------------------------------------------------------------------
(* The queues and the client, as they are at some moment.                  *)
Queued(j, w, st, lg, k) ==
  /\ k \in Nat /\ j \in Seq(Packets(k)) /\ w \in Seq(Packets(k))
  /\ \A i \in DOMAIN j : PacketOK(j[i], k)
  /\ \A i \in DOMAIN w : PacketOK(w[i], k)
  /\ st \in [Sends -> 0..k] /\ lg \in SUBSET (1..k)
Clear(c, k) == c \in Clients(k) /\ WaitsOK(c)

LEMMA ViewIs ==
  ASSUME NEW j, NEW w, NEW c, NEW st, NEW lg, NEW k, Queued(j, w, st, lg, k), Clear(c, k)
  PROVE  /\ ViewOK(View(j, w, c, st, lg, k))
         /\ c.asks \in Seq(Asks) /\ Len(j) \in Nat /\ Len(w) \in Nat /\ Len(c.asks) \in Nat
         /\ c.waits \in Seq(Waits) /\ c.check \in [Sends -> Stages]
<1>1. c.waits \in Seq(Waits) /\ c.check \in [Sends -> Stages]
  BY DEF Clear, Clients, Stages
<1>2. /\ k \in Nat /\ j \in Seq(Packets(k)) /\ w \in Seq(Packets(k))
      /\ \A i \in DOMAIN j : PacketOK(j[i], k)
      /\ \A i \in DOMAIN w : PacketOK(w[i], k)
      /\ st \in [Sends -> 0..k] /\ lg \in SUBSET (1..k)
      /\ c \in Clients(k) /\ WaitsOK(c)
  BY DEF Queued, Clear
<1> QED BY <1>1, <1>2, ViewTyped

LEMMA ViewSays ==
  ASSUME NEW j, NEW w, NEW c, NEW st, NEW lg, NEW k, NEW v, v = View(j, w, c, st, lg, k)
  PROVE  /\ v.size = Size(j, w, c.asks) /\ v.line = Line(j, w, c.asks)
         /\ v.waits = c.waits /\ v.check = c.check /\ v.withdrawn = c.withdrawn
         /\ v.after = c.after /\ v.stored = st /\ v.log = lg /\ v.last = k
         /\ Slots(v) = 1..Size(j, w, c.asks)
BY DEF View, Slots

(* The line and the waits stay: checks go on, and texts are taken back.     *)
LEMMA StageLined ==
  ASSUME NEW j, NEW w, NEW c, NEW d, NEW st, NEW lg, NEW k,
         Queued(j, w, st, lg, k), Clear(c, k), Clear(d, k),
         Lined(View(j, w, c, st, lg, k)),
         d.waits = c.waits, d.asks = c.asks,
         \A n \in Sends : c.check[n] \notin Composing =>
            d.check[n] \notin Composing /\ d.after[n] = c.after[n],
         \A n \in d.withdrawn : n \in c.withdrawn \/ Gone(View(j, w, d, st, lg, k), n),
         Since(View(j, w, d, st, lg, k))
  PROVE  Lined(View(j, w, d, st, lg, k))
<1> DEFINE v == View(j, w, c, st, lg, k)
           u == View(j, w, d, st, lg, k)
<1>1. ViewOK(v) /\ ViewOK(u)
  BY ViewIs
<1>2. /\ v.size = Size(j, w, c.asks) /\ v.line = Line(j, w, c.asks)
      /\ v.waits = c.waits /\ v.check = c.check /\ v.withdrawn = c.withdrawn
      /\ v.after = c.after /\ v.stored = st /\ v.log = lg /\ v.last = k
  BY ViewSays
<1>3. /\ u.size = Size(j, w, c.asks) /\ u.line = Line(j, w, c.asks)
      /\ u.waits = c.waits /\ u.check = d.check /\ u.withdrawn = d.withdrawn
      /\ u.after = d.after /\ u.stored = st /\ u.log = lg /\ u.last = k
  BY ViewSays
<1>4. Lined(v) /\ Since(u) /\ \A n \in u.withdrawn : n \in v.withdrawn \/ Gone(u, n)
  BY <1>2, <1>3
<1> HIDE DEF v, u
<1>5. Slots(u) = Slots(v)
  BY <1>2, <1>3 DEF Slots
<1>6. Later(v, u)
  <2>1. k <= k
    BY DEF Queued
  <2> QED BY <1>2, <1>3, <1>5, <2>1 DEF Later
<1>7. Splices(v, u, 1, 0, 0)
  <2>1. v.size \in Nat
    BY <1>1 DEF ViewOK
  <2>2. u.size = (v.size + 0) - 0 /\ 1 \in 1..((v.size + 1) - 0)
    BY <1>2, <1>3, <2>1
  <2>3. \A q \in Slots(u) : q \in Nat /\ ~(q < 1) /\ (q + 0) - 0 = q /\ ~(1 <= q /\ q < 1 + 0)
    BY <1>5, <2>1 DEF Slots
  <2>4. u.line = v.line
    BY <1>2, <1>3
  <2> QED BY <1>5, <2>2, <2>3, <2>4 DEF Splices
<1>8. Lined(u)
  BY <1>1, <1>2, <1>3, <1>4, <1>6, <1>7, LineSplices
<1> QED BY <1>8 DEF u

(* A page is asked for, and waited for.                                    *)
LEMMA AskLined ==
  ASSUME NEW j, NEW w, NEW c, NEW d, NEW st, NEW lg, NEW k,
         Queued(j, w, st, lg, k), Clear(c, k), Clear(d, k),
         Lined(View(j, w, c, st, lg, k)),
         NEW a \in Asks, a.t = "page", NEW x \in Waits, AnswersTo(x, Asked(a)),
         d.asks = Append(c.asks, a), d.waits = Append(c.waits, x),
         d.withdrawn = c.withdrawn, d.after = c.after,
         \A n \in Sends : c.check[n] \notin Composing => d.check[n] \notin Composing,
         x.by = "check" =>
           /\ x.arg \in Sends /\ d.check[x.arg] \notin Composing
           /\ \/ Gone(View(j, w, c, st, lg, k), x.arg)
              \/ /\ a.limit = CheckLimit /\ a.mode \in {"latest", "after"}
                 /\ a.mode = "latest" => c.after[x.arg] = 0
                 /\ a.mode = "after" =>
                      /\ a.id <= k /\ (st[x.arg] # 0 => a.id < st[x.arg])
                      /\ Further(View(j, w, c, st, lg, k), x.arg, x.page - 1, a.id)
  PROVE  Lined(View(j, w, d, st, lg, k))
<1> DEFINE v == View(j, w, c, st, lg, k)
           u == View(j, w, d, st, lg, k)
<1>1. /\ ViewOK(v) /\ ViewOK(u) /\ c.asks \in Seq(Asks) /\ Len(j) \in Nat /\ Len(w) \in Nat
      /\ Len(c.asks) \in Nat
  BY ViewIs
<1>2. /\ v.size = Size(j, w, c.asks) /\ v.line = Line(j, w, c.asks)
      /\ v.waits = c.waits /\ v.check = c.check /\ v.withdrawn = c.withdrawn
      /\ v.stored = st /\ v.log = lg /\ v.last = k /\ v.after = c.after
      /\ Slots(v) = 1..Size(j, w, c.asks)
  BY ViewSays
<1>3. /\ u.size = Size(j, w, d.asks) /\ u.line = Line(j, w, d.asks)
      /\ u.waits = d.waits /\ u.check = d.check /\ u.withdrawn = c.withdrawn
      /\ u.stored = st /\ u.log = lg /\ u.last = k /\ u.after = c.after
  <2>1. /\ u.size = Size(j, w, d.asks) /\ u.line = Line(j, w, d.asks)
        /\ u.waits = d.waits /\ u.check = d.check /\ u.withdrawn = d.withdrawn
        /\ u.stored = st /\ u.log = lg /\ u.last = k /\ u.after = d.after
    BY DEF View
  <2> HIDE DEF u
  <2> QED BY <2>1
<1>4. Lined(v)
  OBVIOUS
<1>6. d.asks = Append(c.asks, a) /\ u.waits = Append(v.waits, x)
  BY <1>2, <1>3
<1> HIDE DEF v, u
<1>7. /\ Len(d.asks) = Len(c.asks) + 1 /\ d.asks[Len(c.asks) + 1] = a
      /\ \A i \in 1..Len(c.asks) : d.asks[i] = c.asks[i]
  BY <1>1, <1>6, AppendProperties
<1>8. /\ u.size = v.size + 1 /\ u.line[v.size + 1] = Asked(a)
      /\ \A p \in Slots(v) : u.line[p] = v.line[p]
  <2>1. /\ Size(j, w, d.asks) = Size(j, w, c.asks) + 1
        /\ \A q \in 1..Size(j, w, c.asks) : Line(j, w, d.asks)[q] = Line(j, w, c.asks)[q]
        /\ Line(j, w, d.asks)[Size(j, w, c.asks) + 1] = Asked(d.asks[Len(c.asks) + 1])
    <3> DEFINE b == d.asks
               e == c.asks
    <3>1. /\ Len(b) = Len(e) + 1 /\ \A i \in 1..Len(e) : b[i] = e[i]
          /\ Len(j) \in Nat /\ Len(w) \in Nat /\ Len(e) \in Nat
      BY <1>1, <1>7
    <3> HIDE DEF b, e
    <3>2. /\ Size(j, w, b) = Size(j, w, e) + 1
          /\ \A q \in 1..Size(j, w, e) : Line(j, w, b)[q] = Line(j, w, e)[q]
          /\ Line(j, w, b)[Size(j, w, e) + 1] = Asked(b[Len(e) + 1])
      <4>1. Extends(b, e, 1)
        BY <3>1 DEF Extends
      <4>2. Growing(j, w, e, b)
        BY <3>1, <4>1, LineGrows
      <4> QED BY <4>2 DEF Growing
    <3> QED BY <3>2 DEF b, e
  <2> QED BY <2>1, <1>2, <1>3, <1>7
<1>9. /\ u.line[v.size + 1].asked /\ u.line[v.size + 1].of = a
      /\ u.line[v.size + 1].of.t = "page"
      /\ \A n : ~Sending(u.line[v.size + 1], n)
  BY <1>8 DEF Asked, Sending
<1>10. v.size \in Nat
  BY <1>1 DEF ViewOK
<1>11. /\ \A q \in Slots(u) : q \in Slots(v) \/ q = v.size + 1
       /\ \A q \in Slots(v) : q < v.size + 1
       /\ v.size + 1 \in Slots(u)
  BY <1>8, <1>10 DEF Slots
<1>12. Later(v, u)
  <2>1. k <= k
    BY DEF Queued
  <2>2. \A n \in Sends, q \in Slots(u) : Sending(u.line[q], n) =>
           \E p \in Slots(v) : Sending(v.line[p], n)
    BY <1>8, <1>9, <1>11
  <2> QED BY <1>2, <1>3, <2>1, <2>2 DEF Later
<1>13. Fits(u, x, v.size + 1)
  <2>1. ASSUME x.by = "check"
        PROVE  u.check[x.arg] \notin Composing /\ Asking(u, x, v.size + 1)
    <3>0. CASE Gone(v, x.arg)
      BY <2>1, <1>1, <1>3, <1>12, <3>0, GoneStays DEF Asking
    <3>1. \A q \in Slots(u) : Sending(u.line[q], x.arg) => q < v.size + 1
      BY <1>9, <1>11
    <3> SUFFICES ASSUME ~Gone(v, x.arg)
                 PROVE  u.check[x.arg] \notin Composing /\ Begins(u, x, v.size + 1)
      BY <3>0 DEF Asking
    <3>2. a.mode = "after" =>
            /\ a.id <= u.last /\ (u.stored[x.arg] # 0 => a.id < u.stored[x.arg])
            /\ Further(v, x.arg, x.page - 1, a.id)
      BY <2>1, <1>3 DEF v
    <3>3. a.mode = "after" => Further(u, x.arg, x.page - 1, a.id)
      BY <3>2, <1>2, <1>3 DEF Further
    <3>4. /\ a.limit = CheckLimit /\ a.mode \in {"latest", "after"}
          /\ a.mode = "latest" => u.after[x.arg] = 0
          /\ u.check[x.arg] \notin Composing
      BY <2>1, <1>3 DEF v
    <3> QED BY <1>9, <3>1, <3>2, <3>3, <3>4 DEF Begins
  <2>2. AnswersTo(x, u.line[v.size + 1])
    BY <1>8
  <2> QED BY <1>9, <2>1, <2>2 DEF Fits
<1>14. Since(u)
  BY <1>2, <1>3, <1>4 DEF Lined, Since
<1>15. \A n \in u.withdrawn : n \in v.withdrawn \/ Gone(u, n)
  BY <1>2, <1>3
<1>16. Lined(u)
  BY <1>1, <1>4, <1>6, <1>8, <1>9, <1>12, <1>13, <1>14, <1>15, LineAsks
<1> QED BY <1>16 DEF u

-----------------------------------------------------------------------------
(* What checks depend on, and most mutators leave alone.                   *)
Same(c, d) ==
  /\ d.waits = c.waits /\ d.asks = c.asks /\ d.check = c.check
  /\ d.withdrawn = c.withdrawn /\ d.after = c.after

LEMMA SameView ==
  ASSUME NEW c, NEW d, Same(c, d), NEW j, NEW w, NEW st, NEW lg, NEW k
  PROVE  View(j, w, d, st, lg, k) = View(j, w, c, st, lg, k)
BY DEF Same, View

LEMMA HoldLiveSame ==
  ASSUME NEW c, Sound(c), NEW id, NEW n
  PROVE  Same(c, HoldLive(c, id, n))
<1>1. CASE c.lapsed
  BY <1>1 DEF HoldLive, Same
<1>2. CASE ~c.lapsed /\ Cardinality(c.held) >= HeldCap
  BY <1>2 DEF HoldLive, Sound, Clients, Same
<1>3. CASE ~c.lapsed /\ ~(Cardinality(c.held) >= HeldCap)
  BY <1>3 DEF HoldLive, Sound, Clients, Same
<1> QED BY <1>1, <1>2, <1>3

LEMMA AddMessageSame ==
  ASSUME NEW c, Sound(c), NEW id, NEW n
  PROVE  Same(c, AddMessage(c, id, n))
<1> DEFINE merged == [WithoutBubbles(c, {n}) EXCEPT !.rows = @ \cup {id}, !.cached = TRUE]
           kept == KeepNewest(merged.rows, BackgroundCap - Cardinality(Bubbles(merged)))
           over == Cardinality(merged.rows) + Cardinality(Bubbles(merged)) > BackgroundCap
           low == [merged EXCEPT !.rows = kept, !.older = TRUE]
<1>1. AddMessage(c, id, n) =
          IF c.newer THEN IF c.resyncing THEN HoldLive(c, id, n) ELSE c
          ELSE IF c.shown THEN merged
          ELSE IF ~c.cached /\ ~c.loading THEN c
          ELSE IF ~over THEN merged
          ELSE IF c.saved = "up" /\ Bubbles(merged) = {} THEN [c EXCEPT !.newer = TRUE]
          ELSE low
  BY DEF AddMessage
<1>2. Same(c, merged)
  BY DEF WithoutBubbles, Sound, Clients, Same
<1> HIDE DEF kept, over
<1>3. Same(c, low)
  BY DEF WithoutBubbles, Sound, Clients, Same
<1>4. Same(c, c) /\ Same(c, [c EXCEPT !.newer = TRUE])
  BY DEF Sound, Clients, Same
<1> HIDE DEF merged, low
<1> QED BY <1>1, <1>2, <1>3, <1>4, HoldLiveSame

(* A page settles every bubble whose row it holds.                         *)
PageSame(c, d, page) ==
  /\ Same(c, d) /\ DOMAIN d = DOMAIN c
  /\ \A n \in Sends : stored[n] \in page => d.bubble[n] = "none"

LEMMA ReleaseHeldSame ==
  ASSUME NEW c, Sound(c), NEW d, NEW page, PageSame(c, d, page)
  PROVE  PageSame(c, ReleaseHeld(d), page)
BY DEF PageSame, ReleaseHeld, WithoutBubbles, Sound, Clients, Same

LEMMA PrependHistorySame ==
  ASSUME NEW c, Sound(c), NEW p \in Packets(last), stored \in [Sends -> 0..last]
  PROVE  PageSame(c, PrependHistory(c, p), p.rows)
<1> DEFINE m == MergeOlder(c.rows, p.rows \ c.deleting, p.mode = "latest")
           older == IF m.headExtended THEN p.more ELSE c.older
           newer == IF m.reachedNewest THEN FALSE ELSE c.newer
           merged == [WithoutBubbles(c, Settled(c, p.rows)) EXCEPT
                        !.rows = m.rows, !.cached = TRUE, !.older = older, !.newer = newer]
<1>1. PrependHistory(c, p) \in {merged, ReleaseHeld(merged)}
  BY DEF PrependHistory, m, WithoutBubbles, Sound, Clients
<1> HIDE DEF m, older, newer
<1>2. PageSame(c, merged, p.rows)
  BY DEF PageSame, WithoutBubbles, Settled, Bubbles, Sound, Clients, Same
<1> HIDE DEF merged
<1> QED BY <1>1, <1>2, ReleaseHeldSame

LEMMA AppendNewerSame ==
  ASSUME NEW c, Sound(c), NEW p \in Packets(last), stored \in [Sends -> 0..last]
  PROVE  PageSame(c, AppendNewer(c, p), p.rows)
<1> DEFINE m == MergeNewer(c.rows, p.rows \ c.deleting, p.cur)
           base == WithoutBubbles(c, Settled(c, p.rows))
           some == base.cached \/ m.applied
           more == IF m.applied THEN base.newer /\ p.newer ELSE base.newer
           merged == [base EXCEPT !.rows = m.rows, !.cached = some, !.newer = more]
<1>1. AppendNewer(c, p) \in {merged, ReleaseHeld(merged)}
  BY DEF AppendNewer, m
<1> HIDE DEF m, some, more
<1>2. PageSame(c, merged, p.rows)
  BY DEF PageSame, WithoutBubbles, Settled, Bubbles, Sound, Clients, Same
<1> HIDE DEF merged
<1> QED BY <1>1, <1>2, ReleaseHeldSame

LEMMA SetChannelWindowSame ==
  ASSUME NEW c, Sound(c), NEW p \in Packets(last)
  PROVE  PageSame(c, SetChannelWindow(c, p), p.rows)
BY DEF PageSame, SetChannelWindow, WithoutBubbles, Sound, Clients, Same

LEMMA RemoveMessageSame ==
  ASSUME NEW c, Sound(c), NEW id
  PROVE  /\ Same(c, RemoveMessage(c, id)) /\ Same(c, RestorePendingDeletion(c, id))
         /\ Same(c, [c EXCEPT !.deleting = @ \ {id}])
<1>1. Same(c, RemoveMessage(c, id)) /\ Same(c, [c EXCEPT !.deleting = @ \ {id}])
  BY DEF RemoveMessage, Sound, Clients, Same
<1>2. Same(c, RestorePendingDeletion(c, id))
  BY DEF RestorePendingDeletion, Sound, Clients, Same
<1> QED BY <1>1, <1>2

LEMMA LoadEndsSame ==
  ASSUME NEW c, Sound(c)
  PROVE  /\ Same(c, LoadEnds(c)) /\ Same(c, Dropped(c)) /\ Same(c, JumpLands(c))
         /\ Same(c, ResyncOver(c))
<1>1. Same(c, Dropped(c)) /\ Same(c, JumpLands(c))
  BY DEF Dropped, JumpLands, WithoutBubbles, Sound, Clients, Same
<1>2. Same(c, LoadEnds(c))
  BY DEF LoadEnds, ResyncOver, SetResyncing, Sound, Clients, Same
<1>3. Same(c, ResyncOver(c))
  BY DEF ResyncOver, SetResyncing, Sound, Clients, Same
<1> QED BY <1>1, <1>2, <1>3

-----------------------------------------------------------------------------
(* What the mutators of a handler do to the view, one after another.  The  *)
(* jobs are those that are left when it runs.                              *)
Seen(j, c) == View(j, wire, c, stored, log, last)
Waited(j, c) == Queued(j, wire, stored, log, last) /\ Sound(c) /\ Lined(Seen(j, c))

LEMMA SameWaited ==
  ASSUME NEW j, NEW c, NEW d, Waited(j, c), Same(c, d), Sound(d)
  PROVE  Waited(j, d)
BY SameView DEF Waited, Seen

LEMMA TrackWaited ==
  ASSUME NEW j, NEW c, Waited(j, c), NEW a \in Asks, a.t = "page", NEW x \in Waits,
         AnswersTo(x, Asked(a)),
         x.by = "check" =>
           /\ x.arg \in Sends /\ c.check[x.arg] \notin Composing
           /\ \/ Gone(Seen(j, c), x.arg)
              \/ /\ a.limit = CheckLimit /\ a.mode \in {"latest", "after"}
                 /\ a.mode = "latest" => c.after[x.arg] = 0
                 /\ a.mode = "after" =>
                      /\ a.id <= last /\ (stored[x.arg] # 0 => a.id < stored[x.arg])
                      /\ Further(Seen(j, c), x.arg, x.page - 1, a.id)
  PROVE  Waited(j, Track(c, a, x))
<1> DEFINE d == Track(c, a, x)
<1>1. Sound(c) /\ Queued(j, wire, stored, log, last) /\ Lined(View(j, wire, c, stored, log, last))
  BY DEF Waited, Seen
<1>2. WaitOK(c, x)
  BY DEF WaitOK, Composing
<1>3. Sound(d)
  BY <1>1, <1>2, TrackTo
<1>4. /\ d.asks = Append(c.asks, a) /\ d.waits = Append(c.waits, x)
      /\ d.withdrawn = c.withdrawn /\ d.after = c.after /\ d.check = c.check
  BY <1>1 DEF Track, Sound, Clients
<1> HIDE DEF d
<1>6. Clear(c, last) /\ Clear(d, last)
  BY <1>1, <1>3 DEF Clear, Sound
<1>7. Lined(View(j, wire, d, stored, log, last))
  BY <1>1, <1>4, <1>6, AskLined DEF Seen
<1>8. Waited(j, d)
  BY <1>1, <1>3, <1>7 DEF Waited, Seen
<1> QED BY <1>8 DEF d

LEMMA AskWaited ==
  ASSUME NEW j, NEW c, Waited(j, c), NEW mode \in Modes, NEW cur \in Nat, NEW limit \in Nat,
         NEW by \in {"latest", "older", "newer", "jump"}, NEW arg \in Nat
  PROVE  Waited(j, Ask(c, mode, cur, limit, by, arg))
<1> DEFINE a == Request(mode, cur, limit)
           x == WaitOn(mode, cur, by, arg)
<1>1. a \in Asks /\ a.t = "page" /\ x \in Waits /\ x.by # "check"
  BY FirstPage DEF Request, WaitOn, Asks, Waits, Modes
<1>2. AnswersTo(x, Asked(a))
  BY DEF Request, WaitOn, AnswersTo, Asked, Modes
<1>3. Ask(c, mode, cur, limit, by, arg) = Track(c, a, x)
  BY DEF Ask
<1> HIDE DEF a, x
<1> QED BY <1>1, <1>2, <1>3, TrackWaited

LEMMA LoadLatestWaited ==
  ASSUME NEW j, NEW c, Waited(j, c), up
  PROVE  Waited(j, LoadLatest(c))
<1> DEFINE d == [c EXCEPT !.loading = TRUE, !.load = "asked"]
<1>1. Sound(c)
  BY DEF Waited
<1>2. d \in Clients(last) /\ Same(c, d)
  BY <1>1 DEF Sound, Clients, Same
<1>3. LoadLatest(c) \in {c, ResyncOver(c), Ask(d, "latest", 0, PageLimit, "latest", 0)}
  BY DEF LoadLatest
<1> HIDE DEF d
<1>4. Sound(d) /\ Sound(ResyncOver(c))
  BY <1>1, <1>2, ResyncOverTo DEF Sound, Same, WaitsOK, WaitOK, To
<1>5. Waited(j, d) /\ Waited(j, ResyncOver(c))
  BY <1>1, <1>2, <1>4, SameWaited, LoadEndsSame
<1>6. Waited(j, Ask(d, "latest", 0, PageLimit, "latest", 0))
  BY <1>5, AskWaited, BoundsAssumption DEF Modes
<1> QED BY <1>3, <1>5, <1>6

(* A check that has begun goes to another stage; a text is taken back when  *)
(* the server does not have it.                                            *)
LEMMA StageWaited ==
  ASSUME NEW j, NEW c, Waited(j, c), NEW n \in Sends, c.check[n] \notin Composing,
         NEW s \in {"asking", "off", "waiting"}
  PROVE  /\ Waited(j, [c EXCEPT !.check[n] = s])
         /\ Gone(Seen(j, c), n) => Waited(j, Withdraw(c, n))
<1>1. /\ Sound(c) /\ Queued(j, wire, stored, log, last)
      /\ Lined(View(j, wire, c, stored, log, last)) /\ Clear(c, last)
  BY DEF Waited, Seen, Clear, Sound
<1> DEFINE v == View(j, wire, c, stored, log, last)
<1>2. ASSUME NEW d, Sound(d), d.waits = c.waits, d.asks = c.asks, d.after = c.after,
             \A m \in Sends : c.check[m] \notin Composing => d.check[m] \notin Composing,
             \A m \in d.withdrawn : m \in c.withdrawn \/ (m = n /\ Gone(v, n))
      PROVE  Waited(j, d)
  <2> DEFINE u == View(j, wire, d, stored, log, last)
  <2>1. /\ v.line = u.line /\ Slots(v) = Slots(u) /\ v.check = c.check /\ u.check = d.check
        /\ v.stored = u.stored /\ v.log = u.log /\ v.after = u.after /\ v.last = u.last
    BY <1>2 DEF View, Slots
  <2>2. Since(v)
    BY <1>1 DEF Lined
  <2> HIDE DEF v, u
  <2>3. Since(u)
    BY <2>1, <2>2 DEF Since
  <2>4. Gone(v, n) => Gone(u, n)
    BY <1>2, <2>1 DEF Gone, Landed, Reached
  <2>5. Clear(d, last)
    BY <1>2 DEF Clear, Sound
  <2>6. Lined(u)
    <3>1. \A m \in Sends : c.check[m] \notin Composing =>
            d.check[m] \notin Composing /\ d.after[m] = c.after[m]
      BY <1>2
    <3> QED BY <1>1, <1>2, <2>3, <2>4, <2>5, <3>1, StageLined DEF u
  <2> QED BY <1>1, <1>2, <2>6 DEF Waited, Seen, u
<1> HIDE DEF v
<1>3. c.check[n] # "new"
  BY DEF Composing
<1>4. Waited(j, [c EXCEPT !.check[n] = s])
  <2> DEFINE d == [c EXCEPT !.check[n] = s]
  <2>1. Sound(d)
    BY <1>1, <1>3, CheckTo DEF To
  <2>2. /\ d.waits = c.waits /\ d.asks = c.asks /\ d.after = c.after
        /\ d.withdrawn = c.withdrawn
        /\ \A m \in Sends : d.check[m] = IF m = n THEN s ELSE c.check[m]
    BY <1>1 DEF Sound, Clients
  <2> HIDE DEF d
  <2>3. \A m \in Sends : c.check[m] \notin Composing => d.check[m] \notin Composing
    BY <2>2 DEF Composing
  <2>4. Waited(j, d)
    BY <1>2, <2>1, <2>2, <2>3
  <2> QED BY <2>4 DEF d
<1>5. ASSUME Gone(v, n) PROVE Waited(j, Withdraw(c, n))
  <2> DEFINE d == Withdraw(c, n)
  <2>1. Sound(d)
    BY <1>1, <1>3, WithdrawTo DEF To
  <2>2. /\ d.waits = c.waits /\ d.asks = c.asks /\ d.after = c.after
        /\ d.withdrawn = c.withdrawn \cup {n}
        /\ \A m \in Sends : d.check[m] = IF m = n THEN "off" ELSE c.check[m]
    BY <1>1 DEF Withdraw, WithoutBubbles, Sound, Clients
  <2> HIDE DEF d
  <2>3. \A m \in Sends : c.check[m] \notin Composing => d.check[m] \notin Composing
    BY <2>2 DEF Composing
  <2>4. Waited(j, d)
    BY <1>2, <1>5, <2>1, <2>2, <2>3
  <2> QED BY <2>4 DEF d
<1> QED BY <1>4, <1>5 DEF v, Seen

LEMMA AskSinceWaited ==
  ASSUME NEW j, NEW c, Waited(j, c), NEW n \in Sends, c.check[n] \notin Composing,
         NEW from \in Nat, NEW page \in 1..CheckPages,
         \/ Gone(Seen(j, c), n)
         \/ /\ from = 0 => c.after[n] = 0
            /\ from # 0 => Further(Seen(j, c), n, page - 1, from)
            /\ from <= last /\ (stored[n] # 0 => from < stored[n])
  PROVE  Waited(j, AskSince(c, n, from, page))
<1> DEFINE d == [c EXCEPT !.check[n] = "asking"]
<1>1. Waited(j, d)
  BY StageWaited
<1>2. /\ d.check[n] = "asking" /\ d.after = c.after
      /\ Gone(Seen(j, c), n) => Gone(Seen(j, d), n)
      /\ Further(Seen(j, c), n, page - 1, from) => Further(Seen(j, d), n, page - 1, from)
  <2>1. /\ d.check[n] = "asking" /\ d.asks = c.asks /\ d.after = c.after
    BY DEF Waited, Sound, Clients
  <2> DEFINE v == Seen(j, c)
             u == Seen(j, d)
  <2>2. /\ v.line = u.line /\ Slots(v) = Slots(u) /\ u.check = d.check
        /\ v.stored = u.stored /\ v.log = u.log /\ v.after = u.after
    BY <2>1 DEF Seen, View, Slots
  <2> HIDE DEF v, u, d
  <2>3. Gone(v, n) => Gone(u, n)
    BY <2>1, <2>2 DEF Gone, Landed, Composing, Reached
  <2>4. Further(v, n, page - 1, from) => Further(u, n, page - 1, from)
    BY <2>2 DEF Further
  <2> QED BY <2>1, <2>3, <2>4 DEF v, u
<1> DEFINE a == Request(SinceMode(from), from, CheckLimit)
           x == CheckOn(n, from, page)
<1>3. AskSince(c, n, from, page) = Track(d, a, x)
  BY DEF AskSince
<1>4. /\ a \in Asks /\ a.t = "page" /\ a.limit = CheckLimit /\ a.id = from
      /\ a.mode \in {"latest", "after"} /\ a.mode = IF from = 0 THEN "latest" ELSE "after"
      /\ x \in Waits /\ x.by = "check" /\ x.arg = n /\ x.page = page
  BY CheckAsks
<1>5. AnswersTo(x, Asked(a))
  BY DEF SinceMode, Request, CheckOn, WaitOn, AnswersTo, Asked
<1> HIDE DEF d, a, x
<1>6. d.check[n] \notin Composing
  BY <1>2 DEF Composing
<1>7. \/ Gone(Seen(j, d), n)
      \/ /\ a.limit = CheckLimit /\ a.mode \in {"latest", "after"}
         /\ a.mode = "latest" => d.after[n] = 0
         /\ a.mode = "after" =>
              /\ a.id <= last /\ (stored[n] # 0 => a.id < stored[n])
              /\ Further(Seen(j, d), n, x.page - 1, a.id)
  BY <1>2, <1>4
<1>8. Waited(j, Track(d, a, x))
  BY <1>1, <1>4, <1>5, <1>6, <1>7, TrackWaited
<1> QED BY <1>3, <1>8

(* What a reply lets its caller do: go on above it, or withdraw a send the  *)
(* server does not have.                                                   *)
Answered(v, c, w, reply) ==
  /\ v.check[w.arg] \notin Composing
  /\ \/ c.bubble[w.arg] # "pending"
     \/ Gone(v, w.arg)
     \/ /\ reply.answered /\ w.mode = "after" /\ reply.newer /\ reply.newest > w.cur
        /\ reply.newest <= last /\ reply.newest < v.stored[w.arg]
        /\ Further(v, w.arg, w.page, reply.newest) /\ Landed(v, w.arg)

LEMMA ContinueWaited ==
  ASSUME NEW j, NEW c, Waited(j, c), NEW w \in Waits, WaitOK(c, w), NEW reply \in Replies,
         reply.newest \in 0..last, last \in Nat,
         w.by = "check" => Answered(Seen(j, c), c, w, reply)
  PROVE  Waited(j, Continue(c, w, reply))
<1>1. Sound(c) /\ Seen(j, c).check = c.check /\ Seen(j, c).stored = stored
  BY DEF Waited, Seen, View
<1>2. Sound(Continue(c, w, reply))
  BY <1>1, ContinueTo DEF To
<1>3. w.by \in {"latest", "older", "newer", "jump", "check"}
  BY DEF Waits
<1>4. ASSUME w.by # "check" PROVE Same(c, Continue(c, w, reply))
  <2>1. /\ Same(c, [c EXCEPT !.load = "delay"]) /\ Same(c, [c EXCEPT !.lastBefore = 0])
        /\ Same(c, [c EXCEPT !.lastAfter = 0]) /\ Same(c, c)
        /\ Same(c, [c EXCEPT !.jump = 0, !.loading = FALSE]) /\ Same(c, LoadEnds(c))
    BY <1>1, LoadEndsSame DEF Sound, Clients, Same
  <2>2. CASE w.by = "latest"
    BY <2>1, <2>2 DEF Continue
  <2>3. CASE w.by = "older"
    BY <2>1, <2>3 DEF Continue
  <2>4. CASE w.by = "newer"
    BY <2>1, <2>4 DEF Continue
  <2>5. CASE w.by = "jump"
    BY <2>1, <2>5 DEF Continue
  <2> QED BY <1>3, <1>4, <2>2, <2>3, <2>4, <2>5
<1>5. CASE w.by # "check"
  BY <1>2, <1>4, <1>5, SameWaited
<1>6. CASE w.by = "check"
  <2> DEFINE v == Seen(j, c)
  <2>1. /\ w.arg \in Sends /\ c.check[w.arg] \notin Composing
        /\ \/ c.bubble[w.arg] # "pending"
           \/ Gone(v, w.arg)
           \/ /\ reply.answered /\ w.mode = "after" /\ reply.newer /\ reply.newest > w.cur
              /\ reply.newest <= last /\ reply.newest < stored[w.arg]
              /\ Further(v, w.arg, w.page, reply.newest) /\ Landed(v, w.arg)
    BY <1>1, <1>6 DEF Answered, WaitOK
  <2>2. Continue(c, w, reply) = CheckGoesOn(c, w, reply)
    BY <1>6 DEF Continue
  <2>3. /\ reply.newest \in Nat /\ reply.newest <= last
        /\ w.page \in 1..CheckPages /\ w.cur \in Nat
    BY DEF Waits
  <2>0. v.check = c.check /\ v.stored = stored /\ v.after = c.after
    BY DEF Seen, View
  <2> HIDE DEF v
  <2>4. CASE c.bubble[w.arg] # "pending"
    <3>1. CheckGoesOn(c, w, reply) = [c EXCEPT !.check[w.arg] = "off"]
      BY <2>4 DEF CheckGoesOn
    <3> DEFINE n == w.arg
    <3>2. n \in Sends /\ c.check[n] \notin Composing
      BY <2>1
    <3> HIDE DEF n
    <3>3. Waited(j, [c EXCEPT !.check[n] = "off"])
      BY <3>2, StageWaited
    <3> QED BY <2>2, <3>1, <3>3 DEF n
  <2>5. CASE /\ c.bubble[w.arg] = "pending"
             /\ reply.answered /\ w.mode = "after" /\ reply.newer /\ reply.newest > w.cur
             /\ w.page < CheckPages
    <3> DEFINE n == w.arg
               from == reply.newest
               page == w.page + 1
    <3>1. CheckGoesOn(c, w, reply) = AskSince(c, n, from, page)
      BY <2>5 DEF CheckGoesOn
    <3>2. page \in 1..CheckPages /\ page - 1 = w.page
      BY <2>3, <2>5, FirstPage
    <3>3. from \in Nat /\ from # 0 /\ n \in Sends /\ c.check[n] \notin Composing
      BY <2>1, <2>3, <2>5
    <3>4. \/ Gone(v, n)
          \/ /\ from = 0 => c.after[n] = 0
             /\ from # 0 => Further(v, n, page - 1, from)
             /\ from <= last /\ (stored[n] # 0 => from < stored[n])
      BY <2>1, <2>5, <3>2, <3>3
    <3> HIDE DEF n, from, page
    <3>5. Waited(j, AskSince(c, n, from, page))
      BY <3>2, <3>3, <3>4, AskSinceWaited DEF v
    <3> QED BY <2>2, <3>1, <3>5
  <2>6. CASE /\ c.bubble[w.arg] = "pending"
             /\ ~(/\ reply.answered /\ w.mode = "after" /\ reply.newer /\ reply.newest > w.cur
                  /\ w.page < CheckPages)
    <3>1. CheckGoesOn(c, w, reply) = Withdraw(c, w.arg)
      BY <2>6 DEF CheckGoesOn
    <3>2. Gone(v, w.arg)
      <4> DEFINE n == w.arg
                 from == reply.newest
      <4> SUFFICES ASSUME from < stored[n], Further(v, n, w.page, from), Landed(v, n),
                          w.page = CheckPages
                   PROVE  Gone(v, n)
        <5>1. w.page < CheckPages \/ w.page = CheckPages
          BY <2>3, FirstPage
        <5> QED BY <2>1, <2>6, <5>1
      <4>1. /\ c.after[n] # 0 /\ c.after[n] + Span(CheckPages) <= from
            /\ Span(CheckPages) \in Nat
        BY <2>0, SpanGrows, FirstPage DEF Further
      <4>2. c.after[n] \in Nat /\ stored[n] \in Nat
        <5>1. Seen(j, c).stored \in [Sends -> 0..last] /\ c.after \in [Sends -> Nat]
          BY <1>1 DEF Waited, Queued, Sound, Clients
        <5> QED BY <1>1, <2>1, <5>1
      <4>3. ~(stored[n] <= c.after[n] + Span(CheckPages))
        BY <2>3, <4>1, <4>2
      <4>4. ~Reached(v, n)
        BY <2>0, <4>1, <4>3 DEF Reached
      <4> QED BY <2>0, <2>1, <4>4 DEF Gone
    <3> DEFINE n == w.arg
    <3>3. n \in Sends /\ c.check[n] \notin Composing /\ Gone(Seen(j, c), n)
      BY <2>1, <3>2 DEF v
    <3> HIDE DEF n
    <3>4. Waited(j, Withdraw(c, n))
      <4>1. "off" \in {"asking", "off", "waiting"}
        OBVIOUS
      <4> QED BY <3>3, <4>1, StageWaited
    <3> QED BY <2>2, <3>1, <3>4 DEF n
  <2> QED BY <2>4, <2>5, <2>6
<1> QED BY <1>5, <1>6

-----------------------------------------------------------------------------
(* The page that is next in the jobs answers the first wait.               *)
LEMMA FirstIsOne ==
  ASSUME NEW n \in Nat, NEW I \in SUBSET (1..n), 1 \in I
  PROVE  I # {} /\ Min(I) = 1
<1> DEFINE End(m) == \A x \in I : m <= x
           e == CHOOSE m \in I : End(m)
<1>1. Min(I) = e
  BY DEF Min
<1>2. 1 \in I /\ End(1)
  OBVIOUS
<1>3. e \in I /\ End(e)
  <2> HIDE DEF End
  <2> QED BY <1>2, Zenon
<1>4. e = 1
  <2> HIDE DEF e
  <2> QED BY <1>2, <1>3
<1> HIDE DEF e
<1> QED BY <1>1, <1>2, <1>4

LEMMA SettleFirst ==
  ASSUME NEW c, Sound(c), NEW p \in Packets(last), c.waits # <<>>,
         AnswersTo(c.waits[1], Given(p))
  PROVE  Settle(c, p) =
           Continue([c EXCEPT !.waits = Tail(c.waits)], c.waits[1],
                    [answered |-> TRUE, newest |-> Newest(p.rows), newer |-> p.newer])
<1> DEFINE Test(w) == IF p.mode \in {"latest", "before"} THEN w.mode = "before"
                      ELSE w.mode = p.mode /\ w.cur = p.cur
           I == {j \in 1..Len(c.waits) : Test(c.waits[j])}
           i == IF I # {} THEN Min(I) ELSE 0
           reply == [answered |-> TRUE, newest |-> Newest(p.rows), newer |-> p.newer]
<1>1. Settle(c, p) = IF i = 0 THEN c
        ELSE Continue([c EXCEPT !.waits = RemoveAt(c.waits, i)], c.waits[i], reply)
  <2>1. SelectInSeq(c.waits, LAMBDA w :
             IF p.mode \in {"latest", "before"} THEN w.mode = "before"
                                                ELSE w.mode = p.mode /\ w.cur = p.cur) = i
    BY DEF SelectInSeq
  <2> QED BY <2>1 DEF Settle
<1>2. c.waits \in Seq(Waits) /\ Len(c.waits) \in Nat /\ Len(c.waits) >= 1
  <2>1. c.waits \in Seq(Waits)
    BY DEF Sound, Clients
  <2> QED BY <2>1
<1>3. Test(c.waits[1])
  BY DEF AnswersTo, Given
<1>4. 1 \in I /\ I \in SUBSET (1..Len(c.waits))
  <2> HIDE DEF Test
  <2> QED BY <1>2, <1>3
<1> HIDE DEF I, reply
<1>5. i = 1
  BY <1>2, <1>4, FirstIsOne
<1> HIDE DEF i
<1>6. RemoveAt(c.waits, 1) = Tail(c.waits)
  <2> DEFINE s == c.waits
             r == RemoveAt(s, 1)
             t == Tail(s)
  <2>1. s \in Seq(Waits) /\ s # <<>> /\ 1 \in 1..Len(s)
    BY <1>2
  <2> HIDE DEF s
  <2>2. /\ r \in Seq(Waits) /\ Len(r) = Len(s) - 1
        /\ \A q \in 1..(Len(s) - 1) : r[q] = IF q < 1 THEN s[q] ELSE s[q + 1]
    BY <2>1, RemoveAtIs
  <2>3. /\ t \in Seq(Waits) /\ Len(t) = Len(s) - 1
        /\ \A q \in 1..(Len(s) - 1) : t[q] = s[q + 1]
    BY <2>1, HeadTailProperties
  <2> HIDE DEF r, t
  <2>4. \A q \in 1..Len(r) : r[q] = t[q]
    BY <2>1, <2>2, <2>3
  <2>5. r = t
    BY <2>2, <2>3, <2>4, SeqEqual
  <2> QED BY <2>5 DEF s, r, t
<1>7. /\ i # 0 /\ RemoveAt(c.waits, i) = Tail(c.waits) /\ c.waits[i] = c.waits[1]
  BY <1>5, <1>6
<1>8. Settle(c, p) = Continue([c EXCEPT !.waits = Tail(c.waits)], c.waits[1], reply)
  BY <1>1, <1>7, Zenon
<1> QED BY <1>8 DEF reply

LEMMA PageWaited ==
  ASSUME Inv, Lined(Seen(jobs, client)), jobs # <<>>, Head(jobs).t = "page"
  PROVE  Waited(Tail(jobs), OnHistory(client, Head(jobs)))
<1> DEFINE p == Head(jobs)
           i == Tail(jobs)
           merged == CASE p.mode = "around" -> SetChannelWindow(client, p)
                       [] p.mode = "after"  -> AppendNewer(client, p)
                       [] OTHER             -> PrependHistory(client, p)
           fetched == merged.fetched \/ p.mode # "after"
           noted == [merged EXCEPT !.loading = FALSE, !.fetched = fetched]
<1>1. /\ Sound(client) /\ stored \in [Sends -> 0..last] /\ last \in Nat
      /\ jobs \in Seq(Packets(last)) /\ wire \in Seq(Packets(last))
      /\ \A q \in DOMAIN wire : PacketOK(wire[q], last)
      /\ \A q \in DOMAIN jobs : PacketOK(jobs[q], last)
      /\ log \in SUBSET (1..last)
  BY DEF Inv, TypeOK, Row
<1>2. /\ p \in Packets(last) /\ PacketOK(p, last) /\ p = jobs[1]
      /\ i \in Seq(Packets(last)) /\ Len(jobs) = Len(i) + 1 /\ Len(i) \in Nat
      /\ \A q \in 1..Len(i) : i[q] = jobs[q + 1]
      /\ \A q \in DOMAIN i : PacketOK(i[q], last)
  <2>1. Head(jobs) = jobs[1] /\ Head(jobs) \in Packets(last) /\ 1 \in DOMAIN jobs
    BY <1>1, HeadTailProperties
  <2>2. /\ i \in Seq(Packets(last)) /\ Len(i) = Len(jobs) - 1 /\ Len(jobs) \in Nat
        /\ \A q \in 1..(Len(jobs) - 1) : i[q] = jobs[q + 1]
    BY <1>1, HeadTailProperties
  <2>3. \A q \in DOMAIN i : q + 1 \in DOMAIN jobs /\ i[q] = jobs[q + 1]
    BY <1>1, <2>2
  <2> HIDE DEF i
  <2> QED BY <1>1, <2>1, <2>2, <2>3
<1>3. OnHistory(client, p) = JumpLands(Settle(noted, p))
  BY DEF OnHistory
<1>4. p.t = "page"
  OBVIOUS
<1>5. PageSame(client, merged, p.rows) /\ Sound(merged)
  <2> HIDE DEF p
  <2>1. CASE p.mode = "around"
    BY <2>1, <1>1, <1>2, SetChannelWindowGoes, SetChannelWindowSame
  <2>2. CASE p.mode = "after"
    BY <2>2, <1>1, <1>2, AppendNewerTo, AppendNewerSame DEF To
  <2>3. CASE p.mode \notin {"around", "after"}
    BY <2>3, <1>1, <1>2, PrependHistoryTo, PrependHistorySame DEF To
  <2> QED BY <2>1, <2>2, <2>3
<1> HIDE DEF p, i, merged
<1>6. fetched \in BOOLEAN
  OBVIOUS
<1> HIDE DEF fetched
<1>7. /\ noted \in Clients(last) /\ Same(client, noted)
      /\ \A n \in Sends : stored[n] \in p.rows => noted.bubble[n] = "none"
  <2>1. merged \in Clients(last) /\ PageSame(client, merged, p.rows)
    BY <1>5 DEF Sound
  <2>2. noted \in Clients(last) /\ noted.bubble = merged.bubble /\ Same(merged, noted)
    BY <1>6, <2>1 DEF Clients, Same
  <2> HIDE DEF noted
  <2> QED BY <2>1, <2>2 DEF PageSame, Same
<1> HIDE DEF noted
<1>8. Sound(noted)
  BY <1>1, <1>7 DEF Sound, Same, WaitsOK, WaitOK
<1> DEFINE rest == IF noted.waits = <<>> THEN <<>> ELSE Tail(noted.waits)
           d == [noted EXCEPT !.waits = rest]
           v == Seen(jobs, client)
           u == Seen(i, d)
<1>9. /\ rest \in Seq(Waits)
      /\ \A q \in DOMAIN rest : \E r \in DOMAIN noted.waits : rest[q] = noted.waits[r]
  <2>1. noted.waits \in Seq(Waits)
    BY <1>7 DEF Clients
  <2>2. CASE noted.waits = <<>>
    BY <2>2
  <2>3. CASE noted.waits # <<>>
    <3>1. /\ Tail(noted.waits) \in Seq(Waits) /\ Len(Tail(noted.waits)) = Len(noted.waits) - 1
          /\ \A q \in 1..(Len(noted.waits) - 1) : Tail(noted.waits)[q] = noted.waits[q + 1]
      BY <2>1, <2>3, HeadTailProperties
    <3>2. \A q \in 1..(Len(noted.waits) - 1) : q + 1 \in DOMAIN noted.waits
      BY <2>1
    <3>3. DOMAIN Tail(noted.waits) = 1..(Len(noted.waits) - 1)
      BY <3>1
    <3> QED BY <2>3, <3>1, <3>2, <3>3
  <2> QED BY <2>2, <2>3
<1>10. rest = IF client.waits = <<>> THEN <<>> ELSE Tail(client.waits)
  BY <1>7 DEF Same
<1> HIDE DEF rest
<1>11. /\ d \in Clients(last) /\ d.waits = rest /\ d.asks = client.asks
       /\ d.check = client.check /\ d.withdrawn = client.withdrawn /\ d.after = client.after
       /\ d.bubble = noted.bubble
  BY <1>7, <1>9 DEF Clients, Same
<1>12. Sound(d)
  BY <1>7, <1>8, <1>9, <1>11 DEF Sound, Same, WaitsOK, WaitOK
<1> HIDE DEF d
<1>13. /\ Queued(jobs, wire, stored, log, last) /\ Queued(i, wire, stored, log, last)
       /\ Clear(client, last) /\ Clear(d, last)
  BY <1>1, <1>2, <1>12 DEF Queued, Clear, Sound
<1>14. /\ ViewOK(v) /\ ViewOK(u) /\ Len(jobs) \in Nat /\ Len(wire) \in Nat
       /\ Len(client.asks) \in Nat
  BY <1>13, ViewIs DEF Seen
<1>15. /\ v.size = Size(jobs, wire, client.asks) /\ v.line = Line(jobs, wire, client.asks)
       /\ v.waits = client.waits /\ v.check = client.check /\ v.withdrawn = client.withdrawn
       /\ v.after = client.after /\ v.stored = stored /\ v.log = log /\ v.last = last
  BY DEF View, Seen
<1>16. /\ u.size = Size(i, wire, client.asks) /\ u.line = Line(i, wire, client.asks)
       /\ u.waits = rest /\ u.check = client.check /\ u.withdrawn = client.withdrawn
       /\ u.after = client.after /\ u.stored = stored /\ u.log = log /\ u.last = last
  BY <1>11 DEF View, Seen
<1>17. Lined(v)
  OBVIOUS
<1> HIDE DEF v, u
<1>18. /\ v.size = u.size + 1 /\ v.line[1] = Given(p)
       /\ \A q \in Slots(u) : u.line[q] = v.line[q + 1]
  <2> DEFINE a == client.asks
  <2>1. /\ Size(jobs, wire, a) = Size(i, wire, a) + 1
        /\ \A q \in 1..Size(i, wire, a) : Line(i, wire, a)[q] = Line(jobs, wire, a)[q + 1]
        /\ Line(jobs, wire, a)[1] = Given(jobs[1])
    <3> DEFINE b == jobs
               x == wire
    <3>1. /\ Len(a) \in Nat /\ Len(b) \in Nat /\ Len(x) \in Nat
          /\ Follows(i, b, 1)
      BY <1>2, <1>14 DEF Follows
    <3> HIDE DEF a, b, x
    <3>2. /\ Size(b, x, a) = Size(i, x, a) + 1
          /\ \A q \in 1..Size(i, x, a) : Line(i, x, a)[q] = Line(b, x, a)[q + 1]
          /\ Line(b, x, a)[1] = Given(b[1])
      BY <3>1, LineWorks
    <3> QED BY <3>2 DEF b, x
  <2> QED BY <2>1, <1>2, <1>15, <1>16 DEF Slots
<1>19. v.size \in Nat /\ u.size \in Nat
  BY <1>14 DEF ViewOK
<1>20. 1 \in Slots(v) /\ u.size = v.size - 1 /\ \A q \in Slots(u) : q + 1 \in Slots(v)
  BY <1>18, <1>19 DEF Slots
<1>21. IsPage(v.line[1]) /\ ~v.line[1].asked /\ v.line[1].of = p
  BY <1>4, <1>18 DEF IsPage, Given, p
<1>22. Later(v, u)
  <2>1. last <= last
    BY <1>1
  <2> QED BY <2>1, <1>15, <1>16, <1>18, <1>20 DEF Later
<1>23. Since(u)
  BY <1>15, <1>16, <1>17 DEF Lined, Since
<1>24. /\ v.waits # <<>> => u.waits = Tail(v.waits)
       /\ \A n \in u.withdrawn : n \in v.withdrawn \/ Gone(u, n)
  BY <1>10, <1>15, <1>16
<1>25. v.waits # <<>> /\ Fits(v, v.waits[1], 1) /\ Lined(u)
  BY <1>14, <1>17, <1>18, <1>20, <1>21, <1>22, <1>23, <1>24, LinePops
<1>26. Waited(i, d)
  BY <1>12, <1>13, <1>25 DEF Waited, u
<1> DEFINE w == noted.waits[1]
           newest == Newest(p.rows)
           reply == [answered |-> TRUE, newest |-> newest, newer |-> p.newer]
<1>27. v.waits[1] = w /\ noted.waits # <<>> /\ rest = Tail(noted.waits)
  BY <1>7, <1>10, <1>15, <1>25 DEF Same
<1>28. Settle(noted, p) = Continue(d, w, reply)
  <2>1. AnswersTo(w, Given(p))
    BY <1>18, <1>25, <1>27 DEF Fits
  <2>2. Settle(noted, p) = Continue([noted EXCEPT !.waits = Tail(noted.waits)], w, reply)
    BY <1>2, <1>8, <1>27, <2>1, SettleFirst
  <2> QED BY <1>27, <2>2 DEF d
<1>29. newest \in 0..last /\ newest \in Nat /\ p.newer \in BOOLEAN
  <2>1. p.rows \in SUBSET (1..last) /\ p.newer \in BOOLEAN
    BY <1>2 DEF Packets, Row
  <2>2. newest \in 0..last
    BY <1>1, <2>1, NewestIs
  <2> HIDE DEF newest
  <2> QED BY <1>1, <2>1, <2>2
<1>30. w \in Waits /\ WaitOK(noted, w)
  <2>1. noted.waits \in Seq(Waits) /\ 1 \in DOMAIN noted.waits
    <3>1. noted.waits \in Seq(Waits)
      BY <1>7 DEF Clients
    <3> QED BY <1>27, <3>1
  <2> QED BY <2>1, <1>8 DEF Sound, WaitsOK
<1>31. WaitOK(d, w)
  BY <1>7, <1>11, <1>30 DEF WaitOK, Same
<1>32. Fits(v, w, 1)
  BY <1>25, <1>27
<1> HIDE DEF w, newest
<1>33. reply \in Replies /\ reply.newest \in 0..last
  BY <1>29 DEF Replies
<1>34. ASSUME w.by = "check" PROVE Answered(u, d, w, reply)
  <2>1. v.check[w.arg] \notin Composing /\ Telling(v, w, p) /\ w.arg \in Sends
    BY <1>21, <1>30, <1>32, <1>34 DEF Fits, WaitOK
  <2>2. Telling(u, w, p)
    BY <2>1, <1>2, <1>14, <1>15, <1>22, TellingStays
  <2>3. CASE Gone(u, w.arg)
    BY <2>1, <2>3, <1>15, <1>16 DEF Answered
  <2>4. CASE stored[w.arg] \in p.rows
    <3>1. d.bubble[w.arg] = "none"
      BY <2>1, <2>4, <1>7, <1>11
    <3> QED BY <2>1, <3>1, <1>15, <1>16 DEF Answered
  <2>5. CASE /\ w.mode = "after" /\ p.newer
             /\ w.cur < Newest(p.rows) /\ Newest(p.rows) < stored[w.arg]
             /\ Further(u, w.arg, w.page, Newest(p.rows)) /\ Landed(u, w.arg)
    <3>1. w.cur < newest /\ newest < stored[w.arg] /\ newest <= last
      BY <2>5, <1>1, <1>29 DEF newest
    <3>2. w.cur \in Nat
      BY <1>30 DEF Waits
    <3>3. newest > w.cur
      BY <3>1, <3>2, <1>29
    <3>4. Further(u, w.arg, w.page, newest)
      BY <2>5 DEF newest
    <3> QED BY <2>1, <2>5, <3>1, <3>3, <3>4, <1>15, <1>16 DEF Answered
  <2> QED BY <2>2, <2>3, <2>4, <2>5, <1>16 DEF Telling
<1> HIDE DEF reply
<1>35. Waited(i, Continue(d, w, reply))
  BY <1>1, <1>26, <1>30, <1>31, <1>33, <1>34, ContinueWaited DEF u
<1>36. Waited(i, JumpLands(Continue(d, w, reply)))
  <2>1. Sound(Continue(d, w, reply))
    BY <1>35 DEF Waited
  <2>2. Sound(JumpLands(Continue(d, w, reply)))
    BY <2>1, JumpLandsTo DEF To
  <2>3. Same(Continue(d, w, reply), JumpLands(Continue(d, w, reply)))
    BY <2>1, LoadEndsSame
  <2> QED BY <1>35, <2>2, <2>3, SameWaited
<1> QED BY <1>3, <1>28, <1>36 DEF p, i

-----------------------------------------------------------------------------
(* The server answers requests that are no pages' and pushes packets that  *)
(* are none: the view after it.                                            *)
Serves(j, w, c, st, lg, k, r, d, tt, mg, l, x, y) ==
  /\ x \in Nat /\ y \in {0, 1} /\ Extends(r, w, x) /\ Follows(d.asks, c.asks, y)
  /\ y = 1 => c.asks[1].t # "page"
  /\ \A i \in 1..x :
        /\ r[Len(w) + i].t # "page"
        /\ r[Len(w) + i].t = "rejected" =>
             Gone(View(j, r, d, tt, mg, l), r[Len(w) + i].send)
  /\ d.waits = c.waits /\ d.check = c.check /\ d.withdrawn = c.withdrawn
  /\ d.after = c.after
  /\ k <= l /\ \A i \in mg : i \in lg \/ i > k
  /\ \A n \in Sends :
       \/ tt[n] = st[n]
       \/ /\ st[n] = 0 /\ tt[n] > k
          /\ y = 1 /\ c.asks[1].t = "send" /\ c.asks[1].id = n

LEMMA ServedLined ==
  ASSUME NEW j, NEW w, NEW c, NEW st, NEW lg, NEW k, Queued(j, w, st, lg, k), Clear(c, k),
         Lined(View(j, w, c, st, lg, k)),
         NEW r, NEW d, NEW tt, NEW mg, NEW l, Queued(j, r, tt, mg, l), Clear(d, l),
         NEW x, NEW y, Serves(j, w, c, st, lg, k, r, d, tt, mg, l, x, y)
  PROVE  Lined(View(j, r, d, tt, mg, l))
<1> USE DEF Serves
<1> DEFINE v == View(j, w, c, st, lg, k)
           u == View(j, r, d, tt, mg, l)
           m == Len(j) + Len(w)
           a == c.asks
           b == d.asks
<1>1. /\ ViewOK(v) /\ Len(j) \in Nat /\ Len(w) \in Nat /\ Len(a) \in Nat
  BY ViewIs
<1>2. /\ ViewOK(u) /\ Len(r) \in Nat /\ Len(b) \in Nat
  BY ViewIs
<1>3. /\ v.size = Size(j, w, a) /\ v.line = Line(j, w, a)
      /\ v.waits = c.waits /\ v.check = c.check /\ v.withdrawn = c.withdrawn
      /\ v.after = c.after /\ v.stored = st /\ v.log = lg /\ v.last = k
      /\ Slots(v) = 1..Size(j, w, a)
  BY DEF View, Slots
<1>4. /\ u.size = Size(j, r, b) /\ u.line = Line(j, r, b)
      /\ u.waits = d.waits /\ u.check = d.check /\ u.withdrawn = d.withdrawn
      /\ u.after = d.after /\ u.stored = tt /\ u.log = mg /\ u.last = l
      /\ Slots(u) = 1..Size(j, r, b)
  BY DEF View, Slots
<1>5. Lined(v) /\ Follows(b, a, y) /\ Extends(r, w, x) /\ x \in Nat /\ y \in Nat /\ y \in {0, 1}
  OBVIOUS
<1>6. \A i \in 1..x : r[Len(w) + i].t = "rejected" => Gone(u, r[Len(w) + i].send)
  OBVIOUS
<1>7. y = 1 => a[1].t # "page"
  OBVIOUS
<1>8. \A n \in Sends :
        \/ tt[n] = st[n]
        \/ st[n] = 0 /\ tt[n] > k /\ y = 1 /\ a[1].t = "send" /\ a[1].id = n
  OBVIOUS
<1>9. /\ d.waits = c.waits /\ d.check = c.check /\ d.withdrawn = c.withdrawn
      /\ d.after = c.after /\ k <= l /\ \A i \in mg : i \in lg \/ i > k
      /\ \A i \in 1..x : r[Len(w) + i].t # "page"
  OBVIOUS
<1>10. y = 1 => Len(a) >= 1
  BY <1>5, <1>2 DEF Follows
<1> HIDE DEF v, u, a, b
<1> HIDE DEF Serves
<1>11. /\ m \in Nat /\ Size(j, w, a) = m + Len(a)
       /\ Size(j, r, b) = (Size(j, w, a) + x) - y
       /\ \A q \in 1..Size(j, r, b) :
            /\ q <= m => Line(j, r, b)[q] = Line(j, w, a)[q]
            /\ q > m + x => Line(j, r, b)[q] = Line(j, w, a)[(q + y) - x]
       /\ \A i \in 1..x : Line(j, r, b)[m + i] = Given(r[Len(w) + i])
       /\ y = 1 => Line(j, w, a)[m + 1] = Asked(a[1])
  <2>1. Extends(r, w, x) /\ x \in Nat /\ y \in Nat /\ Follows(b, a, y)
    BY <1>5
  <2>2. Answering(j, w, a, r, b, x, y)
    BY <1>1, <2>1, LineAnswers
  <2> QED BY <2>2 DEF m, Answering
<1> HIDE DEF m
<1>12. /\ m \in Nat /\ v.size = m + Len(a) /\ u.size = (v.size + x) - y
       /\ v.size \in Nat /\ u.size \in Nat
       /\ Slots(v) = 1..v.size /\ Slots(u) = 1..u.size
       /\ y <= Len(a)
  BY <1>1, <1>2, <1>3, <1>4, <1>5, <1>10, <1>11 DEF ViewOK
<1>13. /\ \A q \in Slots(u) :
            /\ q <= m => u.line[q] = v.line[q]
            /\ q > m + x => u.line[q] = v.line[(q + y) - x]
       /\ \A i \in 1..x : u.line[m + i] = Given(r[Len(w) + i])
       /\ y = 1 => v.line[m + 1] = Asked(a[1])
  BY <1>3, <1>4, <1>11
<1>14. ASSUME NEW q \in Slots(u), m + 1 <= q, q < m + 1 + x
       PROVE  /\ ~IsPage(u.line[q]) /\ ~u.line[q].asked
              /\ u.line[q].of.t = "rejected" => Gone(u, u.line[q].of.send)
  <2> DEFINE i == q - m
  <2>1. q \in Nat
    BY <1>12
  <2>2. i \in 1..x /\ q = m + i
    BY <1>5, <1>12, <1>14, <2>1
  <2> HIDE DEF i
  <2>3. u.line[q] = Given(r[Len(w) + i]) /\ r[Len(w) + i].t # "page"
    BY <1>9, <1>13, <2>2
  <2>4. u.line[q].asked = FALSE /\ u.line[q].of = r[Len(w) + i]
    BY <2>3 DEF Given
  <2> QED BY <1>6, <2>2, <2>3, <2>4 DEF IsPage
<1>15. ASSUME NEW p \in Slots(v), m + 1 <= p, p < m + 1 + y
       PROVE  ~IsPage(v.line[p])
  <2>1. y = 1 /\ p = m + 1
    BY <1>5, <1>12, <1>15
  <2>2. v.line[p] = Asked(a[1])
    BY <1>13, <2>1
  <2> QED BY <1>7, <2>1, <2>2 DEF Asked, IsPage
<1>16. Splices(v, u, m + 1, y, x)
  <2>1. m + 1 \in 1..((v.size + 1) - y)
    BY <1>1, <1>5, <1>12
  <2>2. /\ \A q \in Slots(u) : q < m + 1 => u.line[q] = v.line[q]
        /\ \A q \in Slots(u) : q >= m + 1 + x => u.line[q] = v.line[(q + y) - x]
    BY <1>5, <1>12, <1>13
  <2>3. \A q \in Slots(u) : m + 1 <= q /\ q < m + 1 + x =>
          /\ ~IsPage(u.line[q]) /\ ~u.line[q].asked
          /\ u.line[q].of.t = "rejected" => Gone(u, u.line[q].of.send)
    BY <1>14
  <2>4. \A p \in Slots(v) : m + 1 <= p /\ p < m + 1 + y => ~IsPage(v.line[p])
    BY <1>15
  <2> QED BY <1>12, <2>1, <2>2, <2>3, <2>4 DEF Splices, Sending
<1>17. Later(v, u)
  <2>1. /\ v.last <= u.last /\ \A i \in u.log : i \in v.log \/ i > v.last
        /\ \A n \in Sends : v.check[n] \notin Composing =>
             u.check[n] \notin Composing /\ u.after[n] = v.after[n]
    BY <1>3, <1>4, <1>9
  <2>2. ASSUME NEW n \in Sends, u.stored[n] # v.stored[n]
        PROVE  v.stored[n] = 0 /\ u.stored[n] > v.last /\ \E p \in Slots(v) : Sending(v.line[p], n)
    <3>1. y = 1 /\ a[1].t = "send" /\ a[1].id = n /\ v.stored[n] = 0 /\ u.stored[n] > v.last
      BY <1>3, <1>4, <1>8, <2>2
    <3>2. m + 1 \in Slots(v)
      BY <1>1, <1>5, <1>12, <3>1
    <3>3. Sending(v.line[m + 1], n)
      BY <1>13, <3>1 DEF Sending, Asked
    <3> QED BY <3>1, <3>2, <3>3
  <2>3. ASSUME NEW n \in Sends, NEW q \in Slots(u), Sending(u.line[q], n)
        PROVE  \E p \in Slots(v) : Sending(v.line[p], n)
    <3>1. q \in Nat /\ 1 <= q /\ q <= u.size
      BY <1>12
    <3>2. CASE q <= m
      <4>1. q \in Slots(v)
        BY <1>1, <1>5, <1>12, <3>1, <3>2
      <4> QED BY <1>13, <2>3, <3>2, <4>1
    <3>3. CASE q > m + x
      <4>1. (q + y) - x \in Slots(v)
        BY <1>1, <1>5, <1>12, <3>1, <3>3
      <4> QED BY <1>13, <2>3, <3>3, <4>1
    <3>4. CASE m < q /\ q <= m + x
      <4>1. m + 1 <= q /\ q < m + 1 + x
        BY <1>5, <1>12, <3>1, <3>4
      <4> QED BY <1>14, <2>3, <4>1 DEF Sending
    <3> QED BY <1>5, <1>12, <3>1, <3>2, <3>3, <3>4
  <2> QED BY <2>1, <2>2, <2>3 DEF Later
<1>18. Since(u)
  <2> SUFFICES ASSUME NEW n \in Sends
               PROVE  u.after[n] <= u.last /\ (u.stored[n] # 0 => u.after[n] < u.stored[n])
    BY DEF Since
  <2>1. /\ v.after[n] <= v.last /\ (v.stored[n] # 0 => v.after[n] < v.stored[n])
        /\ v.after[n] \in Nat /\ v.last \in Nat /\ u.last \in Nat /\ u.stored[n] \in Nat
    BY <1>1, <1>2, <1>5 DEF Lined, Since, ViewOK
  <2>2. u.after[n] = v.after[n] /\ v.last <= u.last
    BY <1>3, <1>4, <1>9
  <2>3. u.stored[n] = v.stored[n] \/ u.stored[n] > v.last
    BY <1>3, <1>4, <1>8, <1>9
  <2> QED BY <2>1, <2>2, <2>3
<1>19. u.waits = v.waits /\ \A n \in u.withdrawn : n \in v.withdrawn \/ Gone(u, n)
  BY <1>3, <1>4, <1>9
<1>20. Lined(u)
  BY <1>1, <1>2, <1>5, <1>16, <1>17, <1>18, <1>19, LineSplices
<1> QED BY <1>20 DEF u

(* A slot that is no page goes, and nothing else changes.                  *)
LEMMA LinePopsAt ==
  ASSUME NEW v, NEW u, ViewOK(v), ViewOK(u), Lined(v), NEW s \in Slots(v),
         v.size = u.size + 1, ~IsPage(v.line[s]),
         \A q \in Slots(u) : q < s => u.line[q] = v.line[q],
         \A q \in Slots(u) : q >= s => u.line[q] = v.line[q + 1],
         u.waits = v.waits, u.check = v.check, u.withdrawn = v.withdrawn,
         u.after = v.after, u.stored = v.stored, u.log = v.log, u.last = v.last
  PROVE  Lined(u) /\ \A n \in Sends : Gone(v, n) => Gone(u, n)
<1>1. v.size \in Nat /\ u.size \in Nat /\ v.last \in Nat /\ s \in Nat /\ s >= 1 /\ s <= v.size
  BY DEF ViewOK, Slots
<1>2. Splices(v, u, s, 1, 0)
  <2>1. u.size = (v.size + 0) - 1 /\ s \in 1..((v.size + 1) - 1) /\ s + 0 = s
    BY <1>1
  <2>2. \A q \in Slots(u) : q >= s => u.line[q] = v.line[(q + 1) - 0]
    <3>1. \A q \in Slots(u) : (q + 1) - 0 = q + 1
      BY <1>1 DEF Slots
    <3> QED BY <3>1
  <2>3. \A q \in Slots(u) : ~(s <= q /\ q < s)
    BY <1>1 DEF Slots
  <2>4. \A p \in Slots(v) : s <= p /\ p < s + 1 => p = s
    BY <1>1 DEF Slots
  <2> QED BY <2>1, <2>2, <2>3, <2>4 DEF Splices
<1>3. Later(v, u)
  <2>1. v.last <= u.last
    BY <1>1
  <2>2. ASSUME NEW n \in Sends, NEW q \in Slots(u), Sending(u.line[q], n)
        PROVE  \E p \in Slots(v) : Sending(v.line[p], n)
    <3>1. q \in Nat /\ q \in Slots(v) /\ q + 1 \in Slots(v) /\ (q < s \/ q >= s)
      BY <1>1 DEF Slots
    <3> QED BY <2>2, <3>1
  <2> QED BY <2>1, <2>2 DEF Later
<1>4. Since(u)
  BY DEF Lined, Since
<1>5. Lined(u)
  BY <1>2, <1>3, <1>4, LineSplices
<1> QED BY <1>3, <1>5, GoneStays

LEMMA WorkLined ==
  ASSUME NEW j, NEW w, NEW c, NEW st, NEW lg, NEW k, Queued(j, w, st, lg, k), Clear(c, k),
         Lined(View(j, w, c, st, lg, k)),
         NEW i, Queued(i, w, st, lg, k), Follows(i, j, 1), j[1].t # "page"
  PROVE  Lined(View(i, w, c, st, lg, k))
<1> DEFINE v == View(j, w, c, st, lg, k)
           u == View(i, w, c, st, lg, k)
           a == c.asks
           s == 1
<1>1. ViewOK(v) /\ ViewOK(u) /\ Len(j) \in Nat /\ Len(w) \in Nat /\ Len(a) \in Nat
  BY ViewIs
<1>2. /\ v.size = Size(j, w, a) /\ v.line = Line(j, w, a) /\ Slots(v) = 1..Size(j, w, a)
      /\ u.size = Size(i, w, a) /\ u.line = Line(i, w, a) /\ Slots(u) = 1..Size(i, w, a)
      /\ u.waits = v.waits /\ u.check = v.check /\ u.withdrawn = v.withdrawn
      /\ u.after = v.after /\ u.stored = v.stored /\ u.log = v.log /\ u.last = v.last
  BY DEF View, Slots
<1>3. Lined(v)
  OBVIOUS
<1> HIDE DEF v, u, a
<1>4. /\ Size(j, w, a) = Size(i, w, a) + 1
      /\ \A q \in 1..Size(i, w, a) : Line(i, w, a)[q] = Line(j, w, a)[q + 1]
      /\ Line(j, w, a)[1] = Given(j[1])
  BY <1>1, LineWorks
<1>5. v.size \in Nat /\ u.size \in Nat /\ 1 \in Slots(v) /\ \A q \in Slots(u) : ~(q < 1)
  BY <1>1, <1>2, <1>4 DEF ViewOK
<1>6. ~IsPage(v.line[1])
  BY <1>2, <1>4 DEF IsPage, Given
<1>7. /\ v.size = u.size + 1
      /\ \A q \in Slots(u) : q < s => u.line[q] = v.line[q]
      /\ \A q \in Slots(u) : q >= s => u.line[q] = v.line[q + 1]
      /\ s \in Slots(v) /\ ~IsPage(v.line[s])
  BY <1>2, <1>4, <1>5, <1>6
<1> HIDE DEF s
<1>8. Lined(u)
  BY <1>1, <1>2, <1>3, <1>7, LinePopsAt
<1> QED BY <1>8 DEF u

LEMMA ReadLined ==
  ASSUME NEW j, NEW w, NEW c, NEW st, NEW lg, NEW k, Queued(j, w, st, lg, k), Clear(c, k),
         Lined(View(j, w, c, st, lg, k)),
         NEW r, Queued(j, r, st, lg, k), Follows(r, w, 1), w[1].t # "page"
  PROVE  /\ Lined(View(j, r, c, st, lg, k))
         /\ w[1].t = "rejected" => Gone(View(j, r, c, st, lg, k), w[1].send)
<1> DEFINE v == View(j, w, c, st, lg, k)
           u == View(j, r, c, st, lg, k)
           a == c.asks
           s == Len(j) + 1
<1>1. ViewOK(v) /\ ViewOK(u) /\ Len(j) \in Nat /\ Len(w) \in Nat /\ Len(a) \in Nat
  BY ViewIs
<1>2. /\ v.size = Size(j, w, a) /\ v.line = Line(j, w, a) /\ Slots(v) = 1..Size(j, w, a)
      /\ u.size = Size(j, r, a) /\ u.line = Line(j, r, a) /\ Slots(u) = 1..Size(j, r, a)
      /\ u.waits = v.waits /\ u.check = v.check /\ u.withdrawn = v.withdrawn
      /\ u.after = v.after /\ u.stored = v.stored /\ u.log = v.log /\ u.last = v.last
  BY DEF View, Slots
<1>3. Lined(v)
  OBVIOUS
<1> HIDE DEF v, u, a
<1>4. /\ Size(j, w, a) = Size(j, r, a) + 1
      /\ Len(j) + 1 \in 1..Size(j, w, a)
      /\ \A q \in 1..Size(j, r, a) :
           /\ q <= Len(j) => Line(j, r, a)[q] = Line(j, w, a)[q]
           /\ q > Len(j) => Line(j, r, a)[q] = Line(j, w, a)[q + 1]
      /\ Line(j, w, a)[Len(j) + 1] = Given(w[1])
  <2>1. Losing(j, w, a, r)
    BY <1>1, LineLoses
  <2> QED BY <2>1 DEF Losing
<1>5. v.line[s] = Given(w[1]) /\ s \in Slots(v)
  BY <1>2, <1>4
<1>6. ~IsPage(v.line[s]) /\ v.line[s].asked = FALSE /\ v.line[s].of = w[1]
  BY <1>5 DEF IsPage, Given
<1>7. \A q \in Slots(u) : q \in Nat /\ (q < s => q <= Len(j)) /\ (q >= s => q > Len(j))
  BY <1>1 DEF ViewOK, Slots
<1>8. /\ v.size = u.size + 1
      /\ \A q \in Slots(u) : q < s => u.line[q] = v.line[q]
      /\ \A q \in Slots(u) : q >= s => u.line[q] = v.line[q + 1]
  BY <1>2, <1>4, <1>7
<1> HIDE DEF s
<1>9. Lined(u) /\ \A n \in Sends : Gone(v, n) => Gone(u, n)
  BY <1>1, <1>2, <1>3, <1>5, <1>6, <1>8, LinePopsAt
<1>10. ASSUME w[1].t = "rejected"
       PROVE  Gone(u, w[1].send)
  <2>1. Gone(v, w[1].send)
    BY <1>3, <1>5, <1>6, <1>10 DEF Lined, Rejecting
  <2>2. w[1].send \in Sends
    BY <1>1, <1>5, <1>6, <1>10 DEF ViewOK, SlotOK, PacketOK
  <2> QED BY <1>9, <2>1, <2>2
<1> QED BY <1>9, <1>10 DEF u

(* A request that is none for a page.                                      *)
LEMMA AsksLined ==
  ASSUME NEW j, NEW w, NEW c, NEW d, NEW st, NEW lg, NEW k,
         Queued(j, w, st, lg, k), Clear(c, k), Clear(d, k), Lined(View(j, w, c, st, lg, k)),
         NEW a \in Asks, d.asks = Append(c.asks, a), a.t # "page",
         \A n \in Sends : a.t = "send" /\ a.id = n => c.check[n] \in Composing,
         \A n \in Sends : c.check[n] \notin Composing => d.check[n] \notin Composing,
         d.waits = c.waits, d.withdrawn = c.withdrawn, d.after = c.after
  PROVE  Lined(View(j, w, d, st, lg, k))
<1> DEFINE v == View(j, w, c, st, lg, k)
           u == View(j, w, d, st, lg, k)
           e == c.asks
           f == d.asks
           s == v.size + 1
<1>1. /\ ViewOK(v) /\ ViewOK(u) /\ Len(j) \in Nat /\ Len(w) \in Nat
      /\ e \in Seq(Asks) /\ Len(e) \in Nat
  BY ViewIs
<1>2. /\ v.size = Size(j, w, e) /\ v.line = Line(j, w, e) /\ Slots(v) = 1..Size(j, w, e)
      /\ u.size = Size(j, w, f) /\ u.line = Line(j, w, f) /\ Slots(u) = 1..Size(j, w, f)
      /\ u.waits = v.waits /\ v.check = c.check /\ u.check = d.check
      /\ u.withdrawn = v.withdrawn
      /\ u.after = v.after /\ u.stored = v.stored /\ u.log = v.log /\ u.last = v.last
  BY DEF View, Slots
<1>3. Lined(v) /\ f = Append(e, a)
  OBVIOUS
<1> HIDE DEF v, u, e, f
<1>4. Len(f) = Len(e) + 1 /\ (\A i \in 1..Len(e) : f[i] = e[i]) /\ f[Len(e) + 1] = a
  BY <1>1, <1>3
<1>5. /\ Size(j, w, f) = Size(j, w, e) + 1
      /\ \A q \in 1..Size(j, w, e) : Line(j, w, f)[q] = Line(j, w, e)[q]
      /\ Line(j, w, f)[Size(j, w, e) + 1] = Asked(f[Len(e) + 1])
  <2>1. Extends(f, e, 1)
    BY <1>1, <1>4 DEF Extends
  <2>2. Growing(j, w, e, f)
    BY <1>1, <2>1, LineGrows
  <2> QED BY <2>2 DEF Growing
<1>6. /\ u.size = v.size + 1 /\ v.size \in Nat
      /\ \A q \in Slots(v) : u.line[q] = v.line[q]
      /\ u.line[s] = Asked(a)
  BY <1>1, <1>2, <1>4, <1>5 DEF ViewOK
<1>7. \A q \in Slots(u) : (q \in Slots(v) /\ q \in Nat /\ q < s) \/ q = s
  BY <1>2, <1>5, <1>6
<1>8. ASSUME NEW n \in Sends, Sending(u.line[s], n) PROVE v.check[n] \in Composing
  BY <1>2, <1>6, <1>8 DEF Sending, Asked
<1>9. ~IsPage(u.line[s]) /\ u.line[s].asked
  BY <1>6 DEF IsPage, Asked
<1>10. Splices(v, u, s, 0, 1)
  <2>1. u.size = (v.size + 1) - 0 /\ s \in 1..((v.size + 1) - 0)
    BY <1>6
  <2>2. /\ \A q \in Slots(u) : q < s => u.line[q] = v.line[q]
        /\ \A q \in Slots(u) : ~(q >= s + 1)
        /\ \A q \in Slots(u) : s <= q => q = s
    BY <1>6, <1>7
  <2>3. \A p \in Slots(v) : ~(s <= p /\ p < s + 0)
    BY <1>2, <1>6
  <2> QED BY <2>1, <2>2, <2>3, <1>8, <1>9 DEF Splices
<1>11. Later(v, u)
  <2>1. v.last <= u.last
    BY <1>1, <1>2 DEF ViewOK
  <2>2. ASSUME NEW n \in Sends, NEW q \in Slots(u), Sending(u.line[q], n)
        PROVE  v.check[n] \in Composing \/ \E p \in Slots(v) : Sending(v.line[p], n)
    BY <1>6, <1>7, <1>8, <2>2
  <2> QED BY <1>2, <2>1, <2>2 DEF Later
<1>12. Since(u)
  BY <1>2, <1>3 DEF Lined, Since
<1> HIDE DEF s
<1>13. Lined(u)
  BY <1>1, <1>2, <1>3, <1>10, <1>11, <1>12, LineSplices
<1> QED BY <1>13 DEF u

-----------------------------------------------------------------------------
(* While the connection stands and no wait is cut short: pages and waits    *)
(* are in line, and a newest page of CheckLimit rows reaches down to every  *)
(* send.                                                                    *)
Room ==
  /\ OldRows <= last /\ last <= OldRows + MaxPosts + Cardinality(StoredOfSends)
  /\ \A n \in Sends : stored[n] # 0 => stored[n] > OldRows
Told == InStep /\ Room /\ Lined(Seen(jobs, client))
Faultless == MaxDrops = 0 /\ MaxLosses = 0

LEMMA Grounds ==
  ASSUME Inv, Told
  PROVE  /\ Queued(jobs, wire, stored, log, last) /\ Clear(client, last) /\ Sound(client)
         /\ Waited(jobs, client) /\ up /\ last \in Nat /\ client \in Clients(last)
         /\ stored \in [Sends -> 0..last]
         /\ Lined(View(jobs, wire, client, stored, log, last))
BY DEF Inv, TypeOK, Told, InStep, Waited, Queued, Clear, Sound, Seen, Row

LEMMA RendererTold ==
  ASSUME Told, NEW d, Lined(Seen(jobs, d)), Renderer(d)
  PROVE  Told'
<1>1. Lined(View(jobs', wire', client', stored', log', last'))
  BY DEF Seen, Renderer
<1>2. InStep'
  BY DEF Told, InStep, Renderer
<1>3. Room'
  BY DEF Told, Room, StoredOfSends, Renderer
<1> QED BY <1>1, <1>2, <1>3 DEF Told, Seen

LEMMA WaitedTold ==
  ASSUME Told, NEW d, Waited(jobs, d), Renderer(d)
  PROVE  Told'
BY RendererTold DEF Waited

LEMMA SameTold ==
  ASSUME Inv, Told, NEW d, Same(client, d), Renderer(d)
  PROVE  Told'
<1>1. Lined(Seen(jobs, d))
  BY Grounds, SameView DEF Seen
<1> QED BY <1>1, RendererTold


LEMMA AsideTold ==
  ASSUME Inv, Told, Scroll \/ Leave \/ Evict \/ (\E id \in Ids : DeleteTimeout(id))
                      \/ \E keep \in 1..ListCap : TrimTail(keep) \/ TrimHead(keep)
  PROVE  Told'
<1>1. Sound(client) /\ client \in Clients(last)
  BY Grounds
<1>2. CASE Scroll
  <2>1. Same(client, [client EXCEPT !.bottom = ~client.bottom])
    BY <1>1 DEF Clients, Same
  <2> QED BY <1>2, <2>1, SameTold DEF Scroll
<1>3. CASE Leave
  <2> DEFINE saved == IF client.bottom THEN "bottom" ELSE "up"
             d == [client EXCEPT !.shown = FALSE, !.jump = 0, !.lastAfter = 0, !.saved = saved]
  <2>1. Same(client, d)
    BY <1>1 DEF Clients, Same
  <2>2. Renderer(d)
    BY <1>3 DEF Leave
  <2> HIDE DEF d
  <2> QED BY <2>1, <2>2, SameTold
<1>4. CASE Evict
  BY <1>1, <1>4, LoadEndsSame, SameTold DEF Evict
<1>5. ASSUME NEW id \in Ids, DeleteTimeout(id) PROVE Told'
  BY <1>1, <1>5, RemoveMessageSame, SameTold DEF DeleteTimeout
<1>6. ASSUME NEW keep \in 1..ListCap, TrimTail(keep) \/ TrimHead(keep) PROVE Told'
  <2> DEFINE d == [client EXCEPT !.rows = KeepOldest(client.rows, keep), !.newer = TRUE]
             e == [client EXCEPT !.rows = KeepNewest(client.rows, keep), !.older = TRUE]
  <2>1. Same(client, d) /\ Same(client, e)
    BY <1>1 DEF Clients, Same
  <2>2. Renderer(d) \/ Renderer(e)
    BY <1>6 DEF TrimTail, TrimHead
  <2> HIDE DEF d, e
  <2> QED BY <2>1, <2>2, SameTold
<1> QED BY <1>2, <1>3, <1>4, <1>5, <1>6

LEMMA AsideWaited ==
  ASSUME Inv, Told, NEW d, Aside(client, d), d.after = client.after
  PROVE  Waited(jobs, d)
<1>1. Same(client, d)
  BY DEF Aside, Same
<1>2. Sound(d)
  BY AsideTo
<1> QED BY <1>1, <1>2, Grounds, SameWaited

LEMMA LoadsTold ==
  ASSUME Inv, Told, Visit \/ RetryPressed \/ JumpToPresent \/ RetryLoad
  PROVE  Told'
<1>1. Sound(client) /\ client \in Clients(last) /\ Waited(jobs, client) /\ up
  BY Grounds
<1>2. CASE Visit
  <2> DEFINE bottom == client.saved # "up" \/ client.rows = {}
             d == [client EXCEPT !.shown = TRUE, !.bottom = bottom]
  <2>1. Aside(client, d) /\ d.after = client.after
    BY <1>1 DEF Aside, Clients
  <2>2. Renderer(d) \/ Renderer(LoadLatest(d))
    BY <1>2 DEF Visit
  <2> HIDE DEF d
  <2>3. Waited(jobs, d)
    BY <2>1, AsideWaited
  <2>4. Waited(jobs, LoadLatest(d))
    BY <1>1, <2>3, LoadLatestWaited
  <2> QED BY <2>2, <2>3, <2>4, WaitedTold
<1>3. CASE RetryPressed
  <2>1. Waited(jobs, LoadLatest(client))
    BY <1>1, LoadLatestWaited
  <2> QED BY <1>3, <2>1, WaitedTold DEF RetryPressed
<1>4. CASE JumpToPresent
  <2> DEFINE d == [client EXCEPT
       !.rows = {}, !.cached = TRUE, !.older = TRUE, !.newer = FALSE,
       !.fetched = FALSE, !.bottom = TRUE, !.saved = "bottom",
       !.jump = 0, !.lastBefore = 0, !.lastAfter = 0]
  <2>1. Aside(client, d) /\ d.after = client.after
    BY <1>1 DEF Aside, Clients
  <2>2. Renderer(LoadLatest(d))
    BY <1>4 DEF JumpToPresent
  <2> HIDE DEF d
  <2>3. Waited(jobs, d)
    BY <2>1, AsideWaited
  <2>4. Waited(jobs, LoadLatest(d))
    BY <1>1, <2>3, LoadLatestWaited
  <2> QED BY <2>2, <2>4, WaitedTold
<1>5. CASE RetryLoad
  <2> DEFINE tries == client.tries + 1
             d == [client EXCEPT !.tries = tries, !.load = "asked"]
             e == Ask(d, "latest", 0, PageLimit, "latest", 0)
  <2>2. Renderer(e)
    BY <1>1, <1>5 DEF RetryLoad
  <2>0. tries \in Nat
    BY <1>1 DEF Clients
  <2> HIDE DEF tries
  <2>1. Aside(client, d) /\ d.after = client.after
    BY <1>1, <2>0 DEF Aside, Clients
  <2> HIDE DEF d
  <2>3. Waited(jobs, d)
    BY <2>1, AsideWaited
  <2>4. Waited(jobs, e)
    BY <2>3, AskWaited, BoundsAssumption DEF Modes
  <2> HIDE DEF e
  <2> QED BY <2>2, <2>4, WaitedTold
<1> QED BY <1>2, <1>3, <1>4, <1>5

LEMMA JumpToId == ASSUME NEW id \in Ids, Inv, JumpTo(id) PROVE id \in Nat
BY DEF JumpTo, Inv, TypeOK

LEMMA AsksTold ==
  ASSUME Inv, Told, LoadOlder \/ LoadNewer \/ \E id \in Ids : JumpTo(id)
  PROVE  Told'
<1>1. client \in Clients(last) /\ last \in Nat /\ client.rows \in SUBSET (1..last)
  BY Grounds DEF Clients, Row
<1>2. CASE LoadOlder
  <2> DEFINE o == Oldest(client.rows)
             d == [client EXCEPT !.lastBefore = o]
             e == Ask(d, "before", o, PageLimit, "older", o)
  <2>1. o \in Nat
    <3>1. o \in 0..last
      BY <1>1, OldestIs
    <3> QED BY <1>1, <3>1
  <2>2. Renderer(e)
    BY <1>2 DEF LoadOlder
  <2> HIDE DEF o
  <2>3. Aside(client, d) /\ d.after = client.after
    BY <1>1, <2>1 DEF Aside, Clients
  <2> HIDE DEF d
  <2>4. Waited(jobs, e)
    BY <2>1, <2>3, AsideWaited, AskWaited, BoundsAssumption DEF Modes
  <2> HIDE DEF e
  <2> QED BY <2>2, <2>4, WaitedTold
<1>3. CASE LoadNewer
  <2> DEFINE o == Newest(client.rows)
             d == [client EXCEPT !.lastAfter = o]
             e == Ask(d, "after", o, PageLimit, "newer", o)
  <2>1. o \in Nat
    <3>1. o \in 0..last
      BY <1>1, NewestIs
    <3> QED BY <1>1, <3>1
  <2>2. Renderer(e)
    BY <1>3 DEF LoadNewer
  <2> HIDE DEF o
  <2>3. Aside(client, d) /\ d.after = client.after
    BY <1>1, <2>1 DEF Aside, Clients
  <2> HIDE DEF d
  <2>4. Waited(jobs, e)
    BY <2>1, <2>3, AsideWaited, AskWaited, BoundsAssumption DEF Modes
  <2> HIDE DEF e
  <2> QED BY <2>2, <2>4, WaitedTold
<1>4. ASSUME NEW id \in Ids, JumpTo(id) PROVE Told'
  <2> DEFINE d == [client EXCEPT !.jump = id, !.lastBefore = 0, !.lastAfter = 0,
                                 !.loading = TRUE]
             e == Ask(d, "around", id, WindowLimit, "jump", id)
  <2>1. id \in Nat
    BY <1>4, JumpToId
  <2>2. Renderer(e)
    BY <1>4 DEF JumpTo
  <2>3. Aside(client, d) /\ d.after = client.after
    BY <1>1, <2>1 DEF Aside, Clients
  <2> HIDE DEF d
  <2>4. Waited(jobs, e)
    BY <2>1, <2>3, AsideWaited, AskWaited, BoundsAssumption DEF Modes
  <2> HIDE DEF e
  <2> QED BY <2>2, <2>4, WaitedTold
<1> QED BY <1>2, <1>3, <1>4

LEMMA EchoTimerTold ==
  ASSUME Inv, Told, NEW n \in Sends, EchoTimer(n)
  PROVE  Told'
<1>1. /\ Waited(jobs, client) /\ up /\ client.after \in [Sends -> Nat]
      /\ Seen(jobs, client).after = client.after /\ Seen(jobs, client).stored = stored
      /\ Seen(jobs, client).last = last
  BY Grounds DEF Clients, Seen, View
<1>2. client.check[n] \notin Composing
  BY DEF EchoTimer, Composing
<1>3. Renderer(CheckServer(client, n))
  BY <1>1 DEF EchoTimer
<1>4. CASE client.bubble[n] = "pending"
  <2>1. client.after[n] <= last /\ (stored[n] # 0 => client.after[n] < stored[n])
    <3>1. Since(Seen(jobs, client))
      BY DEF Told, Lined
    <3> QED BY <1>1, <3>1 DEF Since
  <2> DEFINE from == client.after[n]
  <2>2. from \in Nat
    BY <1>1
  <2>5. from # 0 => Further(Seen(jobs, client), n, 1 - 1, from)
    <3>1. from + Span(0) <= from /\ 1 - 1 = 0
      BY <2>2, SpanGrows
    <3> QED BY <1>1, <3>1 DEF Further
  <2>6. from <= last /\ (stored[n] # 0 => from < stored[n]) /\ client.after[n] = from
    BY <2>1
  <2> HIDE DEF from
  <2>3. Waited(jobs, AskSince(client, n, from, 1))
    BY <1>1, <1>2, <2>2, <2>5, <2>6, FirstPage, AskSinceWaited
  <2>4. CheckServer(client, n) = AskSince(client, n, from, 1)
    BY <1>4 DEF CheckServer, from
  <2> QED BY <1>3, <2>3, <2>4, WaitedTold
<1>5. CASE client.bubble[n] # "pending"
  <2>1. Waited(jobs, [client EXCEPT !.check[n] = "off"])
    BY <1>1, <1>2, StageWaited
  <2>2. CheckServer(client, n) = [client EXCEPT !.check[n] = "off"]
    BY <1>5 DEF CheckServer
  <2> QED BY <1>3, <2>1, <2>2, WaitedTold
<1> QED BY <1>4, <1>5

LEMMA ComposeTold ==
  ASSUME Inv, Inv', Told, NEW n \in Sends, Compose(n)
  PROVE  Told'
<1> DEFINE after == Newest(client.rows)
           d == [client EXCEPT !.bubble[n] = "pending", !.check[n] = "queued",
                               !.after[n] = after, !.cached = TRUE]
           u == View(jobs, wire, d, stored, log, last)
           v == View(jobs, wire, client, stored, log, last)
<1>1. /\ Queued(jobs, wire, stored, log, last) /\ Clear(client, last) /\ Lined(v)
      /\ client \in Clients(last) /\ last \in Nat /\ client.rows \in SUBSET (1..last)
  BY Grounds DEF Clients, Row
<1>2. Renderer(d) /\ client.check[n] = "new"
  BY DEF Compose
<1>3. Clear(d, last)
  <2>1. Sound(client)'
    BY DEF Inv, TypeOK
  <2> HIDE DEF d
  <2> QED BY <1>2, <2>1 DEF Renderer, Clear, Sound, WaitsOK, WaitOK
<1>4. /\ d.waits = client.waits /\ d.asks = client.asks /\ d.withdrawn = client.withdrawn
      /\ \A m \in Sends : d.check[m] = IF m = n THEN "queued" ELSE client.check[m]
      /\ \A m \in Sends : d.after[m] = IF m = n THEN after ELSE client.after[m]
  BY <1>1 DEF Clients
<1>5. after <= last
  <2>1. after \in 0..last
    BY <1>1, NewestIs
  <2> QED BY <1>1, <2>1
<1>6. stored[n] = 0
  BY <1>2 DEF Inv, Unsent
<1> HIDE DEF after, d
<1>7. /\ v.after = client.after /\ v.stored = stored /\ v.last = last
      /\ u.after = d.after /\ u.stored = stored /\ u.last = last
  BY DEF View
<1> HIDE DEF v, u
<1>8. Since(u)
  BY <1>1, <1>4, <1>5, <1>6, <1>7 DEF Lined, Since
<1>9. \A m \in Sends : client.check[m] \notin Composing =>
        d.check[m] \notin Composing /\ d.after[m] = client.after[m]
  BY <1>2, <1>4 DEF Composing
<1>10. Lined(u)
  BY <1>1, <1>3, <1>4, <1>8, <1>9, StageLined DEF u, v
<1> QED BY <1>2, <1>10, RendererTold DEF u, Seen

LEMMA PostsTold ==
  ASSUME Inv, Inv', Told, (\E n \in Sends : Transmit(n)) \/ (\E id \in Ids : DeleteMine(id))
  PROVE  Told'
<1>1. /\ Queued(jobs, wire, stored, log, last) /\ Clear(client, last)
      /\ Lined(View(jobs, wire, client, stored, log, last)) /\ up
      /\ client \in Clients(last)
  BY Grounds
<1>2. ASSUME NEW d, Renderer(d), NEW a \in Asks, d.asks = Append(client.asks, a),
             a.t # "page",
             \A n \in Sends : a.t = "send" /\ a.id = n => client.check[n] \in Composing,
             \A n \in Sends : client.check[n] \notin Composing => d.check[n] \notin Composing,
             d.waits = client.waits, d.withdrawn = client.withdrawn, d.after = client.after
      PROVE  Told'
  <2>1. Clear(d, last)
    <3>1. Sound(client)'
      BY DEF Inv, TypeOK
    <3> QED BY <1>2, <3>1 DEF Renderer, Clear, Sound, WaitsOK, WaitOK
  <2>2. Lined(View(jobs, wire, d, stored, log, last))
    BY <1>1, <1>2, <2>1, AsksLined
  <2> QED BY <1>2, <2>2, RendererTold DEF Seen
<1>3. ASSUME NEW n \in Sends, Transmit(n) PROVE Told'
  <2> DEFINE a == [t |-> "send", id |-> n]
             d == [client EXCEPT !.check[n] = "armed", !.asks = Append(client.asks, a)]
  <2>1. Renderer(d) /\ client.check[n] = "queued"
    BY <1>1, <1>3 DEF Transmit
  <2>2. a \in Asks /\ a.t # "page" /\ a.id = n
    BY DEF Asks
  <2>3. /\ d.asks = Append(client.asks, a)
        /\ \A m \in Sends : d.check[m] = IF m = n THEN "armed" ELSE client.check[m]
        /\ d.waits = client.waits /\ d.withdrawn = client.withdrawn /\ d.after = client.after
    BY <1>1 DEF Clients
  <2> HIDE DEF d, a
  <2>4. /\ \A m \in Sends : a.t = "send" /\ a.id = m => client.check[m] \in Composing
        /\ \A m \in Sends : client.check[m] \notin Composing => d.check[m] \notin Composing
    BY <2>1, <2>2, <2>3 DEF Composing
  <2> QED BY <1>2, <2>1, <2>2, <2>3, <2>4
<1>4. ASSUME NEW id \in Ids, DeleteMine(id) PROVE Told'
  <2> DEFINE a == [t |-> "delete", id |-> id]
             rows == client.rows \ {id}
             deleting == client.deleting \cup {id}
             d == [client EXCEPT !.rows = rows, !.deleting = deleting,
                                 !.asks = Append(client.asks, a)]
  <2>1. Renderer(d) /\ id \in client.rows
    BY <1>4 DEF DeleteMine
  <2>2. a \in Asks /\ a.t = "delete"
    <3>1. id \in Nat
      BY <1>1, <2>1, Grounds DEF Clients, Row
    <3> QED BY <3>1 DEF Asks
  <2>3. /\ d.asks = Append(client.asks, a) /\ d.check = client.check
        /\ d.waits = client.waits /\ d.withdrawn = client.withdrawn /\ d.after = client.after
    BY <1>1 DEF Clients
  <2> HIDE DEF d, a
  <2> QED BY <1>2, <2>1, <2>2, <2>3
<1> QED BY <1>3, <1>4

-----------------------------------------------------------------------------
(* The server's steps.                                                     *)
LEMMA PushExtends ==
  ASSUME NEW P, NEW Q, NEW s \in Seq(Q), wire \in Seq(P), up, Push(s)
  PROVE  /\ Extends(wire', wire, Len(s)) /\ Len(wire) \in Nat /\ Len(s) \in Nat
         /\ DOMAIN wire' = 1..Len(wire')
         /\ \A i \in 1..Len(s) : wire'[Len(wire) + i] = s[i]
<1> DEFINE R == P \cup Q
<1>1. wire' = wire \o s
  BY DEF Push
<1>2. wire \in Seq(R) /\ s \in Seq(R)
  <2>1. P \subseteq R /\ Q \subseteq R
    OBVIOUS
  <2> HIDE DEF R
  <2> QED BY <2>1
<1> HIDE DEF R
<1>3. /\ Len(wire') = Len(wire) + Len(s) /\ Len(wire') \in Nat
      /\ \A i \in 1..Len(wire) : wire'[i] = wire[i]
      /\ \A i \in 1..Len(s) : wire'[Len(wire) + i] = s[i]
      /\ wire' \in Seq(R) /\ Len(wire) \in Nat /\ Len(s) \in Nat
  BY <1>1, <1>2
<1> QED BY <1>3 DEF Extends

LEMMA TailFollows ==
  ASSUME NEW P, NEW s \in Seq(P), s # <<>>
  PROVE  Follows(Tail(s), s, 1) /\ Head(s) = s[1] /\ s[1] \in P /\ 1 \in DOMAIN s
<1>1. /\ Len(Tail(s)) = Len(s) - 1 /\ Len(s) \in Nat /\ Len(s) >= 1
      /\ \A i \in 1..(Len(s) - 1) : Tail(s)[i] = s[i + 1]
      /\ Head(s) = s[1]
  BY HeadTailProperties
<1>2. s[1] \in P
  BY <1>1
<1> QED BY <1>1, <1>2 DEF Follows

LEMMA SameFollows ==
  ASSUME NEW P, NEW s \in Seq(P)
  PROVE  Follows(s, s, 0)
<1>1. Len(s) \in Nat /\ Len(s) = Len(s) + 0 /\ \A i \in 1..Len(s) : s[i] = s[i + 0]
  OBVIOUS
<1> QED BY <1>1 DEF Follows

(* The packets s are pushed; y = 1 when the first request is answered.     *)
Serving(s, y) ==
  /\ \E P : s \in Seq(P)
  /\ UNCHANGED <<up, jobs>> /\ Push(s) /\ y \in {0, 1}
  /\ y = 0 => client' = client
  /\ y = 1 => client.asks # <<>> /\ Served /\ Head(client.asks).t # "page"
  /\ \A i \in 1..Len(s) :
       /\ s[i].t \notin {"page", "auth"}
       /\ s[i].t = "rejected" =>
            Gone(View(jobs, wire', client', stored', log', last'), s[i].send)
  /\ last <= last' /\ \A i \in log' : i \in log \/ i > last
  /\ \A n \in Sends :
       \/ stored'[n] = stored[n]
       \/ /\ stored[n] = 0 /\ stored'[n] > last
          /\ y = 1 /\ Head(client.asks).t = "send" /\ Head(client.asks).id = n

LEMMA ServedTold ==
  ASSUME Inv, Inv', Told, Room', NEW s, NEW y, Serving(s, y)
  PROVE  Told'
<1> USE DEF Serving
<1>0. PICK P : s \in Seq(P)
  OBVIOUS
<1> DEFINE x == Len(s)
           r == wire'
           d == client'
           tt == stored'
           mg == log'
           l == last'
<1>1. /\ Queued(jobs, wire, stored, log, last) /\ Clear(client, last)
      /\ Lined(View(jobs, wire, client, stored, log, last)) /\ up
      /\ client \in Clients(last)
  BY Grounds
<1>2. Queued(jobs, r, tt, mg, l) /\ Clear(d, l)
  BY DEF Inv, TypeOK, Queued, Clear, Sound, Row
<1>3. /\ Extends(r, wire, x) /\ x \in Nat /\ y \in Nat /\ y \in {0, 1} /\ Len(wire) \in Nat /\ DOMAIN r = 1..Len(r)
      /\ \A i \in 1..x : r[Len(wire) + i] = s[i]
  <2>1. wire \in Seq(Packets(last))
    BY <1>1 DEF Queued
  <2> QED BY <1>0, <1>1, <2>1, PushExtends
<1>4. client.asks \in Seq(Asks)
  BY <1>1 DEF Clients
<1>5. ASSUME y = 1
      PROVE  d.asks = Tail(client.asks) /\ Head(client.asks) = client.asks[1]
             /\ d.waits = client.waits /\ d.check = client.check
             /\ d.withdrawn = client.withdrawn /\ d.after = client.after
  BY <1>1, <1>4, <1>5, TailFollows DEF Served, Clients
<1>6. Follows(d.asks, client.asks, y)
  <2>1. CASE y = 0
    BY <1>4, <2>1, SameFollows
  <2>2. CASE y = 1
    BY <1>4, <1>5, <2>2, TailFollows
  <2> QED BY <2>1, <2>2
<1>7. /\ d.waits = client.waits /\ d.check = client.check
      /\ d.withdrawn = client.withdrawn /\ d.after = client.after
  BY <1>5
<1>8. /\ y = 1 => client.asks[1].t # "page"
      /\ \A n \in Sends :
           \/ tt[n] = stored[n]
           \/ /\ stored[n] = 0 /\ tt[n] > last
              /\ y = 1 /\ client.asks[1].t = "send" /\ client.asks[1].id = n
  BY <1>5
<1>9. \A i \in 1..x :
        /\ r[Len(wire) + i].t # "page"
        /\ r[Len(wire) + i].t = "rejected" =>
             Gone(View(jobs, r, d, tt, mg, l), r[Len(wire) + i].send)
  BY <1>3
<1>10. last <= l /\ \A i \in mg : i \in log \/ i > last
  OBVIOUS
<1>11. InStep'
  <2>1. up' /\ \A k \in 1..Len(wire) : wire[k].t # "auth"
    BY <1>1 DEF Told, InStep
  <2>2. \A k \in DOMAIN wire' : k \in 1..Len(wire) \/ \E i \in 1..Len(s) : k = Len(wire) + i
    <3>1. Len(wire') = Len(wire) + Len(s) /\ Len(wire) \in Nat /\ Len(s) \in Nat
          /\ DOMAIN wire' = 1..Len(wire')
      BY <1>3 DEF Extends
    <3>2. \A k \in 1..(Len(wire) + Len(s)) : k > Len(wire) =>
            k - Len(wire) \in 1..Len(s) /\ k = Len(wire) + (k - Len(wire))
      BY <3>1
    <3>3. \A k \in 1..(Len(wire) + Len(s)) : ~(k > Len(wire)) => k \in 1..Len(wire)
      BY <3>1
    <3> QED BY <3>1, <3>2, <3>3
  <2>3. \A k \in 1..Len(wire) : wire'[k] = wire[k]
    BY <1>3 DEF Extends
  <2>4. \A k \in DOMAIN wire' : wire'[k].t # "auth"
    <3>1. ASSUME NEW i \in 1..Len(s) PROVE wire'[Len(wire) + i].t # "auth"
      BY <1>3
    <3> QED BY <2>1, <2>2, <2>3, <3>1
  <2> QED BY <2>1, <2>4 DEF InStep
<1> HIDE DEF x, r, d, tt, mg, l, Serving
<1>12. Serves(jobs, wire, client, stored, log, last, r, d, tt, mg, l, x, y)
  BY <1>3, <1>6, <1>7, <1>8, <1>9, <1>10 DEF Serves
<1>13. Lined(View(jobs, r, d, tt, mg, l))
  BY <1>1, <1>2, <1>12, ServedLined
<1>14. Lined(Seen(jobs, client))'
  BY <1>13 DEF r, d, tt, mg, l, Seen, Serving
<1> QED BY <1>11, <1>14 DEF Told

LEMMA RoomKept ==
  ASSUME Inv, Room,
         \/ UNCHANGED <<last, stored>>
         \/ /\ last < OldRows + MaxPosts + Cardinality(StoredOfSends)
            /\ last' = last + 1 /\ stored' = stored
         \/ \E n \in Sends : /\ stored[n] = 0 /\ last' = last + 1
                             /\ stored' = [m \in Sends |-> IF m = n THEN last' ELSE stored[m]]
  PROVE  Room'
<1>1. /\ last \in Nat /\ IsFiniteSet(Sends) /\ OldRows \in Nat /\ MaxPosts \in Nat
      /\ stored \in [Sends -> 0..last]
  BY BoundsAssumption DEF Inv, TypeOK
<1> DEFINE S == StoredOfSends
           k == Cardinality(S)
<1>2. IsFiniteSet(S) /\ k \in Nat
  <2>1. S \in SUBSET Sends
    BY DEF StoredOfSends
  <2> HIDE DEF S
  <2> QED BY <1>1, <2>1, FS_Subset, FS_CardinalityType
<1>3. OldRows <= last /\ last <= OldRows + MaxPosts + k
      /\ \A n \in Sends : stored[n] # 0 => stored[n] > OldRows
  BY DEF Room
<1>4. CASE UNCHANGED <<last, stored>>
  BY <1>4 DEF Room, StoredOfSends
<1>5. CASE last < OldRows + MaxPosts + k /\ last' = last + 1 /\ stored' = stored
  <2>1. StoredOfSends' = S
    BY <1>5 DEF StoredOfSends
  <2> HIDE DEF S
  <2>2. OldRows <= last' /\ last' <= OldRows + MaxPosts + k
    BY <1>1, <1>2, <1>3, <1>5
  <2> QED BY <1>3, <1>5, <2>1, <2>2 DEF Room
<1>6. ASSUME NEW n \in Sends, stored[n] = 0, last' = last + 1,
             stored' = [m \in Sends |-> IF m = n THEN last' ELSE stored[m]]
      PROVE  Room'
  <2>1. StoredOfSends' = S \cup {n} /\ n \notin S
    BY <1>1, <1>6 DEF StoredOfSends
  <2> HIDE DEF S
  <2>2. Cardinality(S \cup {n}) = k + 1
    BY <1>2, <2>1, FS_AddElement
  <2>3. OldRows <= last' /\ last' <= OldRows + MaxPosts + (k + 1) /\ last' > OldRows
    BY <1>1, <1>2, <1>3, <1>6
  <2>4. \A m \in Sends : stored'[m] # 0 => stored'[m] > OldRows
    BY <1>3, <1>6, <2>3
  <2> QED BY <1>6, <2>1, <2>2, <2>3, <2>4 DEF Room
<1> QED BY <1>4, <1>5, <1>6

LEMMA PostTold ==
  ASSUME Inv, Inv', Told, Post \/ \E id \in Ids : ServerDelete(id)
  PROVE  Told'
<1>1. last \in Nat
  BY Grounds
<1>2. CASE Post
  <2> DEFINE id == last + 1
             p == [Packet("msg") EXCEPT !.id = id]
  <2>1. /\ last' = last + 1 /\ log' = log \cup {last + 1} /\ Push(<<p>>)
        /\ UNCHANGED <<stored, up, jobs, client>>
        /\ last < OldRows + MaxPosts + Cardinality(StoredOfSends)
    BY <1>2 DEF Post
  <2>2. p.t = "msg"
    BY DEF Packet
  <2> HIDE DEF id, p
  <2>3. <<p>> \in Seq({p}) /\ Len(<<p>>) = 1 /\ <<p>>[1] = p
    OBVIOUS
  <2>4. Room'
    BY <2>1, RoomKept DEF Told
  <2>5. last <= last' /\ \A i \in log' : i \in log \/ i > last
    BY <1>1, <2>1
  <2>6. \A i \in 1..Len(<<p>>) : <<p>>[i].t = "msg"
    BY <2>2, <2>3
  <2>7. Serving(<<p>>, 0)
    <3>1. \E P : <<p>> \in Seq(P)
      BY <2>3
    <3>2. \A i \in 1..Len(<<p>>) :
            <<p>>[i].t \notin {"page", "auth"} /\ <<p>>[i].t # "rejected"
      BY <2>6
    <3> QED BY <2>1, <2>5, <3>1, <3>2 DEF Serving
  <2> QED BY <2>4, <2>7, ServedTold
<1>3. ASSUME NEW id \in Ids, ServerDelete(id) PROVE Told'
  <2> DEFINE p == [Packet("deleted") EXCEPT !.id = id]
  <2>1. /\ log' = log \ {id} /\ Push(<<p>>) /\ UNCHANGED <<last, stored, up, jobs, client>>
    BY <1>3 DEF ServerDelete
  <2>2. p.t = "deleted"
    BY DEF Packet
  <2> HIDE DEF p
  <2>3. <<p>> \in Seq({p}) /\ Len(<<p>>) = 1 /\ <<p>>[1] = p
    OBVIOUS
  <2>4. Room'
    BY <2>1, RoomKept DEF Told
  <2>5. last <= last' /\ \A i \in log' : i \in log \/ i > last
    BY <1>1, <2>1
  <2>6. \A i \in 1..Len(<<p>>) : <<p>>[i].t = "deleted"
    BY <2>2, <2>3
  <2>7. Serving(<<p>>, 0)
    <3>1. \E P : <<p>> \in Seq(P)
      BY <2>3
    <3>2. \A i \in 1..Len(<<p>>) :
            <<p>>[i].t \notin {"page", "auth"} /\ <<p>>[i].t # "rejected"
      BY <2>6
    <3> QED BY <2>1, <2>5, <3>1, <3>2 DEF Serving
  <2> QED BY <2>4, <2>7, ServedTold
<1> QED BY <1>2, <1>3

LEMMA StoreSendTold ==
  ASSUME Inv, Inv', Told, StoreSend
  PROVE  Told'
<1> DEFINE n == Head(client.asks).id
           id == last + 1
           p == [Packet("msg") EXCEPT !.id = id, !.send = n]
<1>1. /\ Served /\ last' = last + 1 /\ log' = log \cup {last + 1} /\ Push(<<p>>)
      /\ stored' = [stored EXCEPT ![n] = last + 1] /\ UNCHANGED <<up, jobs>>
  BY DEF StoreSend
<1>2. last \in Nat /\ stored \in [Sends -> 0..last]
  BY Grounds
<1>3. client.asks # <<>> /\ Head(client.asks).t = "send" /\ n \in Sends /\ stored[n] = 0
  BY HeadAsk DEF StoreSend
<1>4. stored' = [m \in Sends |-> IF m = n THEN last' ELSE stored[m]]
  BY <1>1, <1>2, <1>3
<1>5. p.t = "msg"
  BY DEF Packet
<1>6. Head(client.asks).id = n
  OBVIOUS
<1> HIDE DEF p, id, n
<1>7. Room'
  BY <1>1, <1>3, <1>4, RoomKept DEF Told
<1>8. Serving(<<p>>, 1)
  <2>1. <<p>> \in Seq({p}) /\ Len(<<p>>) = 1 /\ <<p>>[1] = p
    OBVIOUS
  <2>2. \A i \in 1..Len(<<p>>) :
          <<p>>[i].t \notin {"page", "auth"} /\ <<p>>[i].t # "rejected"
    BY <1>5, <2>1
  <2>3. last <= last' /\ \A i \in log' : i \in log \/ i > last
    BY <1>1, <1>2
  <2>4. \A m \in Sends : stored'[m] = stored[m] \/ (stored[m] = 0 /\ stored'[m] > last /\ m = n)
    BY <1>1, <1>2, <1>3, <1>4
  <2>5. \E P : <<p>> \in Seq(P)
    BY <2>1
  <2>6. Head(client.asks).t # "page"
    BY <1>3
  <2> QED BY <1>1, <1>3, <1>6, <2>2, <2>3, <2>4, <2>5, <2>6 DEF Serving
<1> QED BY <1>7, <1>8, ServedTold

LEMMA ServeDeleteTold ==
  ASSUME Inv, Inv', Told, ServeDelete
  PROVE  Told'
<1> DEFINE id == Head(client.asks).id
           more == id \in log
           ack == [Packet("ack") EXCEPT !.id = id, !.more = more]
           deleted == [Packet("deleted") EXCEPT !.id = id]
           s == IF id \in log THEN <<ack, deleted>> ELSE <<ack>>
<1>1. /\ Served /\ log' = log \ {id} /\ Push(s) /\ UNCHANGED <<last, stored, up, jobs>>
  BY DEF ServeDelete
<1>2. last \in Nat
  BY Grounds
<1>3. client.asks # <<>> /\ Head(client.asks).t = "delete"
  BY HeadAsk DEF ServeDelete
<1>4. ack.t = "ack" /\ deleted.t = "deleted"
  BY DEF Packet
<1> HIDE DEF ack, deleted, id
<1>5. /\ s \in Seq({ack, deleted})
      /\ \A i \in 1..Len(s) : s[i] \in {ack, deleted}
  <2>1. CASE id \in log
    BY <2>1, TwoPackets
  <2>2. CASE id \notin log
    BY <2>2, OnePacket
  <2> QED BY <2>1, <2>2
<1> HIDE DEF s
<1>6. Room'
  BY <1>1, RoomKept DEF Told
<1>7. Serving(s, 1)
  <2>1. \E P : s \in Seq(P)
    BY <1>5
  <2>2. \A i \in 1..Len(s) : s[i].t \notin {"page", "auth"} /\ s[i].t # "rejected"
    BY <1>4, <1>5
  <2>3. last <= last' /\ \A i \in log' : i \in log \/ i > last
    BY <1>1, <1>2
  <2>4. Head(client.asks).t # "page"
    BY <1>3
  <2> QED BY <1>1, <1>3, <2>1, <2>2, <2>3, <2>4 DEF Serving
<1> QED BY <1>6, <1>7, ServedTold

LEMMA RefuseSendTold ==
  ASSUME Inv, Inv', Told, RefuseSend
  PROVE  Told'
<1> DEFINE n == Head(client.asks).id
           p == [Packet("rejected") EXCEPT !.send = n]
           u == View(jobs, wire', client', stored', log', last')
<1>1. /\ Served /\ Push(<<p>>) /\ UNCHANGED <<log, last, stored, up, jobs>>
  BY DEF RefuseSend
<1>2. last \in Nat /\ client \in Clients(last) /\ log \in SUBSET (1..last)
  BY Grounds DEF Queued
<1>3. /\ client.asks # <<>> /\ Head(client.asks).t = "send" /\ n \in Sends /\ stored[n] = 0
      /\ client.check[n] \notin {"new", "queued"}
      /\ client.asks[1] = Head(client.asks) /\ 1 \in DOMAIN client.asks
  BY HeadAsk DEF RefuseSend
<1>4. p.t = "rejected" /\ p.send = n
  BY DEF Packet
<1> HIDE DEF p
<1>5. client'.check = client.check /\ client'.asks = Tail(client.asks)
      /\ client.asks \in Seq(Asks)
  BY <1>1, <1>2 DEF Served, Clients
<1>6. Gone(u, n)
  <2>1. /\ Queued(jobs, wire', stored', log', last') /\ Clear(client', last')
    BY <1>1 DEF Inv, TypeOK, Queued, Clear, Sound, Row
  <2>2. Len(jobs) \in Nat /\ Len(wire') \in Nat /\ Len(client'.asks) \in Nat
    BY <2>1, ViewIs
  <2>3. /\ u.check = client.check /\ u.stored = stored /\ u.log = log
        /\ u.line = Line(jobs, wire', client'.asks)
        /\ Slots(u) = 1..Size(jobs, wire', client'.asks)
    BY <1>1, <1>5 DEF View, Slots
  <2> DEFINE w == wire'
             a == client'.asks
  <2>4. \A i \in 1..Len(a) :
          /\ i + 1 \in DOMAIN client.asks /\ a[i] = client.asks[i + 1] /\ 1 # i + 1
    <3>1. /\ Len(a) = Len(client.asks) - 1 /\ Len(client.asks) \in Nat
          /\ \A i \in 1..(Len(client.asks) - 1) : a[i] = client.asks[i + 1]
      BY <1>3, <1>5, HeadTailProperties
    <3> HIDE DEF a
    <3> QED BY <1>5, <3>1
  <2>5. ASSUME NEW i \in 1..Len(a), a[i].t = "send", a[i].id = n
        PROVE  FALSE
    <3>1. \A j \in DOMAIN client.asks :
            client.asks[j].t = "send" /\ client.asks[j].id = n => 1 = j
      BY <1>3 DEF Inv, SendsWait
    <3> QED BY <2>4, <2>5, <3>1
  <2> HIDE DEF u, w, a, n
  <2>6. ASSUME NEW q \in Slots(u) PROVE ~Sending(u.line[q], n)
    <3>1. q \in 1..Size(jobs, w, a) /\ u.line = Line(jobs, w, a)
      BY <2>3, <2>6 DEF w, a
    <3>2. Len(jobs) \in Nat /\ Len(w) \in Nat /\ Len(a) \in Nat
      BY <2>2 DEF w, a
    <3>3. /\ \A i \in 1..Len(jobs) : Line(jobs, w, a)[i] = Given(jobs[i])
          /\ \A i \in 1..Len(w) : Line(jobs, w, a)[OnWire(jobs, i)] = Given(w[i])
          /\ \A i \in 1..Len(a) : Line(jobs, w, a)[AsAsk(jobs, w, i)] = Asked(a[i])
      BY <3>2, LineAll
    <3>4. \/ q \in 1..Len(jobs) \/ \E i \in 1..Len(w) : q = OnWire(jobs, i)
          \/ \E i \in 1..Len(a) : q = AsAsk(jobs, w, i)
      BY <3>1, <3>2, LineSlot
    <3>0. \A x, m : ~Sending(Given(x), m)
      BY DEF Sending, Given
    <3>5. CASE q \in 1..Len(jobs)
      <4>1. u.line[q] = Given(jobs[q])
        BY <3>1, <3>3, <3>5
      <4> QED BY <3>0, <4>1
    <3>6. ASSUME NEW i \in 1..Len(w), q = OnWire(jobs, i)
          PROVE  ~Sending(u.line[q], n)
      <4>1. u.line[q] = Given(w[i])
        BY <3>1, <3>3, <3>6
      <4> QED BY <3>0, <4>1
    <3>7. ASSUME NEW i \in 1..Len(a), q = AsAsk(jobs, w, i)
          PROVE  ~Sending(u.line[q], n)
      <4>1. u.line[q] = Asked(a[i])
        BY <3>1, <3>3, <3>7
      <4> QED BY <2>5, <4>1 DEF Sending, Asked
    <3> QED BY <3>4, <3>5, <3>6, <3>7
  <2>7. stored[n] \notin log
    BY <1>2, <1>3
  <2> QED BY <1>3, <2>3, <2>6, <2>7 DEF Gone, Landed, Composing
<1> HIDE DEF n
<1>7. Room'
  BY <1>1, RoomKept DEF Told
<1>8. Serving(<<p>>, 1)
  <2>1. <<p>> \in Seq({p}) /\ Len(<<p>>) = 1 /\ <<p>>[1] = p
    OBVIOUS
  <2>2. \A i \in 1..Len(<<p>>) : <<p>>[i].t \notin {"page", "auth"} /\ <<p>>[i].send = n
    BY <1>4, <2>1
  <2>3. last <= last' /\ \A i \in log' : i \in log \/ i > last
    BY <1>1, <1>2
  <2>4. \E P : <<p>> \in Seq(P)
    BY <2>1
  <2>5. \A i \in 1..Len(<<p>>) : <<p>>[i].t = "rejected" => Gone(u, <<p>>[i].send)
    BY <1>6, <2>2
  <2>6. Head(client.asks).t # "page"
    BY <1>3
  <2> QED BY <1>1, <1>3, <2>2, <2>3, <2>4, <2>5, <2>6 DEF Serving
<1> QED BY <1>7, <1>8, ServedTold

-----------------------------------------------------------------------------
(* The page for a check has the row of its send, or ends below it and says  *)
(* that there is more.                                                      *)
LEMMA NewestRowsHold ==
  ASSUME NEW k \in Nat, NEW S \in SUBSET (1..k), NEW m \in S, NEW c \in Nat, k - m < c
  PROVE  m \in KeepNewest(S, c)
<1> DEFINE T == {x \in S : x > m}
           I == (m + 1)..k
<1>1. m \in Nat /\ m <= k /\ T \in SUBSET I
  <2>1. \A x \in S : x \in Nat /\ x <= k
    OBVIOUS
  <2>2. \A x \in S : x > m => x \in I
    BY <2>1
  <2> QED BY <2>1, <2>2
<1>2. IsFiniteSet(I) /\ Cardinality(I) = k - m
  <2>1. m + 1 \in Int /\ k \in Int
    BY <1>1
  <2>2. IsFiniteSet(I) /\ Cardinality(I) = IF m + 1 > k THEN 0 ELSE k - (m + 1) + 1
    BY <2>1, FS_Interval
  <2> HIDE DEF I
  <2> QED BY <1>1, <2>2
<1> HIDE DEF I
<1>3. Cardinality(T) <= k - m /\ Cardinality(T) \in Nat
  <2> HIDE DEF T
  <2> QED BY <1>1, <1>2, FS_Subset, FS_CardinalityType
<1>4. Cardinality(T) < c
  <2> HIDE DEF T
  <2> QED BY <1>1, <1>3
<1> QED BY <1>4 DEF KeepNewest

LEMMA OldestRowsEnd ==
  ASSUME NEW k \in Nat, NEW S \in SUBSET (1..k), NEW m \in S, NEW c \in Nat \ {0},
         m \notin KeepOldest(S, c), NEW cur \in Nat, \A r \in S : r > cur
  PROVE  /\ Cardinality(S) > c /\ Newest(KeepOldest(S, c)) \in S
         /\ Newest(KeepOldest(S, c)) < m /\ cur + c <= Newest(KeepOldest(S, c))
<1> DEFINE page == KeepOldest(S, c)
           Under(r) == {x \in S : x < r}
<1>0. \A r \in S : r \in Nat
  OBVIOUS
<1>1. \A r \in S : r \in page <=> Cardinality(Under(r)) < c
  BY DEF KeepOldest
<1>2. page \in SUBSET S
  BY DEF KeepOldest
<1>3. \A T \in SUBSET S : IsFiniteSet(T) /\ Cardinality(T) \in Nat
  <2>1. IsFiniteSet(1..k)
    <3>1. 1 \in Int /\ k \in Int
      OBVIOUS
    <3> QED BY <3>1, FS_Interval
  <2>2. \A T \in SUBSET S : T \in SUBSET (1..k)
    OBVIOUS
  <2> QED BY <2>1, <2>2, FS_Subset, FS_CardinalityType
<1>4. \A r \in S : Under(r) \in SUBSET S /\ r \notin Under(r)
  BY <1>0
<1>5. \A r \in S : r > m => Under(m) \in SUBSET Under(r)
  <2> SUFFICES ASSUME NEW r \in S, r > m, NEW x \in S, x < m PROVE x < r
    OBVIOUS
  <2> QED BY <1>0
<1>6. Under(m) \cup {m} \in SUBSET S
  OBVIOUS
<1>7. PICK o \in S : Under(o) = {}
  <2>1. S \in SUBSET Nat /\ S # {}
    OBVIOUS
  <2>2. PICK o \in S : \A x \in S : o <= x
    BY <2>1, LeastNat
  <2>3. \A x \in S : ~(x < o)
    BY <1>0, <2>2
  <2> QED BY <2>3
<1> HIDE DEF page, Under
<1>8. Cardinality(Under(m)) >= c
  <2>1. ~(Cardinality(Under(m)) < c)
    BY <1>1 DEF page
  <2>2. Cardinality(Under(m)) \in Nat
    BY <1>3, <1>4
  <2> QED BY <2>1, <2>2
<1>9. Cardinality(S) > c
  <2>1. Cardinality(Under(m) \cup {m}) = Cardinality(Under(m)) + 1
    BY <1>3, <1>4, FS_AddElement
  <2>2. Cardinality(Under(m) \cup {m}) <= Cardinality(S)
    <3> DEFINE U == Under(m) \cup {m}
    <3>1. U \in SUBSET S /\ S \in SUBSET S
      BY <1>6
    <3> HIDE DEF U
    <3>2. Cardinality(U) <= Cardinality(S)
      BY <1>3, <3>1, FS_Subset
    <3> QED BY <3>2 DEF U
  <2>3. Cardinality(S) \in Nat /\ Cardinality(Under(m)) \in Nat
    BY <1>3, <1>4
  <2> QED BY <1>8, <2>1, <2>2, <2>3
<1>10. \A r \in page : r < m
  <2> SUFFICES ASSUME NEW r \in page, ~(r < m) PROVE FALSE
    OBVIOUS
  <2>1. r \in S /\ r # m /\ r > m
    <3>1. r \in S /\ r # m
      BY <1>2 DEF page
    <3> QED BY <1>0, <3>1
  <2>2. Cardinality(Under(m)) <= Cardinality(Under(r))
    BY <1>3, <1>4, <1>5, <2>1, FS_Subset
  <2>3. Cardinality(Under(r)) < c
    BY <1>1, <2>1
  <2> QED BY <1>3, <1>4, <1>8, <2>1, <2>2, <2>3
<1>11. o \in page
  BY <1>1, <1>7, FS_EmptySet
<1>12. Newest(page) \in page
  <2>1. page \in SUBSET (1..k) /\ page # {}
    BY <1>2, <1>11
  <2> QED BY <2>1, NewestIs
<1> DEFINE e == Newest(page)
           Above == {x \in S : x > e}
<1>13. /\ e \in page /\ e \in S /\ e \in Nat /\ e < m /\ \A x \in page : x <= e
  <2>1. page \in SUBSET (1..k) /\ page # {}
    BY <1>2, <1>11
  <2>2. \A x \in page : x <= Newest(page)
    BY <2>1, NewestIs
  <2> QED BY <1>0, <1>2, <1>10, <1>12, <2>2
<1> HIDE DEF e
<1>14. PICK y \in Above : \A x \in Above : y <= x
  <2>1. Above \in SUBSET Nat /\ m \in Above
    BY <1>0, <1>13
  <2> HIDE DEF Above
  <2> QED BY <2>1, LeastNat
<1>15. y \in S /\ y \in Nat /\ y > e /\ \A x \in S : x < y => x <= e
  <2>1. y \in S /\ y \in Nat /\ y > e
    BY <1>0, <1>14
  <2>2. ASSUME NEW x \in S, x < y PROVE x <= e
    BY <1>0, <1>13, <1>14, <2>1, <2>2
  <2> QED BY <2>1, <2>2
<1>16. ~(Cardinality(Under(y)) < c)
  <2>1. y \notin page
    BY <1>13, <1>15
  <2> QED BY <1>1, <1>15, <2>1 DEF page
<1>17. Cardinality(Under(y)) <= e - cur
  <2> DEFINE I == (cur + 1)..e
             T == Under(y)
  <2>1. T \in SUBSET I
    <3>1. ASSUME NEW x \in T PROVE x \in Nat /\ x > cur /\ x <= e
      BY <1>0, <1>15, <3>1 DEF Under
    <3> QED BY <1>13, <3>1
  <2>2. IsFiniteSet(I) /\ Cardinality(I) = IF cur + 1 > e THEN 0 ELSE e - (cur + 1) + 1
    <3>1. cur + 1 \in Int /\ e \in Int
      BY <1>13
    <3> QED BY <3>1, FS_Interval
  <2>3. e > cur
    BY <1>13
  <2>4. Cardinality(I) = e - cur
    BY <1>13, <2>2, <2>3
  <2> HIDE DEF I, T
  <2>5. Cardinality(T) <= Cardinality(I)
    BY <2>1, <2>2, FS_Subset
  <2> QED BY <2>4, <2>5 DEF T
<1>18. cur + c <= e
  <2>1. Cardinality(Under(y)) \in Nat
    BY <1>3, <1>4, <1>15
  <2> QED BY <1>13, <1>16, <1>17, <2>1
<1> QED BY <1>2, <1>9, <1>13, <1>18 DEF page, e

LEMMA PageTells ==
  ASSUME Inv, Room, NEW a, a.limit = CheckLimit, a.mode \in {"latest", "after"},
         NEW n \in Sends, stored[n] \in log, a.id \in Nat, a.mode = "latest" => Deep,
         a.mode = "after" => a.id < stored[n]
  PROVE  \/ stored[n] \in PageFor(a).rows
         \/ /\ a.mode = "after" /\ PageFor(a).newer
            /\ a.id + CheckLimit <= Newest(PageFor(a).rows)
            /\ Newest(PageFor(a).rows) < stored[n]
<1>1. /\ last \in Nat /\ log \in SUBSET (1..last) /\ CheckLimit \in Nat \ {0}
      /\ OldRows \in Nat /\ MaxPosts \in Nat /\ IsFiniteSet(Sends)
  BY BoundsAssumption DEF Inv, TypeOK, Row
<1> DEFINE m == stored[n]
           S == {r \in log : r > a.id}
<1>2. m \in log /\ m \in Nat /\ m # 0
  <2>1. \A r \in log : r \in Nat /\ r # 0
    BY <1>1
  <2> HIDE DEF m
  <2> QED BY <2>1 DEF m
<1>3. KeepNewest({}, CheckLimit) = {} /\ KeepOldest({}, CheckLimit) = {}
  BY DEF KeepNewest, KeepOldest
<1>4. CASE a.mode = "latest"
  <2>1. PageFor(a).rows = KeepNewest(log, CheckLimit) \cup KeepOldest({}, CheckLimit)
    BY <1>4 DEF PageFor, Packet
  <2>2. last - m < CheckLimit
    <3>1. m > OldRows /\ last <= OldRows + MaxPosts + Cardinality(StoredOfSends)
      BY <1>2 DEF Room
    <3>2. /\ Cardinality(StoredOfSends) <= Cardinality(Sends)
          /\ Cardinality(StoredOfSends) \in Nat /\ Cardinality(Sends) \in Nat
      <4> DEFINE T == StoredOfSends
      <4>1. T \in SUBSET Sends
        BY DEF StoredOfSends
      <4> HIDE DEF T
      <4>2. Cardinality(T) <= Cardinality(Sends) /\ Cardinality(T) \in Nat
            /\ Cardinality(Sends) \in Nat
        BY <1>1, <4>1, FS_Subset, FS_CardinalityType
      <4> QED BY <4>2 DEF T
    <3> HIDE DEF m
    <3> QED BY <1>1, <1>2, <1>4, <3>1, <3>2 DEF Deep
  <2> HIDE DEF m
  <2>3. m \in KeepNewest(log, CheckLimit)
    BY <1>1, <1>2, <2>2, NewestRowsHold
  <2> QED BY <2>1, <2>3 DEF m
<1>5. CASE a.mode = "after"
  <2>1. /\ PageFor(a).rows = KeepNewest({}, CheckLimit) \cup KeepOldest(S, CheckLimit)
        /\ PageFor(a).newer = (Cardinality(S) > CheckLimit)
    BY <1>5 DEF PageFor, Packet
  <2>2. PageFor(a).rows = KeepOldest(S, CheckLimit)
    BY <1>3, <2>1
  <2>3. S \in SUBSET (1..last) /\ m \in S /\ \A r \in S : r > a.id
    BY <1>1, <1>2, <1>5
  <2> HIDE DEF S, m
  <2>4. CASE m \in KeepOldest(S, CheckLimit)
    BY <2>2, <2>4 DEF m
  <2>5. CASE m \notin KeepOldest(S, CheckLimit)
    <3>1. /\ Cardinality(S) > CheckLimit
          /\ Newest(KeepOldest(S, CheckLimit)) < m
          /\ a.id + CheckLimit <= Newest(KeepOldest(S, CheckLimit))
      BY <1>1, <2>3, <2>5, OldestRowsEnd
    <3> QED BY <1>5, <2>1, <2>2, <3>1 DEF m
  <2> QED BY <2>4, <2>5
<1> QED BY <1>4, <1>5

LEMMA ServePageTold ==
  ASSUME Inv, Inv', Told, ServePage
  PROVE  Told'
<1> DEFINE o == Head(client.asks)
           p == PageFor(o)
           r == wire'
           d == client'
           a == client.asks
           b == d.asks
           m == Len(jobs) + Len(wire)
           s == m + 1
           v == View(jobs, wire, client, stored, log, last)
           u == View(jobs, r, d, stored, log, last)
<1>1. /\ Served /\ Push(<<p>>) /\ UNCHANGED <<log, last, stored, up, jobs>>
  BY DEF ServePage
<1>2. /\ Queued(jobs, wire, stored, log, last) /\ Clear(client, last)
      /\ Lined(v) /\ up /\ client \in Clients(last) /\ last \in Nat
  BY Grounds
<1>3. a # <<>> /\ o \in Asks /\ o.t = "page" /\ a[1] = o
  BY HeadAsk DEF ServePage
<1>4. Queued(jobs, r, stored, log, last) /\ Clear(d, last)
  BY <1>1 DEF Inv, TypeOK, Queued, Clear, Sound, Row
<1>5. /\ p.t = "page" /\ p.mode = o.mode /\ p.cur = o.id
  BY DEF PageFor, Packet
<1>6. /\ b = Tail(a) /\ d.waits = client.waits /\ d.check = client.check
      /\ d.withdrawn = client.withdrawn /\ d.after = client.after /\ a \in Seq(Asks)
  BY <1>1, <1>2 DEF Served, Clients
<1>7. ViewOK(v) /\ ViewOK(u) /\ Len(jobs) \in Nat /\ Len(wire) \in Nat /\ Len(a) \in Nat
  BY <1>2, <1>4, ViewIs
<1>8. /\ Extends(r, wire, 1) /\ r[Len(wire) + 1] = p
  <2>1. <<p>> \in Seq({p}) /\ Len(<<p>>) = 1 /\ <<p>>[1] = p
    OBVIOUS
  <2>2. wire \in Seq(Packets(last))
    BY <1>2 DEF Queued
  <2> HIDE DEF p
  <2>3. /\ Extends(wire', wire, Len(<<p>>))
        /\ \A i \in 1..Len(<<p>>) : wire'[Len(wire) + i] = <<p>>[i]
    BY <1>1, <1>2, <2>1, <2>2, PushExtends
  <2> QED BY <2>1, <2>3
<1>9. Follows(b, a, 1)
  BY <1>3, <1>6, TailFollows
<1>10. InStep'
  <2>1. up' /\ \A k \in 1..Len(wire) : wire[k].t # "auth"
    BY <1>1, <1>2 DEF Told, InStep
  <2>2. DOMAIN wire' = 1..Len(wire') /\ Len(wire') = Len(wire) + 1
    <3>1. r \in Seq(Packets(last))
      BY <1>4 DEF Queued
    <3> QED BY <1>8, <3>1 DEF Extends
  <2>3. \A k \in DOMAIN wire' : k \in 1..Len(wire) \/ k = Len(wire) + 1
    BY <1>7, <2>2
  <2>4. \A k \in 1..Len(wire) : wire'[k] = wire[k]
    BY <1>8 DEF Extends
  <2>5. wire'[Len(wire) + 1].t # "auth"
    BY <1>5, <1>8
  <2>6. \A k \in DOMAIN wire' : wire'[k].t # "auth"
    BY <2>1, <2>3, <2>4, <2>5
  <2> QED BY <2>1, <2>6 DEF InStep
<1>11. Room'
  BY <1>1, RoomKept DEF Told
<1>12. /\ v.size = Size(jobs, wire, a) /\ v.line = Line(jobs, wire, a)
       /\ v.waits = client.waits /\ v.check = client.check /\ v.withdrawn = client.withdrawn
       /\ v.after = client.after /\ v.stored = stored /\ v.log = log /\ v.last = last
       /\ Slots(v) = 1..Size(jobs, wire, a)
  BY DEF View, Slots
<1>13. /\ u.size = Size(jobs, r, b) /\ u.line = Line(jobs, r, b)
       /\ u.waits = v.waits /\ u.check = v.check /\ u.withdrawn = v.withdrawn
       /\ u.after = v.after /\ u.stored = v.stored /\ u.log = v.log /\ u.last = v.last
       /\ Slots(u) = 1..Size(jobs, r, b)
  BY <1>6, <1>12 DEF View, Slots
<1>14. o \in Asks /\ o.id \in Nat /\ o.mode \in Modes
  BY <1>3, BoundsAssumption DEF Asks
<1> HIDE DEF v, u, a, b, r, d
<1> HIDE DEF p, o
<1>15. Answering(jobs, wire, a, r, b, 1, 1)
  BY <1>7, <1>8, <1>9, LineAnswers
<1>16. /\ m \in Nat /\ v.size = m + Len(a) /\ u.size = v.size /\ Slots(u) = Slots(v)
       /\ \A q \in Slots(u) : q # s => u.line[q] = v.line[q]
       /\ u.line[s] = Given(p) /\ v.line[s] = Asked(o)
  <2>1. /\ m \in Nat /\ Size(jobs, wire, a) = m + Len(a)
        /\ Size(jobs, r, b) = (Size(jobs, wire, a) + 1) - 1
        /\ \A q \in 1..Size(jobs, r, b) :
             /\ q <= m => Line(jobs, r, b)[q] = Line(jobs, wire, a)[q]
             /\ q > m + 1 => Line(jobs, r, b)[q] = Line(jobs, wire, a)[(q + 1) - 1]
        /\ \A i \in 1..1 : Line(jobs, r, b)[m + i] = Given(r[Len(wire) + i])
        /\ Line(jobs, wire, a)[m + 1] = Asked(a[1])
    BY <1>15 DEF Answering
  <2> HIDE DEF m
  <2>2. Size(jobs, r, b) = Size(jobs, wire, a)
    BY <1>7, <2>1
  <2>3. \A q \in 1..Size(jobs, r, b) : q # m + 1 =>
          Line(jobs, r, b)[q] = Line(jobs, wire, a)[q]
    <3> SUFFICES ASSUME NEW q \in 1..Size(jobs, r, b), q # m + 1
                 PROVE  Line(jobs, r, b)[q] = Line(jobs, wire, a)[q]
      OBVIOUS
    <3>1. q \in Nat /\ (q + 1) - 1 = q /\ (q <= m \/ q > m + 1)
      BY <1>7, <2>1
    <3> QED BY <2>1, <3>1
  <2>4. Line(jobs, r, b)[m + 1] = Given(p)
    <3>1. 1 \in 1..1
      OBVIOUS
    <3> QED BY <1>8, <2>1, <3>1
  <2> QED BY <1>3, <1>12, <1>13, <2>1, <2>2, <2>3, <2>4
<1>17. s \in Slots(v) /\ \A q \in Slots(v) : q < s => q <= m
  <2>1. Len(a) >= 1
    BY <1>7, <1>9 DEF Follows
  <2> HIDE DEF m
  <2> QED BY <1>7, <1>12, <1>16, <2>1
<1>18. \A q \in Slots(v) : q < s => ~v.line[q].asked
  <2> SUFFICES ASSUME NEW q \in Slots(v), q < s PROVE ~v.line[q].asked
    OBVIOUS
  <2>1. q \in 1..Size(jobs, wire, a)
    BY <1>12
  <2>2. q <= m
    BY <1>17
  <2>3. \/ q \in 1..Len(jobs) \/ \E i \in 1..Len(wire) : q = OnWire(jobs, i)
        \/ \E i \in 1..Len(a) : q = AsAsk(jobs, wire, i)
    BY <1>7, <2>1, LineSlot
  <2>4. \A i \in 1..Len(a) : ~(AsAsk(jobs, wire, i) <= m)
    BY <1>7 DEF AsAsk
  <2>5. \A x : Given(x).asked = FALSE
    BY DEF Given
  <2>6. CASE q \in 1..Len(jobs)
    <3>1. v.line[q] = Given(jobs[q])
      BY <1>7, <1>12, <2>6, LineJob
    <3> QED BY <2>5, <3>1
  <2>7. ASSUME NEW i \in 1..Len(wire), q = OnWire(jobs, i)
        PROVE  ~v.line[q].asked
    <3>1. v.line[q] = Given(wire[i])
      BY <1>7, <1>12, <2>7, LineWire
    <3> QED BY <2>5, <3>1
  <2> QED BY <2>2, <2>3, <2>4, <2>6, <2>7
<1> HIDE DEF s, m
<1>19. /\ v.line[s].asked = TRUE /\ v.line[s].of = o /\ u.line[s].asked = FALSE
       /\ u.line[s].of = p
  BY <1>16 DEF Given, Asked
<1>20. IsPage(v.line[s]) /\ IsPage(u.line[s])
  BY <1>3, <1>5, <1>19 DEF IsPage
<1>21. Later(v, u)
  <2>1. v.last <= u.last
    BY <1>2, <1>12, <1>13
  <2>2. ASSUME NEW n \in Sends, NEW q \in Slots(u), Sending(u.line[q], n)
        PROVE  \E i \in Slots(v) : Sending(v.line[i], n)
    BY <1>16, <1>19, <2>2 DEF Sending
  <2> QED BY <1>13, <2>1, <2>2 DEF Later
<1>22. \A w : AnswersTo(w, v.line[s]) => AnswersTo(w, u.line[s])
  BY <1>5, <1>19 DEF AnswersTo
<1>23. ASSUME NEW w \in Waits, w.arg \in Sends, v.check[w.arg] \notin Composing,
              AnswersTo(w, v.line[s]), Asking(v, w, s)
       PROVE  Telling(u, w, u.line[s].of)
  <2> DEFINE n == w.arg
  <2>1. n \in Sends /\ v.check[n] \notin Composing
    BY <1>23
  <2>2. CASE Gone(v, n)
    BY <1>7, <1>21, <2>1, <2>2, GoneStays DEF Telling
  <2>3. CASE ~Gone(v, n)
    <3>1. Begins(v, w, s)
      BY <1>23, <2>3 DEF Asking
    <3>2. /\ o.limit = CheckLimit /\ o.mode \in {"latest", "after"}
          /\ o.mode = "latest" => client.after[n] = 0
          /\ o.mode = "after" => (stored[n] # 0 => o.id < stored[n])
          /\ \A q \in Slots(v) : Sending(v.line[q], n) => q < s
      BY <1>12, <1>19, <3>1 DEF Begins
    <3>3. \A q \in Slots(v) : ~Sending(v.line[q], n)
      BY <1>18, <3>2 DEF Sending
    <3>4. stored[n] \in log /\ (o.mode = "latest" => Deep)
      BY <1>12, <2>1, <2>3, <3>2, <3>3 DEF Gone, Landed, Reached, Further
    <3>5. stored[n] # 0
      <4>1. log \in SUBSET (1..last)
        BY <1>2 DEF Queued
      <4> QED BY <1>2, <3>4, <4>1
    <3> HIDE DEF n
    <3>6. o.mode = "after" => o.id < stored[n]
      BY <3>2, <3>5
    <3>7. \/ stored[n] \in p.rows
          \/ /\ o.mode = "after" /\ p.newer
             /\ o.id + CheckLimit <= Newest(p.rows) /\ Newest(p.rows) < stored[n]
      <4>1. Room
        BY DEF Told
      <4> QED BY <1>14, <2>1, <3>2, <3>4, <3>6, <4>1, PageTells DEF p
    <3>8. o.mode = "after" =>
            w.mode = "after" /\ w.cur = o.id /\ Further(v, n, w.page - 1, o.id)
      BY <1>19, <1>23, <3>1 DEF AnswersTo, Begins, n
    <3>9. Landed(u, n)
      <4>1. ASSUME NEW q \in Slots(u), Sending(u.line[q], n) PROVE FALSE
        BY <1>16, <1>19, <3>3, <4>1 DEF Sending
      <4> QED BY <4>1 DEF Landed
    <3> DEFINE e == Newest(p.rows)
    <3>10. ASSUME o.mode = "after", o.id + CheckLimit <= e, e < stored[n]
           PROVE  o.id < e /\ Further(u, n, w.page, e)
      <4>1. e \in Nat /\ o.id \in Nat /\ CheckLimit \in Nat \ {0} /\ client.after[n] \in Nat
        <5>1. p.rows \in SUBSET (1..last)
          <6>1. p \in Packets(last)
            BY <1>7, <1>12, <1>13, <1>16, <1>17, <1>19 DEF ViewOK, SlotOK
          <6> QED BY <6>1 DEF Packets, Row
        <5>2. e \in 0..last
          BY <1>2, <5>1, NewestIs
        <5>3. client.after \in [Sends -> Nat]
          BY <1>2 DEF Clients
        <5> HIDE DEF e
        <5> QED BY <1>2, <1>14, <2>1, <5>2, <5>3, BoundsAssumption
      <4>2. /\ w.page \in 1..CheckPages /\ w.page - 1 \in Nat /\ Span(w.page - 1) \in Nat
            /\ Span(w.page) = Span(w.page - 1) + CheckLimit
        BY SpanGrows DEF Waits
      <4>3. client.after[n] # 0 /\ client.after[n] + Span(w.page - 1) <= o.id
        BY <1>12, <3>8, <3>10 DEF Further
      <4> HIDE DEF e
      <4>4. o.id < e /\ client.after[n] + Span(w.page) <= e
        BY <3>10, <4>1, <4>2, <4>3
      <4>5. u.after[n] = client.after[n]
        BY <1>12, <1>13
      <4> QED BY <4>3, <4>4, <4>5 DEF Further
    <3> QED BY <1>12, <1>13, <1>19, <3>7, <3>8, <3>9, <3>10 DEF Telling, n
  <2> QED BY <2>2, <2>3
<1>24. Since(u)
  BY <1>2, <1>13 DEF Lined, Since
<1>25. /\ \A q \in Slots(v) : q # s => u.line[q] = v.line[q]
       /\ v.line[s].asked /\ ~u.line[s].asked
       /\ \A n \in u.withdrawn : n \in v.withdrawn \/ Gone(u, n)
  BY <1>13, <1>16, <1>19
<1>26. Lined(u)
  BY <1>2, <1>7, <1>13, <1>16, <1>17, <1>20, <1>21, <1>22, <1>23, <1>24, <1>25, LineServes
<1>27. Lined(View(jobs', wire', client', stored', log', last'))
  BY <1>1, <1>26 DEF u, r, d
<1> QED BY <1>10, <1>11, <1>27 DEF Told, Seen

-----------------------------------------------------------------------------
(* The transport's steps.                                                  *)
LEMMA ReadTold ==
  ASSUME Inv, Inv', Told, Read
  PROVE  Told'
<1> DEFINE p == Head(wire)
           r == wire'
           i == jobs'
           d == client'
<1>1. /\ Queued(jobs, wire, stored, log, last) /\ Clear(client, last)
      /\ Lined(View(jobs, wire, client, stored, log, last)) /\ up /\ last \in Nat
      /\ client \in Clients(last) /\ Sound(client)
  BY Grounds
<1>2. wire # <<>> /\ r = Tail(wire) /\ UNCHANGED <<log, last, stored, up, spent>>
  BY DEF Read
<1>3. Queued(i, r, stored, log, last) /\ Clear(d, last)
  BY <1>2 DEF Inv, TypeOK, Queued, Clear, Sound, Row
<1>4. /\ Follows(r, wire, 1) /\ wire[1] = p /\ 1 \in DOMAIN wire
      /\ wire \in Seq(Packets(last)) /\ jobs \in Seq(Packets(last))
      /\ r \in Seq(Packets(last)) /\ p \in Packets(last)
  <2>1. wire \in Seq(Packets(last)) /\ jobs \in Seq(Packets(last)) /\ r \in Seq(Packets(last))
    BY <1>1, <1>3 DEF Queued
  <2> QED BY <1>2, <2>1, TailFollows
<1>5. InStep' /\ p.t # "auth"
  <2>1. up' /\ \A k \in DOMAIN wire : wire[k].t # "auth"
    BY <1>1, <1>2 DEF Told, InStep
  <2>2. \A k \in DOMAIN r : k + 1 \in DOMAIN wire /\ r[k] = wire[k + 1]
    <3>1. DOMAIN r = 1..Len(r) /\ DOMAIN wire = 1..Len(wire)
      BY <1>4
    <3> QED BY <1>4, <3>1 DEF Follows
  <2>3. \A k \in DOMAIN r : r[k].t # "auth"
    BY <2>1, <2>2
  <2> QED BY <1>4, <2>1, <2>3 DEF InStep
<1>6. Room'
  BY <1>2, RoomKept DEF Told
<1>7. Lined(View(i, r, d, stored, log, last)) => Told'
  <2>1. View(i, r, d, stored, log, last) = View(jobs', wire', client', stored', log', last')
    BY <1>2
  <2> QED BY <1>5, <1>6, <2>1 DEF Told, Seen
<1>8. CASE p.t \in {"msg", "page"}
  <2>1. i = Append(jobs, p) /\ d = client
    BY <1>8 DEF Read
  <2>2. Extends(i, jobs, 1) /\ i[Len(jobs) + 1] = p
    <3> HIDE DEF p
    <3>1. /\ Len(Append(jobs, p)) = Len(jobs) + 1 /\ Len(jobs) \in Nat
          /\ \A k \in 1..Len(jobs) : Append(jobs, p)[k] = jobs[k]
          /\ Append(jobs, p)[Len(jobs) + 1] = p
      BY <1>4, AppendProperties
    <3> QED BY <2>1, <3>1 DEF Extends
  <2> DEFINE a == client.asks
  <2>3. Len(jobs) \in Nat /\ Len(wire) \in Nat /\ Len(a) \in Nat
    BY <1>1, ViewIs
  <2> HIDE DEF a, p
  <2>4. i[Len(jobs) + 1] = wire[1]
    BY <1>4, <2>2
  <2>5. Line(i, r, a) = Line(jobs, wire, a) /\ Size(i, r, a) = Size(jobs, wire, a)
    <3> HIDE DEF i, r
    <3> QED BY <1>4, <2>2, <2>3, <2>4, LineReads
  <2>6. View(i, r, d, stored, log, last) = View(jobs, wire, client, stored, log, last)
    BY <2>1, <2>5 DEF View, a
  <2> QED BY <1>1, <1>7, <2>6
<1>9. CASE p.t \notin {"msg", "page"}
  <2>1. i = jobs /\ d = OnDirect(client, p)
    BY <1>9 DEF Read
  <2> HIDE DEF p, r, d
  <2>2. /\ Lined(View(jobs, r, client, stored, log, last))
        /\ p.t = "rejected" => Gone(View(jobs, r, client, stored, log, last), p.send)
    <3>1. wire[1].t # "page" /\ Queued(jobs, r, stored, log, last)
      BY <1>3, <1>4, <1>9, <2>1
    <3>2. /\ Lined(View(jobs, r, client, stored, log, last))
          /\ wire[1].t = "rejected" =>
               Gone(View(jobs, r, client, stored, log, last), wire[1].send)
      BY <1>1, <1>4, <3>1, ReadLined
    <3> QED BY <1>4, <3>2
  <2>3. CASE Same(client, d)
    BY <1>7, <2>1, <2>2, <2>3, SameView
  <2>4. CASE d = Withdraw(client, p.send) /\ p.t = "rejected"
    <3> DEFINE n == p.send
               v == View(jobs, r, client, stored, log, last)
               u == View(jobs, r, d, stored, log, last)
    <3>1. Gone(v, n) /\ Lined(v)
      BY <2>2, <2>4
    <3>2. /\ d.waits = client.waits /\ d.asks = client.asks /\ d.after = client.after
          /\ d.withdrawn = client.withdrawn \cup {n}
          /\ \A m \in Sends : d.check[m] = IF m = n THEN "off" ELSE client.check[m]
      BY <1>1, <2>4 DEF Withdraw, WithoutBubbles, Clients
    <3>3. n \in Sends
      <4>1. PacketOK(p, last)
        BY <1>1, <1>4 DEF Queued
      <4> QED BY <2>4, <4>1 DEF PacketOK
    <3> HIDE DEF n
    <3>4. \A m \in Sends : client.check[m] \notin Composing =>
            d.check[m] \notin Composing /\ d.after[m] = client.after[m]
      BY <3>2 DEF Composing
    <3>5. /\ v.line = u.line /\ Slots(v) = Slots(u) /\ v.check = client.check
          /\ u.check = d.check /\ v.stored = u.stored /\ v.log = u.log
          /\ v.after = u.after /\ v.last = u.last
      BY <3>2 DEF View, Slots
    <3> HIDE DEF v, u
    <3>6. Gone(u, n) /\ Since(u)
      BY <3>1, <3>3, <3>4, <3>5 DEF Gone, Landed, Reached, Since, Lined
    <3>7. \A m \in d.withdrawn : m \in client.withdrawn \/ Gone(u, m)
      BY <3>2, <3>6
    <3>8. Queued(jobs, r, stored, log, last)
      BY <1>3, <2>1
    <3>9. Lined(u)
      BY <1>1, <1>3, <3>1, <3>2, <3>4, <3>6, <3>7, <3>8, StageLined DEF u, v
    <3> QED BY <1>7, <2>1, <3>9 DEF u
  <2>5. Same(client, d) \/ (d = Withdraw(client, p.send) /\ p.t = "rejected")
    <3>1. p.t \in {"rejected", "deleted", "ack"}
      BY <1>4, <1>5, <1>9 DEF Packets
    <3>2. CASE p.t = "rejected"
      BY <2>1, <3>2 DEF OnDirect, Same
    <3>3. CASE p.t = "deleted"
      BY <1>1, <2>1, <3>3, RemoveMessageSame DEF OnDirect
    <3>4. CASE p.t = "ack"
      BY <1>1, <2>1, <3>4, RemoveMessageSame DEF OnDirect
    <3> QED BY <3>1, <3>2, <3>3, <3>4
  <2> QED BY <2>3, <2>4, <2>5
<1> QED BY <1>8, <1>9

(* Only messages and pages wait for the worker.                            *)
ForWorker == \A k \in DOMAIN jobs : jobs[k].t \in {"msg", "page"}

LEMMA ReadForWorker ==
  ASSUME Inv, ForWorker, Read
  PROVE  ForWorker'
<1>1. CASE Head(wire).t \in {"msg", "page"}
  <2> DEFINE p == Head(wire)
  <2>1. jobs' = Append(jobs, p)
    BY <1>1 DEF Read
  <2>2. jobs \in Seq(Packets(last))
    BY DEF Inv, TypeOK
  <2> HIDE DEF p
  <2>3. DOMAIN jobs' = 1..(Len(jobs) + 1) /\ DOMAIN jobs = 1..Len(jobs) /\ Len(jobs) \in Nat
    BY <2>1, <2>2
  <2>4. \A k \in 1..(Len(jobs) + 1) : jobs'[k] = IF k = Len(jobs) + 1 THEN p ELSE jobs[k]
    BY <2>1, <2>2
  <2>5. \A k \in 1..(Len(jobs) + 1) : k = Len(jobs) + 1 \/ k \in 1..Len(jobs)
    BY <2>3
  <2>6. p.t \in {"msg", "page"}
    BY <1>1 DEF p
  <2> QED BY <2>3, <2>4, <2>5, <2>6 DEF ForWorker
<1>2. CASE Head(wire).t \notin {"msg", "page"}
  BY <1>2 DEF Read, ForWorker
<1> QED BY <1>1, <1>2

LEMMA WorkForWorker ==
  ASSUME Inv, ForWorker, Work
  PROVE  ForWorker'
<1>1. jobs # <<>> /\ jobs' = Tail(jobs) /\ jobs \in Seq(Packets(last))
  BY DEF Work, Inv, TypeOK
<1>2. Follows(Tail(jobs), jobs, 1) /\ Tail(jobs) \in Seq(Packets(last))
  BY <1>1, TailFollows
<1>3. /\ DOMAIN jobs = 1..Len(jobs) /\ DOMAIN jobs' = 1..Len(jobs')
      /\ Len(jobs) = Len(jobs') + 1 /\ Len(jobs') \in Nat
      /\ \A k \in 1..Len(jobs') : jobs'[k] = jobs[k + 1]
  BY <1>1, <1>2 DEF Follows
<1>4. \A k \in 1..Len(jobs') : k + 1 \in 1..Len(jobs)
  BY <1>3
<1> QED BY <1>3, <1>4 DEF ForWorker

LEMMA ForWorkerKept == Inv /\ ForWorker /\ [Next]_vars => ForWorker'
<1> SUFFICES ASSUME Inv, ForWorker, [Next]_vars PROVE ForWorker'
  OBVIOUS
<1>1. CASE Read
  BY <1>1, ReadForWorker
<1>2. CASE Work
  BY <1>2, WorkForWorker
<1>3. CASE jobs' = jobs
  BY <1>3 DEF ForWorker
<1>4. CASE Post \/ (\E id \in Ids : ServerDelete(id)) \/ Serve
  BY <1>3, <1>4 DEF Post, ServerDelete, Serve, StoreSend, RefuseSend, ServePage, ServeDelete
<1>5. CASE SkipFrame \/ Drop \/ Reconnect
  BY <1>3, <1>5 DEF SkipFrame, Drop, Reconnect
<1>6. CASE User
  BY <1>3, <1>6 DEF User, Scroll, Leave, Visit, Evict, RetryPressed, LoadOlder, LoadNewer,
     JumpToPresent, JumpTo, DeleteMine, TrimTail, TrimHead, Compose, Renderer
<1>7. CASE Timers
  BY <1>3, <1>7 DEF Timers, RetryLoad, LostReply, Expire, Transmit, EchoTimer, ReplyTimeout,
     DeleteTimeout, Renderer
<1>8. CASE UNCHANGED vars
  BY <1>3, <1>8 DEF vars
<1> QED BY <1>1, <1>2, <1>4, <1>5, <1>6, <1>7, <1>8 DEF Next, Transport

LEMMA WorkTold ==
  ASSUME Inv, Inv', Told, ForWorker, Work
  PROVE  Told'
<1> DEFINE p == Head(jobs)
           i == Tail(jobs)
<1>1. /\ Queued(jobs, wire, stored, log, last) /\ Clear(client, last) /\ Sound(client)
      /\ Lined(View(jobs, wire, client, stored, log, last))
  BY Grounds
<1>2. jobs # <<>> /\ jobs' = i /\ UNCHANGED <<log, last, stored, up, wire, spent>>
  BY DEF Work
<1>3. InStep' /\ Room'
  BY <1>2, RoomKept DEF Told, InStep
<1>4. ASSUME Lined(Seen(i, client')) PROVE Told'
  <2>1. Lined(View(jobs', wire', client', stored', log', last'))
    BY <1>2, <1>4 DEF Seen
  <2> QED BY <1>3, <2>1 DEF Told, Seen
<1>5. CASE p.t = "page"
  <2>1. client' = OnHistory(client, p)
    BY <1>5 DEF Work
  <2>2. Waited(i, OnHistory(client, p))
    BY <1>2, <1>5, PageWaited DEF Told
  <2> QED BY <1>4, <2>1, <2>2 DEF Waited
<1>6. CASE p.t # "page"
  <2>1. Queued(i, wire, stored, log, last)
    BY <1>2 DEF Inv, TypeOK, Queued, Row
  <2>2. Follows(i, jobs, 1) /\ jobs[1].t # "page"
    <3>1. jobs \in Seq(Packets(last))
      BY <1>1 DEF Queued
    <3> QED BY <1>2, <1>6, <3>1, TailFollows
  <2> HIDE DEF i
  <2>3. Lined(View(i, wire, client, stored, log, last))
    BY <1>1, <2>1, <2>2, WorkLined
  <2>4. Same(client, client')
    <3>1. client' = AddMessage(client, p.id, p.send) \/ client' = OnHistory(client, p)
      BY DEF Work
    <3>2. CASE p.t = "msg"
      <4>1. client' = AddMessage(client, p.id, p.send)
        BY <3>2 DEF Work
      <4> QED BY <1>1, <4>1, AddMessageSame
    <3>3. p.t = "msg"
      <4>1. jobs \in Seq(Packets(last))
        BY <1>1 DEF Queued
      <4>2. 1 \in DOMAIN jobs /\ jobs[1] = p
        BY <1>2, <4>1
      <4> QED BY <1>6, <4>2 DEF ForWorker
    <3> QED BY <3>2, <3>3
  <2> QED BY <1>4, <2>3, <2>4, SameView DEF Seen
<1> QED BY <1>5, <1>6

-----------------------------------------------------------------------------
(* The steps that do not happen: no wait is cut short, and a wait has its  *)
(* request or its page under way.                                          *)
LEMMA NoFault ==
  ASSUME MaxLosses = 0, Inv
  PROVE  ~SkipFrame /\ \A i \in DOMAIN client.waits : ~ReplyTimeout(i)
<1>1. spent.losses \in Nat
  BY DEF Inv, TypeOK, Spent
<1>2. ~(spent.losses < MaxLosses)
  BY <1>1
<1> QED BY <1>2 DEF SkipFrame, ReplyTimeout

LEMMA NoLostReply ==
  ASSUME Inv, Told
  PROVE  ~LostReply
<1> SUFFICES ASSUME LostReply PROVE FALSE
  OBVIOUS
<1> DEFINE v == View(jobs, wire, client, stored, log, last)
           a == client.asks
<1>1. /\ Queued(jobs, wire, stored, log, last) /\ Clear(client, last) /\ Lined(v)
  BY Grounds
<1>2. /\ Len(jobs) \in Nat /\ Len(wire) \in Nat /\ Len(a) \in Nat /\ client.waits \in Seq(Waits)
      /\ jobs \in Seq(Packets(last)) /\ wire \in Seq(Packets(last)) /\ a \in Seq(Asks)
  BY <1>1, ViewIs DEF Queued
<1>3. /\ \A k \in 1..Len(a) : a[k].t # "page"
      /\ \A k \in 1..Len(wire) : wire[k].t # "page"
      /\ \A k \in 1..Len(jobs) : jobs[k].t # "page"
  BY <1>2 DEF LostReply, NothingComes
<1>4. client.waits # <<>> /\ v.waits = client.waits
  BY DEF LostReply, View
<1>5. v.line = Line(jobs, wire, a) /\ Slots(v) = 1..Size(jobs, wire, a)
  BY DEF View, Slots
<1>6. 1 \in 1..Len(v.waits)
  BY <1>2, <1>4
<1>7. PICK g : Pairs(Len(v.waits), Pages(v), Fitting(v), g)
  BY <1>1 DEF Lined, Aligned, Matches
<1>8. g[1] \in Slots(v) /\ IsPage(v.line[g[1]])
  BY <1>6, <1>7 DEF Pairs, Pages
<1> DEFINE q == g[1]
<1> HIDE DEF v, a, q
<1>9. q \in 1..Size(jobs, wire, a) /\ Line(jobs, wire, a)[q].of.t = "page"
  BY <1>5, <1>8 DEF q, IsPage
<1>10. /\ \A p \in 1..Len(jobs) : Line(jobs, wire, a)[p] = Given(jobs[p])
       /\ \A p \in 1..Len(wire) : Line(jobs, wire, a)[OnWire(jobs, p)] = Given(wire[p])
       /\ \A p \in 1..Len(a) : Line(jobs, wire, a)[AsAsk(jobs, wire, p)] = Asked(a[p])
       /\ \/ q \in 1..Len(jobs)
          \/ \E p \in 1..Len(wire) : q = OnWire(jobs, p)
          \/ \E p \in 1..Len(a) : q = AsAsk(jobs, wire, p)
  BY <1>2, <1>9, LineAll
<1>11. \A x : Given(x).of = x /\ Asked(x).of = x
  BY DEF Given, Asked
<1> QED BY <1>3, <1>9, <1>10, <1>11

-----------------------------------------------------------------------------
(* The invariant from the first state on.                                  *)
LEMMA InitTold == Init => Told /\ ForWorker
<1> SUFFICES ASSUME Init PROVE Told /\ ForWorker
  OBVIOUS
<1>1. /\ jobs = <<>> /\ wire = <<>> /\ client.asks = <<>> /\ client.waits = <<>>
      /\ client.withdrawn = {} /\ client.after = [n \in Sends |-> 0]
      /\ stored = [n \in Sends |-> 0] /\ last = OldRows /\ up
  BY DEF Init
<1> DEFINE v == Seen(jobs, client)
<1>2. v.waits = <<>> /\ v.size = 0 /\ v.withdrawn = {} /\ v.after = client.after
      /\ v.stored = stored /\ v.last = last
  <2>1. Len(<<>>) = 0
    OBVIOUS
  <2> QED BY <1>1, <2>1 DEF Seen, View, Size
<1> HIDE DEF v
<1>3. Slots(v) = {} /\ Pages(v) = {} /\ Len(v.waits) = 0
  BY <1>2 DEF Slots, Pages
<1>4. Aligned(v)
  <2> DEFINE g == [i \in 1..0 |-> 0]
  <2>1. 1..0 = {}
    OBVIOUS
  <2>2. g \in [1..0 -> {}]
    BY <2>1
  <2> HIDE DEF g
  <2>3. Pairs(0, {}, Fitting(v), g)
    BY <2>1, <2>2 DEF Pairs
  <2>4. Matches(0, {}, Fitting(v))
    BY <2>3 DEF Matches
  <2> QED BY <1>3, <2>4 DEF Aligned
<1>5. Rejecting(v) /\ TakenBack(v)
  BY <1>2, <1>3 DEF Rejecting, TakenBack
<1>6. last \in Nat /\ MaxPosts \in Nat /\ OldRows \in Nat
  BY <1>1, BoundsAssumption
<1>7. Since(v)
  BY <1>1, <1>2, <1>6 DEF Since
<1>8. Room
  <2>1. StoredOfSends = {}
    BY <1>1 DEF StoredOfSends
  <2>2. Cardinality(StoredOfSends) = 0
    BY <2>1, FS_EmptySet
  <2>3. \A n \in Sends : stored[n] = 0
    BY <1>1
  <2> QED BY <1>1, <1>6, <2>2, <2>3 DEF Room
<1>9. InStep /\ ForWorker
  BY <1>1 DEF InStep, ForWorker
<1> QED BY <1>4, <1>5, <1>7, <1>8, <1>9 DEF Told, Lined, v

LEMMA NextTold ==
  ASSUME MaxLosses = 0
  PROVE  Inv /\ Inv' /\ Told /\ ForWorker /\ ~Drop /\ [Next]_vars => Told'
<1> SUFFICES ASSUME Inv, Inv', Told, ForWorker, ~Drop, [Next]_vars PROVE Told'
  OBVIOUS
<1>1. CASE Post \/ \E id \in Ids : ServerDelete(id)
  BY <1>1, PostTold
<1>2. CASE Serve
  BY <1>2, StoreSendTold, RefuseSendTold, ServePageTold, ServeDeleteTold DEF Serve
<1>3. CASE Transport
  <2>1. ~SkipFrame /\ ~Reconnect
    BY NoFault DEF Told, InStep, Reconnect
  <2> QED BY <1>3, <2>1, ReadTold, WorkTold DEF Transport
<1>4. CASE User
  BY <1>4, AsideTold, LoadsTold, AsksTold, PostsTold, ComposeTold DEF User
<1>5. CASE Timers
  <2>1. ~LostReply /\ \A i \in DOMAIN client.waits : ~ReplyTimeout(i)
    BY NoFault, NoLostReply
  <2> QED BY <1>5, <2>1, LoadsTold, PostsTold, EchoTimerTold, AsideTold DEF Timers
<1>6. CASE UNCHANGED vars
  BY <1>6, RendererTold DEF Told, Renderer, vars
<1> QED BY <1>1, <1>2, <1>3, <1>4, <1>5, <1>6 DEF Next

LEMMA SpecTold == ASSUME Faultless PROVE Spec => []Told
<1>1. Inv /\ ForWorker /\ [Next]_vars => ForWorker'
  BY ForWorkerKept
<1>2. Inv /\ Inv' /\ Told /\ ForWorker /\ [Next]_vars => Told'
  <2>1. Inv => ~Drop
    <3>1. Inv => spent.drops \in Nat
      BY DEF Inv, TypeOK, Spent
    <3> QED BY <3>1 DEF Drop, Faultless
  <2> QED BY <2>1, NextTold DEF Faultless
<1> QED BY <1>1, <1>2, InitTold, SpecInv, PTL DEF Spec

(* With no lost connection and no wait cut short, a send that was composed *)
(* below a loaded row, and whose row is within CheckPages pages of it, is  *)
(* taken back only when the server does not have it: the echo watchdog     *)
(* asks from where it was composed, each page is read after all that was   *)
(* sent before, and it has the row or is full and says where to go on      *)
(* (checkEcho, askServer).                                                 *)
AnchoredIsNotStored ==
  \A n \in client.withdrawn :
    client.after[n] # 0 /\ stored[n] <= client.after[n] + Span(CheckPages)
      => stored[n] \notin log

THEOREM OnlyUnstoredSendsAreWithdrawn ==
  ASSUME Faultless PROVE Spec => []AnchoredIsNotStored
<1>1. Told => AnchoredIsNotStored
  BY DEF Told, Lined, TakenBack, Gone, Reached, Seen, View, AnchoredIsNotStored
<1> QED BY <1>1, SpecTold, PTL

(* A send composed into an empty slice is looked for in the newest page:   *)
(* when that holds all that is stored after the client came, and the pages *)
(* of a check hold all that is ever stored, nothing the server has is      *)
(* taken back.                                                             *)
Paged == OldRows + MaxPosts + Cardinality(Sends) <= Span(CheckPages)

THEOREM DeepChecksAreRight ==
  ASSUME Faultless, Deep, Paged PROVE Spec => []WithdrawnIsNotStored
<1>1. Inv /\ Told => WithdrawnIsNotStored
  <2> SUFFICES ASSUME Inv, Told, NEW n \in client.withdrawn, client.after[n] # 0
               PROVE  stored[n] <= client.after[n] + Span(CheckPages)
    BY DEF Told, Lined, TakenBack, Gone, Reached, Seen, View, WithdrawnIsNotStored
  <2>1. n \in Sends /\ client.after[n] \in Nat /\ stored[n] \in 0..last /\ last \in Nat
    BY Grounds DEF Clients
  <2>2. last <= OldRows + MaxPosts + Cardinality(Sends)
    <3>1. Cardinality(StoredOfSends) <= Cardinality(Sends)
          /\ Cardinality(StoredOfSends) \in Nat /\ Cardinality(Sends) \in Nat
      <4> DEFINE T == StoredOfSends
      <4>1. T \in SUBSET Sends /\ IsFiniteSet(Sends)
        BY BoundsAssumption DEF StoredOfSends
      <4> HIDE DEF T
      <4>2. /\ Cardinality(T) <= Cardinality(Sends) /\ Cardinality(T) \in Nat
            /\ Cardinality(Sends) \in Nat
        BY <4>1, FS_Subset, FS_CardinalityType
      <4> QED BY <4>2 DEF T
    <3>2. last <= OldRows + MaxPosts + Cardinality(StoredOfSends)
      BY DEF Told, Room
    <3>3. OldRows \in Nat /\ MaxPosts \in Nat
      BY BoundsAssumption
    <3> QED BY <2>1, <3>1, <3>2, <3>3
  <2> DEFINE most == OldRows + MaxPosts + Cardinality(Sends)
             span == Span(CheckPages)
  <2>3. most <= span
    BY DEF Paged
  <2>4. most \in Nat
    <3>1. IsFiniteSet(Sends) /\ OldRows \in Nat /\ MaxPosts \in Nat
      BY BoundsAssumption
    <3>2. Cardinality(Sends) \in Nat
      BY <3>1, FS_CardinalityType
    <3> QED BY <3>1, <3>2
  <2>5. span \in Nat
    BY SpanGrows, FirstPage
  <2> HIDE DEF most, span
  <2>6. last <= most
    BY <2>2 DEF most
  <2>7. stored[n] <= client.after[n] + span
    BY <2>1, <2>3, <2>4, <2>5, <2>6
  <2> QED BY <2>7 DEF span
<1> QED BY <1>1, SpecInv, SpecTold, PTL
=============================================================================
