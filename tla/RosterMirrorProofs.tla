------------------------- MODULE RosterMirrorProofs -------------------------
(***************************************************************************)
(* What holds of RosterMirror for every roster, page size, number of       *)
(* changes and number of lost connections: the types; that rows are true,  *)
(* and that the loaded stretch has no gap, as long as the server process   *)
(* is not restarted, since a revision then names one roster; and that      *)
(* lookups are answered, restarts or not.                                  *)
(***************************************************************************)
EXTENDS RosterMirror, FiniteSetTheorems, WellFoundedInduction, TLAPS

-----------------------------------------------------------------------------
(* The order of the members.  A place is a member's, or a cursor's.        *)

Place(c) == c.online \in BOOLEAN /\ c.key \in Nat
Cursor == [online : BOOLEAN, key : Nat]
Distinct(R) == \A m, n \in R : m.uid = n.uid => m = n

LEMMA RowPlace == \A m \in Row : Place(m) /\ m.key > 0 /\ m.uid \in Uids
<1> SUFFICES ASSUME NEW m \in Row PROVE Place(m) /\ m.key > 0 /\ m.uid \in Uids
  OBVIOUS
<1>1. m.uid \in Uids /\ m.online \in BOOLEAN /\ m.key \in KeysOf[m.uid]
  BY DEF Row
<1>2. KeysOf[m.uid] \subseteq Nat \ {0}
  BY <1>1, RosterAssumption
<1> QED BY <1>1, <1>2 DEF Place

LEMMA SameKey ==
  ASSUME NEW m \in Row, NEW n \in Row, m.key = n.key
  PROVE  m.uid = n.uid
BY RosterAssumption DEF Row

LEMMA BeforeOrder ==
  /\ \A m : Place(m) => ~Before(m, m)
  /\ \A m, n, k : Place(m) /\ Place(n) /\ Place(k) /\ Before(m, n) /\ Before(n, k) => Before(m, k)
  /\ \A m, n : Place(m) /\ Place(n) /\ Before(m, n) => ~Before(n, m)
  /\ \A m, n, k : Place(m) /\ Place(n) /\ Place(k) /\ ~Before(m, n) /\ Before(k, n) => ~Before(m, k)
BY DEF Before, Place

LEMMA Total ==
  ASSUME NEW R \in SUBSET Row, Distinct(R), NEW m \in R, NEW n \in R, m # n
  PROVE  Before(m, n) \/ Before(n, m)
<1>1. m.key # n.key
  BY SameKey DEF Distinct
<1> QED BY <1>1, RowPlace DEF Before, Place

(* Every set of numbers that is not empty has a least one.                 *)
LEMMA LeastNat ==
  ASSUME NEW S \in SUBSET Nat, S # {}
  PROVE  \E m \in S : \A x \in S : m <= x
<1> DEFINE R == OpToRel(<, Nat)
<1>1. IsWellFoundedOn(R, Nat)
  BY NatLessThanWellFounded
<1>2. \E x \in S : \A y \in S : ~ (<<y, x>> \in R)
  <2> HIDE DEF R
  <2> QED BY <1>1, WFMin
<1>3. \A x, y \in S : ~ (<<y, x>> \in R) => x <= y
  BY DEF OpToRel
<1> QED BY <1>2, <1>3

(* The member with the fewest before it is the first of them.              *)
LEMMA Nearest ==
  ASSUME NEW S \in SUBSET Row, IsFiniteSet(S), S # {}
  PROVE  \E m \in S : \A n \in S : ~Before(n, m)
<1> DEFINE Ahead(m) == {n \in S : Before(n, m)}
           Counts == {Cardinality(Ahead(m)) : m \in S}
<1>1. \A m \in S : IsFiniteSet(Ahead(m)) /\ Cardinality(Ahead(m)) \in Nat
  <2> TAKE m \in S
  <2>1. Ahead(m) \subseteq S
    OBVIOUS
  <2> HIDE DEF Ahead
  <2> QED BY <2>1, FS_Subset, FS_CardinalityType
<1>2. PICK k \in Counts : \A x \in Counts : k <= x
  <2> HIDE DEF Ahead
  <2>1. Counts \in SUBSET Nat /\ Counts # {}
    BY <1>1
  <2> QED BY <2>1, LeastNat
<1>3. PICK m \in S : k = Cardinality(Ahead(m))
  OBVIOUS
<1>4. ASSUME NEW n \in S, Before(n, m)
      PROVE  FALSE
  <2>1. Ahead(n) \subseteq Ahead(m) /\ n \in Ahead(m) /\ n \notin Ahead(n)
    BY <1>4, RowPlace, BeforeOrder
  <2>2. Cardinality(Ahead(n)) < Cardinality(Ahead(m))
    <3> HIDE DEF Ahead
    <3>1. Ahead(n) # Ahead(m)
      BY <2>1
    <3> QED BY <1>1, <2>1, <3>1, FS_Subset
  <2>3. Cardinality(Ahead(m)) <= Cardinality(Ahead(n))
    <3> HIDE DEF Ahead
    <3> QED BY <1>2, <1>3
  <2> HIDE DEF Ahead
  <2> QED BY <1>1, <2>2, <2>3
<1> QED BY <1>4

(* The member with the fewest after it is the last of them.                *)
LEMMA Farthest ==
  ASSUME NEW S \in SUBSET Row, IsFiniteSet(S), S # {}
  PROVE  \E m \in S : \A n \in S : ~Before(m, n)
<1> DEFINE After(m) == {n \in S : Before(m, n)}
           Counts == {Cardinality(After(m)) : m \in S}
<1>1. \A m \in S : IsFiniteSet(After(m)) /\ Cardinality(After(m)) \in Nat
  <2> TAKE m \in S
  <2>1. After(m) \subseteq S
    OBVIOUS
  <2> HIDE DEF After
  <2> QED BY <2>1, FS_Subset, FS_CardinalityType
<1>2. PICK k \in Counts : \A x \in Counts : k <= x
  <2> HIDE DEF After
  <2>1. Counts \in SUBSET Nat /\ Counts # {}
    BY <1>1
  <2> QED BY <2>1, LeastNat
<1>3. PICK m \in S : k = Cardinality(After(m))
  OBVIOUS
<1>4. ASSUME NEW n \in S, Before(m, n)
      PROVE  FALSE
  <2>1. After(n) \subseteq After(m) /\ n \in After(m) /\ n \notin After(n)
    BY <1>4, RowPlace, BeforeOrder
  <2>2. Cardinality(After(n)) < Cardinality(After(m))
    <3> HIDE DEF After
    <3>1. After(n) # After(m)
      BY <2>1
    <3> QED BY <1>1, <2>1, <3>1, FS_Subset
  <2>3. Cardinality(After(m)) <= Cardinality(After(n))
    <3> HIDE DEF After
    <3> QED BY <1>2, <1>3
  <2> HIDE DEF After
  <2> QED BY <1>1, <2>2, <2>3
<1> QED BY <1>4

LEMMA LastOfIs ==
  ASSUME NEW S \in SUBSET Row, IsFiniteSet(S), Distinct(S), S # {}
  PROVE  LastOf(S) \in S /\ \A n \in S : n = LastOf(S) \/ Before(n, LastOf(S))
<1>1. PICK m \in S : \A n \in S : ~Before(m, n)
  BY Farthest
<1>2. \A n \in S : n = m \/ Before(n, m)
  BY <1>1, Total
<1> QED BY <1>2 DEF LastOf
-----------------------------------------------------------------------------
(* What a page asked for after c says of the roster R.                     *)

Fills(p, c, R) ==
  /\ p.nextAfter \in Cursor
  /\ p.members \subseteq Past(c, R)
  /\ \A m \in p.members, n \in Past(c, R) : Before(n, m) => n \in p.members
  /\ p.onlineComplete => \A m \in Past(c, R) : m.online => m \in p.members
  /\ ~p.hasMore => Past(c, R) \subseteq p.members
  /\ p.hasMore =>
       /\ p.nextAfter # FirstPage
       /\ \A m \in Past(c, R) : ~Before(p.nextAfter, m) => m \in p.members
       /\ \A m \in p.members : ~m.online => ~p.nextAfter.online /\ m.key <= p.nextAfter.key
       /\ ~c.online => ~p.nextAfter.online /\ c.key <= p.nextAfter.key

\* A page has whoever stands before one of its members, and is not empty.
LEMMA PageFront ==
  ASSUME NEW R \in SUBSET Row, IsFiniteSet(R), NEW c
  PROVE  /\ PageOf(c, R) \subseteq Past(c, R) /\ Past(c, R) \subseteq R
         /\ \A m \in PageOf(c, R), n \in Past(c, R) : Before(n, m) => n \in PageOf(c, R)
         /\ PageOf(c, R) # Past(c, R) => PageOf(c, R) # {}
<1> DEFINE P == Past(c, R)
           Ahead(m) == {n \in P : Before(n, m)}
<1>1. P \subseteq R /\ IsFiniteSet(P)
  <2>1. P \subseteq R
    BY DEF Past
  <2> QED BY <2>1, FS_Subset
<1>2. \A m : Ahead(m) \subseteq P /\ IsFiniteSet(Ahead(m)) /\ Cardinality(Ahead(m)) \in Nat
  <2> TAKE m
  <2>1. Ahead(m) \subseteq P
    OBVIOUS
  <2> HIDE DEF Ahead, P
  <2> QED BY <1>1, <2>1, FS_Subset, FS_CardinalityType
<1>3. PageOf(c, R) = {m \in P : Cardinality(Ahead(m)) < Limit}
  BY DEF PageOf
<1>4. ASSUME NEW m \in PageOf(c, R), NEW n \in P, Before(n, m)
      PROVE  n \in PageOf(c, R)
  <2>1. m \in P /\ m \in Row /\ n \in Row /\ P \subseteq Row
    BY <1>1, <1>3
  <2>2. Ahead(n) \subseteq Ahead(m)
    BY <1>4, <2>1, RowPlace, BeforeOrder
  <2> HIDE DEF Ahead, P
  <2>3. Cardinality(Ahead(n)) <= Cardinality(Ahead(m))
    BY <1>2, <2>2, FS_Subset
  <2>4. Limit \in Nat
    BY RosterAssumption
  <2> QED BY <1>2, <1>3, <2>3, <2>4
<1>5. ASSUME PageOf(c, R) # P
      PROVE  PageOf(c, R) # {}
  <2>1. P # {} /\ P \in SUBSET Row
    BY <1>1, <1>3, <1>5
  <2>2. PICK m \in P : \A n \in P : ~Before(n, m)
    <3> HIDE DEF P
    <3> QED BY <1>1, <2>1, Nearest
  <2>3. Ahead(m) = {}
    BY <2>2
  <2>4. Cardinality(Ahead(m)) = 0
    BY <2>3, FS_EmptySet
  <2>5. Limit \in Nat \ {0}
    BY RosterAssumption
  <2> HIDE DEF Ahead, P
  <2> QED BY <1>3, <2>2, <2>4, <2>5
<1> QED BY <1>1, <1>3, <1>4, <1>5

LEMMA PageFills ==
  ASSUME NEW R \in SUBSET Row, IsFiniteSet(R), Distinct(R), NEW c, Place(c)
  PROVE  Fills(Page(c, R), c, R)
<1> DEFINE G == PageOf(c, R)  P == Past(c, R)  last == LastOf(G)  next == NextAfter(c, R)
<1>1. /\ G \subseteq P /\ P \subseteq R /\ P \subseteq Row
      /\ \A m \in G, n \in P : Before(n, m) => n \in G
  BY PageFront
<1>2. ASSUME G # P
      PROVE  last \in G /\ \A n \in G : n = last \/ Before(n, last)
  <2>1. G # {}
    BY <1>2, PageFront
  <2>2. G \in SUBSET Row /\ IsFiniteSet(G) /\ Distinct(G)
    <3> HIDE DEF G, P
    <3> QED BY <1>1, FS_Subset DEF Distinct
  <2> HIDE DEF G, P
  <2> QED BY <2>1, <2>2, LastOfIs
<1>3. next = IF last.online /\ (\A m \in P : m.online => m \in G)
               THEN Offline ELSE [online |-> last.online, key |-> last.key]
  BY DEF NextAfter
<1>4. ASSUME G # P
      PROVE  /\ next \in Cursor /\ next # FirstPage
             /\ \A m \in P : ~Before(next, m) => m \in G
             /\ \A m \in G : ~m.online => ~next.online /\ m.key <= next.key
             /\ ~c.online => ~next.online /\ c.key <= next.key
  <2>1. last \in G /\ last \in P /\ last \in Row /\ Place(last) /\ last.key > 0
        /\ (\A n \in G : n = last \/ Before(n, last))
    BY <1>1, <1>2, <1>4, RowPlace
  <2>2. \A m \in P : m \in Row /\ Place(m) /\ m.key > 0 /\ Before(c, m)
    BY <1>1, RowPlace DEF Past
  <2>3. \A m \in P : m = last \/ Before(m, last) \/ Before(last, m)
    BY <1>1, <2>1, Total DEF Distinct
  <2>4. CASE last.online /\ \A m \in P : m.online => m \in G
    <3>1. next = Offline
      BY <1>3, <2>4
    <3> HIDE DEF G, P, last, next
    <3>2. next \in Cursor /\ next # FirstPage
      BY <3>1 DEF Offline, FirstPage, Cursor
    <3>3. ASSUME NEW m \in P, ~Before(next, m)
          PROVE  m \in G
      BY <2>2, <2>4, <3>1, <3>3 DEF Offline, Before, Place
    <3>4. \A m \in G : m.online
      BY <2>1, <2>4 DEF Before
    <3>5. c.online
      BY <2>1, <2>2, <2>4 DEF Before
    <3> QED BY <3>2, <3>3, <3>4, <3>5
  <2>5. CASE ~(last.online /\ \A m \in P : m.online => m \in G)
    <3>1. next = [online |-> last.online, key |-> last.key]
      BY <1>3, <2>5
    <3> HIDE DEF G, P, last, next
    <3>2. next \in Cursor /\ next # FirstPage /\ next.online = last.online /\ next.key = last.key
      BY <2>1, <3>1 DEF FirstPage, Place, Cursor
    <3>3. \A m : Before(next, m) <=> Before(last, m)
      BY <3>2 DEF Before
    <3>4. ASSUME NEW m \in P, ~Before(next, m)
          PROVE  m \in G
      BY <1>1, <2>1, <2>3, <3>3, <3>4
    <3>5. \A m \in G : ~m.online => ~next.online /\ m.key <= next.key
      BY <1>1, <2>1, <2>2, <3>2 DEF Before, Place
    <3>6. ~c.online => ~next.online /\ c.key <= next.key
      BY <2>1, <2>2, <3>2 DEF Before, Place
    <3> QED BY <3>2, <3>4, <3>5, <3>6
  <2> QED BY <2>4, <2>5
<1> DEFINE p == Page(c, R)
<1>5. /\ p.members = G /\ (p.onlineComplete <=> \A m \in P : m.online => m \in G)
      /\ (p.hasMore <=> G # P) /\ p.nextAfter = (IF G # P THEN next ELSE Offline)
  BY DEF Page
<1>6. Offline \in Cursor
  BY DEF Offline, Cursor
<1> HIDE DEF p, G, P, next, last
<1>7. p.members \subseteq P /\ (\A m \in p.members, n \in P : Before(n, m) => n \in p.members)
  BY <1>1, <1>5
<1>8. p.onlineComplete => \A m \in P : m.online => m \in p.members
  BY <1>5
<1>9. ~p.hasMore => P \subseteq p.members
  BY <1>1, <1>5
<1>10. p.hasMore =>
        /\ p.nextAfter # FirstPage
        /\ \A m \in P : ~Before(p.nextAfter, m) => m \in p.members
        /\ \A m \in p.members : ~m.online => ~p.nextAfter.online /\ m.key <= p.nextAfter.key
        /\ ~c.online => ~p.nextAfter.online /\ c.key <= p.nextAfter.key
  BY <1>4, <1>5
<1>11. p.nextAfter \in Cursor
  BY <1>4, <1>5, <1>6
<1> QED BY <1>7, <1>8, <1>9, <1>10, <1>11 DEF Fills, p, P

-----------------------------------------------------------------------------
(* The invariant: what is on the wire tells the truth about the roster of  *)
(* the change it names, and so do the rows the client holds.               *)

Cursors ==
  {FirstPage, Offline} \cup
  {[online |-> LastOf(S).online, key |-> LastOf(S).key] : S \in SUBSET Row}
Edges == {0} \cup {LastOf(S).key : S \in SUBSET Row}

Requests == [kind : {"page"}, after : Cursors] \cup [kind : {"lookup"}, uid : Uids]

Pages == [kind : {"page"}, first : BOOLEAN, age : Nat, revision : Nat,
          members : SUBSET Row, extra : SUBSET Row, onlineComplete : BOOLEAN,
          hasMore : BOOLEAN, nextAfter : Cursors]
Founds == [kind : {"found"}, uid : Uids, extra : SUBSET Row, age : Nat, revision : Nat]
Upserts == [kind : {"upsert"}, row : Row, age : Nat, revision : Nat]
Removes == [kind : {"remove"}, uid : Uids, age : Nat, revision : Nat]
Auths == [kind : {"auth"}]
Packets == Pages \cup Founds \cup Upserts \cup Removes \cup Auths

Metas == [revision : Nat, age : Nat, onlineComplete : BOOLEAN, onlineEdge : Edges,
          offlineEdge : Edges, hasMore : BOOLEAN, nextAfter : Cursors,
          loadingMore : BOOLEAN, refetching : BOOLEAN]

Typed ==
  /\ age \in 0..MaxAge /\ born \in 0..age /\ past \in [0..MaxAge -> SUBSET Row]
  /\ requests \in Seq(Requests) /\ packets \in Seq(Packets)
  /\ meta \in Metas \cup {None} /\ rows \subseteq Row

\* What a packet says was so when it was sent.
Says(p) ==
  /\ p.kind # "auth" => p.age <= age
  /\ p.kind = "page" => p.members \cup p.extra \subseteq past[p.age]
  /\ p.kind = "found" => p.extra = {m \in past[p.age] : m.uid = p.uid}
  /\ p.kind = "upsert" =>
       p.age > 0 /\ past[p.age] = {m \in past[p.age - 1] : m.uid # p.row.uid} \cup {p.row}
  /\ p.kind = "remove" =>
       p.age > 0 /\ past[p.age] = {m \in past[p.age - 1] : m.uid # p.uid}

Truthful ==
  /\ Typed
  /\ \A i \in 1..Len(packets) : Says(packets[i])
  /\ meta # None => meta.age <= age

TellsTheTruth(p) == Says(p) /\ (p.kind # "auth" => p.revision = p.age)

Faithful ==
  /\ Truthful
  /\ restarts = 0 /\ born = 0
  /\ \A i \in 1..Len(packets) : packets[i].kind # "auth" => packets[i].revision = packets[i].age
  /\ meta # None => meta.revision = meta.age /\ rows \subseteq past[meta.age]

LEMMA PacketKinds ==
  /\ \A p \in Packets : p.kind \in {"page", "found", "upsert", "remove", "auth"}
  /\ \A p \in Packets : p.kind = "page" => p \in Pages
  /\ \A p \in Packets : p.kind = "found" => p \in Founds
  /\ \A p \in Packets : p.kind = "upsert" => p \in Upserts
  /\ \A p \in Packets : p.kind = "remove" => p \in Removes
BY DEF Packets, Pages, Founds, Upserts, Removes, Auths

LEMMA InitTrue == Init => Faithful
<1> SUFFICES ASSUME Init PROVE Faithful
  OBVIOUS
<1>1. PICK R \in Rosters : past = [a \in 0..MaxAge |-> IF a = 0 THEN R ELSE {}]
  BY DEF Init
<1>2. Typed
  BY <1>1, RosterAssumption, RostersAssumption DEF Init, Typed
<1> QED
  BY <1>2 DEF Init, Faithful, Truthful

-----------------------------------------------------------------------------
(* Types.                                                                  *)

\* The wire gets a packet at most, or loses some.
LEMMA WireTyped ==
  ASSUME Typed, NEW p \in Packets,
         \/ packets' = packets \/ packets' = Append(packets, p)
         \/ packets # <<>> /\ packets' = Tail(packets)
         \/ \E k \in 0..Len(packets) : packets' = SubSeq(packets, 1, k)
  PROVE  packets' \in Seq(Packets)
<1>1. packets \in Seq(Packets)
  BY DEF Typed
<1>2. CASE packets' = packets \/ packets' = Append(packets, p) \/ (packets # <<>> /\ packets' = Tail(packets))
  BY <1>1, <1>2
<1>3. CASE \E k \in 0..Len(packets) : packets' = SubSeq(packets, 1, k)
  BY <1>1, <1>3
<1> QED BY <1>2, <1>3

LEMMA EmitTyped ==
  ASSUME Typed, Emit
  PROVE  Typed'
<1>1. /\ age \in Nat /\ MaxAge \in Nat /\ born \in Nat /\ born <= age /\ revision \in Nat
      /\ past \in [0..MaxAge -> SUBSET Row]
  BY RosterAssumption DEF Typed, revision
<1>2. PICK u \in Uids, now \in SUBSET Row, p \in Packets :
        Changes(u, now) /\ Broadcast(p) /\ UNCHANGED <<born, requests, meta, rows>>
  <2>1. ASSUME NEW u \in Uids, NEW k \in KeysOf[u], NEW o \in BOOLEAN,
               EmitMemberUpsert([uid |-> u, key |-> k, online |-> o])
        PROVE  \E now \in SUBSET Row, p \in Packets :
                 Changes(u, now) /\ Broadcast(p) /\ UNCHANGED <<born, requests, meta, rows>>
    <3> DEFINE r == [uid |-> u, key |-> k, online |-> o]
               p == [kind |-> "upsert", row |-> r, age |-> age + 1, revision |-> revision + 1]
    <3>1. r \in Row /\ r.uid = u
      BY DEF Row
    <3>2. Changes(r.uid, {r}) /\ Broadcast(p) /\ UNCHANGED <<born, requests, meta, rows>>
      BY <2>1 DEF EmitMemberUpsert
    <3> HIDE DEF r
    <3>3. p \in Packets /\ {r} \in SUBSET Row
      BY <1>1, <3>1 DEF Packets, Upserts
    <3> HIDE DEF p
    <3> QED BY <3>1, <3>2, <3>3
  <2>2. ASSUME NEW u \in Uids, EmitMemberRemove(u)
        PROVE  \E now \in SUBSET Row, p \in Packets :
                 Changes(u, now) /\ Broadcast(p) /\ UNCHANGED <<born, requests, meta, rows>>
    <3> DEFINE p == [kind |-> "remove", uid |-> u, age |-> age + 1, revision |-> revision + 1]
    <3>1. Changes(u, {}) /\ Broadcast(p) /\ UNCHANGED <<born, requests, meta, rows>>
      BY <2>2 DEF EmitMemberRemove
    <3>2. p \in Packets
      BY <1>1 DEF Packets, Removes
    <3> HIDE DEF p
    <3> QED BY <3>1, <3>2
  <2> QED BY <2>1, <2>2 DEF Emit
<1>3. /\ age < MaxAge /\ age' = age + 1
      /\ past' = [past EXCEPT ![age + 1] = {m \in past[age] : m.uid # u} \cup now]
  BY <1>2 DEF Changes, Roster
<1>4. age' \in 0..MaxAge /\ born' \in 0..age' /\ past[age] \in SUBSET Row
  BY <1>1, <1>2, <1>3
<1>5. past' \in [0..MaxAge -> SUBSET Row]
  <2> DEFINE R == {m \in past[age] : m.uid # u} \cup now
  <2>1. R \in SUBSET Row
    BY <1>4
  <2> HIDE DEF R
  <2>2. past' = [past EXCEPT ![age + 1] = R]
    BY <1>3 DEF R
  <2> QED BY <1>1, <2>1, <2>2
<1>6. packets' \in Seq(Packets)
  BY <1>2, WireTyped DEF Broadcast
<1> QED BY <1>2, <1>4, <1>5, <1>6 DEF Typed

LEMMA PageType ==
  ASSUME Typed, NEW c
  PROVE  /\ Page(c, Roster) \in Pages /\ Page(c, Roster).age = age /\ Page(c, Roster).revision = age - born
         /\ Page(c, Roster).members \cup Page(c, Roster).extra \subseteq past[age]
         /\ Page(c, Roster).kind = "page"
<1>1. Roster \subseteq Row /\ Roster = past[age] /\ age \in Nat /\ revision = age - born /\ revision \in Nat
  BY RosterAssumption DEF Roster, revision, Typed
<1>2. PageOf(c, Roster) \subseteq Roster
  BY DEF PageOf, Past
<1>3. NextAfter(c, Roster) \in Cursors
  <2>1. PageOf(c, Roster) \in SUBSET Row
    BY <1>1, <1>2
  <2>2. \/ NextAfter(c, Roster) = Offline
        \/ NextAfter(c, Roster) = [online |-> LastOf(PageOf(c, Roster)).online,
                                   key |-> LastOf(PageOf(c, Roster)).key]
    BY DEF NextAfter
  <2> QED
    BY <2>1, <2>2 DEF Cursors
<1>4. Offline \in Cursors
  BY DEF Cursors
<1> DEFINE
  extra == IF c = FirstPage THEN {m \in Roster : m.uid = Me} ELSE {}
  complete == \A m \in Past(c, Roster) : m.online => m \in PageOf(c, Roster)
  more == PageOf(c, Roster) # Past(c, Roster)
  next == IF PageOf(c, Roster) # Past(c, Roster) THEN NextAfter(c, Roster) ELSE Offline
  start == c = FirstPage
<1>5. Page(c, Roster) = [kind |-> "page", first |-> start, age |-> age, revision |-> revision,
                         members |-> PageOf(c, Roster), extra |-> extra, onlineComplete |-> complete,
                         hasMore |-> more, nextAfter |-> next]
  BY DEF Page
<1>6. extra \subseteq Roster /\ complete \in BOOLEAN /\ more \in BOOLEAN /\ next \in Cursors /\ start \in BOOLEAN
  BY <1>3, <1>4
<1> HIDE DEF extra, complete, more, next, start
<1> QED
  BY <1>1, <1>2, <1>5, <1>6 DEF Pages

\* What the renderer asks for is one of the requests.
LEMMA AsksType ==
  ASSUME Typed, NEW q \in Requests, Asks(q)
  PROVE  requests' \in Seq(Requests)
<1>1. requests \in Seq(Requests)
  BY DEF Typed
<1>2. requests' = Append(requests, q) \/ requests' = requests
  BY DEF Asks
<1>3. Append(requests, q) \in Seq(Requests)
  BY <1>1
<1> QED
  BY <1>1, <1>2, <1>3

LEMMA RefetchType ==
  ASSUME Typed, NEW force, RefetchRoster(force)
  PROVE  /\ requests' \in Seq(Requests) /\ meta' \in Metas \cup {None}
         /\ meta' # None => meta # None /\ meta'.age = meta.age /\ meta'.revision = meta.revision
<1>1. [kind |-> "page", after |-> FirstPage] \in Requests
  BY DEF Requests, Cursors
<1>2. meta \in Metas \cup {None} /\ requests \in Seq(Requests)
  BY DEF Typed
<1>3. CASE UNCHANGED <<meta, requests, rejected>>
  BY <1>2, <1>3
<1>4. CASE AskPage(FirstPage) /\ meta' = IF meta = None THEN None ELSE [meta EXCEPT !.refetching = TRUE]
  <2>1. requests' \in Seq(Requests)
    BY <1>1, <1>4, AsksType DEF AskPage
  <2> QED
    BY <1>2, <1>4, <2>1 DEF Metas
<1> QED
  BY <1>3, <1>4 DEF RefetchRoster

LEMMA ServeTyped ==
  ASSUME Typed, ServeList
  PROVE  Typed'
<1> DEFINE q == Head(requests)
           p == IF q.kind = "page" THEN Page(q.after, Roster) ELSE Found(q.uid, Roster)
<1>1. /\ requests # <<>> /\ requests' = Tail(requests) /\ packets' = Append(packets, p)
      /\ UNCHANGED <<past, age, born, meta, rows>>
  BY DEF ServeList, server
<1>2. q \in Requests /\ requests' \in Seq(Requests)
  BY <1>1 DEF Typed
<1>3. p \in Packets
  <2>1. CASE q.kind = "page"
    BY <2>1, PageType DEF Packets
  <2>2. CASE q.kind # "page"
    <3>1. q.uid \in Uids
      BY <1>2, <2>2 DEF Requests
    <3>2. Roster \subseteq Row /\ age \in Nat /\ revision \in Nat
      BY RosterAssumption DEF Roster, revision, Typed
    <3>3. Found(q.uid, Roster) \in Founds
      BY <3>1, <3>2 DEF Found, Founds
    <3> QED BY <2>2, <3>3 DEF Packets
  <2> QED BY <2>1, <2>2
<1> HIDE DEF p, q
<1>4. packets' \in Seq(Packets)
  BY <1>1, <1>3, WireTyped
<1> QED BY <1>1, <1>2, <1>4 DEF Typed

LEMMA ReceiveTyped ==
  ASSUME Typed, Receive
  PROVE  Typed'
<1> DEFINE p == Head(packets)
<1>1. /\ packets # <<>> /\ packets' = Tail(packets) /\ UNCHANGED <<past, age, born>>
      /\ OnAuth(p) \/ OnPage(p) \/ OnFound(p) \/ OnDelta(p)
  BY DEF Receive, server
<1>2. meta \in Metas \cup {None} /\ rows \subseteq Row /\ requests \in Seq(Requests)
  BY DEF Typed
<1>3. p \in Packets /\ packets' \in Seq(Packets)
  BY <1>1 DEF Typed
<1> DEFINE Good == requests' \in Seq(Requests) /\ meta' \in Metas \cup {None} /\ rows' \subseteq Row
<1> HIDE DEF p
<1>4. ASSUME NEW force, RefetchRoster(force), UNCHANGED rows
      PROVE  Good
  BY <1>2, <1>4, RefetchType
<1>5. ASSUME OnAuth(p)
      PROVE  Good
  BY <1>4, <1>5 DEF OnAuth
<1>6. ASSUME OnPage(p)
      PROVE  Good
  <2>1. p \in Pages
    BY <1>3, <1>6, PacketKinds DEF OnPage
  <2>2. CASE ~p.first /\ (meta = None \/ meta.refetching)
    <3>1. UNCHANGED <<meta, rows, requests>>
      BY <1>6, <2>2 DEF OnPage
    <3> QED BY <1>2, <3>1
  <2>3. CASE ~p.first /\ meta # None /\ ~meta.refetching /\ p.revision # meta.revision
    BY <1>4, <1>6, <2>3 DEF OnPage
  <2>4. CASE p.first \/ (meta # None /\ ~meta.refetching /\ p.revision = meta.revision)
    <3>1. AppliesPage(p)
      BY <1>6, <2>4 DEF OnPage
    <3>2. requests' = requests
      BY <3>1 DEF AppliesPage
    <3>3. rows' \subseteq Row
      BY <1>2, <2>1, <3>1 DEF AppliesPage, Held, Pages
    <3>4. ASSUME NEW o, NEW e \in Edges
          PROVE  Edge(p.members, o, e) \in Edges
      <4>1. {m \in p.members : m.online = o} \in SUBSET Row
        BY <2>1 DEF Pages
      <4> QED BY <4>1 DEF Edge, Edges
    <3>5. 0 \in Edges /\ (~p.first => meta.onlineEdge \in Edges /\ meta.offlineEdge \in Edges)
      BY <1>2, <2>4 DEF Edges, Metas
    <3> DEFINE oe == Edge(p.members, TRUE, IF p.first THEN 0 ELSE meta.onlineEdge)
               fe == Edge(p.members, FALSE, IF p.first THEN 0 ELSE meta.offlineEdge)
    <3>6. oe \in Edges /\ fe \in Edges
      BY <3>4, <3>5
    <3>7. meta' = [revision |-> p.revision, age |-> p.age, onlineComplete |-> p.onlineComplete,
                   onlineEdge |-> oe, offlineEdge |-> fe, hasMore |-> p.hasMore,
                   nextAfter |-> p.nextAfter, loadingMore |-> FALSE, refetching |-> FALSE]
      BY <3>1 DEF AppliesPage
    <3> HIDE DEF oe, fe
    <3>8. meta' \in Metas
      BY <2>1, <3>6, <3>7 DEF Metas, Pages
    <3> QED BY <1>2, <3>2, <3>3, <3>8
  <2> QED BY <1>2, <2>1, <2>2, <2>3, <2>4 DEF Pages
<1>7. ASSUME OnFound(p)
      PROVE  Good
  <2>1. p.extra \subseteq Row
    BY <1>3, <1>7, PacketKinds DEF OnFound, Founds
  <2> QED BY <1>2, <1>7, <2>1 DEF OnFound, Held
<1>8. ASSUME OnDelta(p)
      PROVE  Good
  <2>1. p.age \in Nat /\ p.revision \in Nat /\ (p.kind = "upsert" => p.row \in Row)
    BY <1>3, <1>8, PacketKinds DEF OnDelta, Upserts, Removes
  <2>2. CASE meta = None \/ meta.refetching
    <3>1. UNCHANGED <<meta, rows, requests>>
      BY <1>8, <2>2 DEF OnDelta
    <3> QED BY <1>2, <3>1
  <2>3. CASE meta # None /\ ~meta.refetching /\ p.revision # meta.revision + 1
    BY <1>4, <1>8, <2>3 DEF OnDelta
  <2>4. CASE meta # None /\ ~meta.refetching /\ p.revision = meta.revision + 1
    <3>1. /\ rows' = IF p.kind = "upsert" THEN Held({p.row}) ELSE {m \in rows : m.uid # p.uid}
          /\ meta' = [meta EXCEPT !.revision = p.revision, !.age = p.age]
          /\ requests' = requests
      BY <1>8, <2>4 DEF OnDelta
    <3>2. meta' \in Metas
      BY <1>2, <2>1, <2>4, <3>1 DEF Metas
    <3>3. rows' \subseteq Row
      BY <1>2, <2>1, <3>1 DEF Held
    <3> QED BY <1>2, <3>1, <3>2, <3>3
  <2> QED BY <2>2, <2>3, <2>4
<1>9. Good
  BY <1>1, <1>5, <1>6, <1>7, <1>8
<1> QED BY <1>1, <1>3, <1>9 DEF Typed

LEMMA ViewTyped ==
  ASSUME Typed,
         \/ \E q \in rejected : OnRejected(q)
         \/ LoadMore
         \/ \E u \in Shown : RequestMember(u)
  PROVE  Typed'
<1>1. meta \in Metas \cup {None} /\ requests \in Seq(Requests)
  BY DEF Typed
<1>2. UNCHANGED <<past, age, born, packets, rows>>
  BY DEF OnRejected, LoadMore, RequestMember, server
<1>3. meta' \in Metas \cup {None} /\ requests' \in Seq(Requests)
  <2>1. CASE \E q \in rejected : OnRejected(q)
    <3>1. /\ requests' = requests
          /\ \/ meta' = meta
             \/ meta # None /\ meta' = [meta EXCEPT !.refetching = FALSE]
             \/ meta # None /\ meta' = [meta EXCEPT !.loadingMore = FALSE]
      BY <2>1 DEF OnRejected
    <3> QED BY <1>1, <3>1 DEF Metas
  <2>2. CASE LoadMore
    <3>1. /\ meta # None /\ meta' = [meta EXCEPT !.loadingMore = TRUE]
          /\ Asks([kind |-> "page", after |-> meta.nextAfter])
      BY <2>2 DEF LoadMore, AskPage
    <3>2. [kind |-> "page", after |-> meta.nextAfter] \in Requests
      BY <1>1, <3>1 DEF Metas, Requests
    <3>3. requests' \in Seq(Requests)
      BY <3>1, <3>2, AsksType
    <3> QED BY <1>1, <3>1, <3>3 DEF Metas
  <2>3. CASE \E u \in Shown : RequestMember(u)
    <3>1. PICK u \in Shown : RequestMember(u)
      BY <2>3
    <3>2. [kind |-> "lookup", uid |-> u] \in Requests
      BY RosterAssumption DEF Requests
    <3>3. requests' \in Seq(Requests)
      BY <3>1, <3>2, AsksType DEF RequestMember
    <3> QED BY <1>1, <3>1, <3>3 DEF RequestMember
  <2> QED BY <2>1, <2>2, <2>3
<1> QED BY <1>2, <1>3 DEF Typed

LEMMA NextTyped ==
  ASSUME Typed, [Next]_vars
  PROVE  Typed'
<1>1. CASE Emit
  BY <1>1, EmitTyped
<1>2. CASE Views \/ \E q \in rejected : OnRejected(q)
  BY <1>2, ViewTyped DEF Views
<1>3. CASE Lose
  <2>1. requests' = <<>> /\ UNCHANGED <<past, age, born, meta, rows>>
    BY <1>3 DEF Lose, server
  <2>2. \A p \in Packets : packets' \in Seq(Packets)
    BY <1>3, WireTyped DEF Lose
  <2>3. [kind |-> "auth"] \in Packets
    BY DEF Packets, Auths
  <2> QED BY <2>1, <2>2, <2>3 DEF Typed
<1>4. CASE Restart
  BY <1>4, RosterAssumption DEF Restart, Typed
<1>5. CASE Connect
  <2>1. [kind |-> "auth"] \in Packets
    BY DEF Packets, Auths
  <2>2. packets' = Append(packets, [kind |-> "auth"]) /\ UNCHANGED <<past, age, born, requests, meta, rows>>
    BY <1>5 DEF Connect, server
  <2> QED BY <2>1, <2>2, WireTyped DEF Typed
<1>6. CASE UNCHANGED vars
  BY <1>6 DEF vars, Typed
<1> QED
  BY <1>1, <1>2, <1>3, <1>4, <1>5, <1>6, ServeTyped, ReceiveTyped DEF Next, Progress

(* The variables of the member list keep their types, whatever is lost or  *)
(* restarted: a revision is never below 0, and a roster is never asked for *)
(* behind anything but a member, or the start of a part.                   *)
THEOREM TypeCorrect == Spec => []Typed
<1>1. Init => Typed
  BY InitTrue DEF Faithful, Truthful
<1> QED BY <1>1, NextTyped, PTL DEF Spec

-----------------------------------------------------------------------------
(* What is on the wire is true of the roster as it was.                    *)

\* Packets that were true stay true, whatever changes after.
LEMMA OldTruth ==
  ASSUME Typed, NEW p \in Packets, Says(p), age' \in {age, age + 1},
         \A a \in 0..age : past'[a] = past[a]
  PROVE  Says(p)'
<1>1. p.kind # "auth" => p.age \in 0..age
  BY PacketKinds DEF Says, Packets, Pages, Founds, Upserts, Removes, Typed
<1>2. p.kind \in {"upsert", "remove"} => p.age - 1 \in 0..age
  BY <1>1 DEF Says, Typed
<1>3. p.kind # "auth" => past'[p.age] = past[p.age]
  BY <1>1
<1>4. p.kind \in {"upsert", "remove"} => past'[p.age - 1] = past[p.age - 1]
  BY <1>2
<1>5. p.kind # "auth" => p.age <= age'
  BY <1>1 DEF Typed
<1> QED
  BY <1>3, <1>4, <1>5, PacketKinds DEF Says

-----------------------------------------------------------------------------
(* Steps of the server: a packet at most is sent, which says how it is.    *)

LEMMA SentTruthful ==
  ASSUME Truthful, Typed', age' \in {age, age + 1}, \A a \in 0..age : past'[a] = past[a],
         NEW p \in Packets, Says(p)', packets' = packets \/ packets' = Append(packets, p),
         UNCHANGED meta
  PROVE  Truthful'
<1>1. packets \in Seq(Packets) /\ age \in Nat
  BY RosterAssumption DEF Truthful, Typed
<1>2. \A i \in 1..Len(packets') : packets'[i] = p \/ (i \in 1..Len(packets) /\ packets'[i] = packets[i])
  <2>1. CASE packets' = packets
    BY <1>1, <2>1
  <2>2. CASE packets' = Append(packets, p)
    BY <1>1, <2>2
  <2> QED
    BY <2>1, <2>2
<1>3. \A i \in 1..Len(packets) : packets[i] \in Packets /\ Says(packets[i])
  BY <1>1 DEF Truthful
<1>4. ASSUME NEW i \in 1..Len(packets)
      PROVE  \A q \in Packets : q = packets[i] => Says(q)'
  BY <1>3, OldTruth DEF Truthful
<1>5. ASSUME NEW i \in 1..Len(packets')
      PROVE  \A q \in Packets : q = packets'[i] => Says(q)'
  BY <1>2, <1>4
<1>6. \A i \in 1..Len(packets') : packets'[i] \in Packets
  BY DEF Typed
<1>7. \A i \in 1..Len(packets') : Says(packets[i])'
  BY <1>5, <1>6 DEF Says
<1>8. meta' # None => meta'.age <= age'
  BY <1>1 DEF Truthful, Typed, Metas
<1> QED
  BY <1>7, <1>8 DEF Truthful

LEMMA UpsertTruthful ==
  ASSUME Truthful, Typed', NEW r \in Row, EmitMemberUpsert(r)
  PROVE  Truthful'
<1> DEFINE p == [kind |-> "upsert", row |-> r, age |-> age + 1, revision |-> revision + 1]
<1>1. /\ age < MaxAge /\ age' = age + 1
      /\ past' = [past EXCEPT ![age + 1] = {m \in Roster : m.uid # r.uid} \cup {r}]
      /\ packets' = packets \/ packets' = Append(packets, p)
      /\ UNCHANGED <<born, meta>>
  BY DEF EmitMemberUpsert, Changes, Broadcast
<1>2. /\ age \in Nat /\ MaxAge \in Nat /\ age + 1 \in 0..MaxAge /\ past \in [0..MaxAge -> SUBSET Row]
      /\ revision \in Nat
  BY <1>1, RosterAssumption DEF Truthful, Typed, revision
<1>3. /\ past'[age + 1] = {m \in past[age] : m.uid # r.uid} \cup {r}
      /\ \A a \in 0..age : past'[a] = past[a]
  BY <1>1, <1>2 DEF Roster
<1>4. p \in Packets /\ p.kind = "upsert" /\ p.age = age + 1 /\ p.row = r
  BY <1>2 DEF Packets, Upserts
<1> HIDE DEF p
<1>5. \A q \in Packets : q = p => Says(q)'
  <2> SUFFICES ASSUME NEW q \in Packets, q = p PROVE Says(q)'
    OBVIOUS
  <2>1. /\ q.kind = "upsert" /\ q.age = age + 1 /\ q.age <= age' /\ q.age > 0
        /\ q.age - 1 = age /\ past'[age] = past[age] /\ q.row = r
    BY <1>1, <1>2, <1>3, <1>4
  <2>2. past'[q.age] = {m \in past'[q.age - 1] : m.uid # q.row.uid} \cup {q.row}
    BY <1>3, <2>1
  <2> QED
    BY <2>1, <2>2 DEF Says
<1>6. \E q \in Packets : Says(q)' /\ (packets' = packets \/ packets' = Append(packets, q))
  BY <1>1, <1>4, <1>5
<1> QED
  BY <1>1, <1>3, <1>6, SentTruthful

LEMMA RemoveTruthful ==
  ASSUME Truthful, Typed', NEW u \in Uids, EmitMemberRemove(u)
  PROVE  Truthful'
<1> DEFINE p == [kind |-> "remove", uid |-> u, age |-> age + 1, revision |-> revision + 1]
<1>1. /\ age < MaxAge /\ age' = age + 1
      /\ past' = [past EXCEPT ![age + 1] = {m \in Roster : m.uid # u} \cup {}]
      /\ packets' = packets \/ packets' = Append(packets, p)
      /\ UNCHANGED <<born, meta>>
  BY DEF EmitMemberRemove, Changes, Broadcast
<1>2. /\ age \in Nat /\ MaxAge \in Nat /\ age + 1 \in 0..MaxAge /\ past \in [0..MaxAge -> SUBSET Row]
      /\ revision \in Nat
  BY <1>1, RosterAssumption DEF Truthful, Typed, revision
<1>3. /\ past'[age + 1] = {m \in past[age] : m.uid # u}
      /\ \A a \in 0..age : past'[a] = past[a]
  BY <1>1, <1>2 DEF Roster
<1>4. p \in Packets /\ p.kind = "remove" /\ p.age = age + 1 /\ p.uid = u
  BY <1>2 DEF Packets, Removes
<1> HIDE DEF p
<1>5. \A q \in Packets : q = p => Says(q)'
  <2> SUFFICES ASSUME NEW q \in Packets, q = p PROVE Says(q)'
    OBVIOUS
  <2>1. /\ q.kind = "remove" /\ q.age = age + 1 /\ q.age <= age' /\ q.age > 0
        /\ q.age - 1 = age /\ past'[age] = past[age] /\ q.uid = u
    BY <1>1, <1>2, <1>3, <1>4
  <2>2. past'[q.age] = {m \in past'[q.age - 1] : m.uid # q.uid}
    BY <1>3, <2>1
  <2> QED
    BY <2>1, <2>2 DEF Says
<1>6. \E q \in Packets : Says(q)' /\ (packets' = packets \/ packets' = Append(packets, q))
  BY <1>1, <1>4, <1>5
<1> QED
  BY <1>1, <1>3, <1>6, SentTruthful

\* What a request is answered with.
LEMMA Answer ==
  ASSUME Typed, ServeList
  PROVE  \E p \in Packets :
           /\ packets' = Append(packets, p) /\ p.kind \in {"page", "found"}
           /\ p.age = age /\ p.revision = age - born
           /\ p.kind = "page" => p.members \cup p.extra \subseteq past[age]
           /\ p.kind = "found" => p.extra = {m \in past[age] : m.uid = p.uid}
           /\ Head(requests).kind = "lookup" => p.kind = "found" /\ p.uid = Head(requests).uid
<1> DEFINE q == Head(requests)
           p == IF q.kind = "page" THEN Page(q.after, Roster) ELSE Found(q.uid, Roster)
<1>1. requests # <<>> /\ packets' = Append(packets, p)
  BY DEF ServeList
<1>2. q \in Requests /\ Head(requests) = q
  BY <1>1 DEF Typed
<1>3. CASE q.kind = "page"
  <2>1. p = Page(q.after, Roster)
    BY <1>3
  <2> HIDE DEF p, q
  <2>2. p \in Packets
    BY <2>1, PageType DEF Packets
  <2> QED
    BY <1>1, <1>2, <1>3, <2>1, <2>2, PageType
<1>4. CASE q.kind # "page"
  <2>1. q.uid \in Uids
    BY <1>2, <1>4 DEF Requests
  <2>2. p = Found(q.uid, Roster)
    BY <1>4
  <2>3. Roster \subseteq Row /\ Roster = past[age] /\ age \in Nat /\ revision = age - born /\ revision \in Nat
    BY RosterAssumption DEF Roster, revision, Typed
  <2> HIDE DEF p, q
  <2>4. p \in Packets
    BY <2>1, <2>2, <2>3 DEF Found, Founds, Packets
  <2>5. /\ p.kind = "found" /\ p.age = age /\ p.revision = age - born /\ p.uid = q.uid
        /\ p.extra = {m \in past[age] : m.uid = q.uid}
    BY <2>2, <2>3 DEF Found
  <2> QED
    BY <1>1, <1>2, <2>4, <2>5
<1> QED
  BY <1>3, <1>4

LEMMA ServeTruthful ==
  ASSUME Truthful, Typed', ServeList
  PROVE  Truthful'
<1>1. UNCHANGED <<past, age, meta>> /\ Typed
  BY DEF ServeList, server, Truthful
<1>2. PICK p \in Packets :
        /\ packets' = Append(packets, p) /\ p.kind \in {"page", "found"} /\ p.age = age
        /\ p.kind = "page" => p.members \cup p.extra \subseteq past[age]
        /\ p.kind = "found" => p.extra = {m \in past[age] : m.uid = p.uid}
  BY <1>1, Answer
<1>3. \A q \in Packets : q = p => Says(q)'
  BY <1>1, <1>2, RosterAssumption DEF Says, Typed
<1>4. \E q \in Packets : Says(q)' /\ packets' = Append(packets, q)
  BY <1>2, <1>3
<1> QED
  BY <1>1, <1>4, SentTruthful

-----------------------------------------------------------------------------
(* Steps of the connection and of the client: no packet is new, but for    *)
(* the authentication, and the roster stays.                               *)

ToldBefore ==
  \A i \in 1..Len(packets') :
    packets'[i].kind = "auth" \/ \E k \in 1..Len(packets) : packets'[i] = packets[k]

LEMMA ClientTold ==
  ASSUME Typed,
         \/ Lose \/ Connect \/ Receive \/ Restart \/ LoadMore \/ UNCHANGED packets
         \/ (\E q \in rejected : OnRejected(q)) \/ \E u \in Shown : RequestMember(u)
  PROVE  ToldBefore
<1>1. packets \in Seq(Packets)
  BY DEF Typed
<1>2. CASE UNCHANGED packets
  BY <1>2 DEF ToldBefore
<1>3. CASE Lose
  <2>1. PICK k \in 0..Len(packets) : packets' = SubSeq(packets, 1, k)
    BY <1>3 DEF Lose
  <2>2. Len(packets') = k /\ \A i \in 1..k : packets'[i] = packets[i]
    BY <1>1, <2>1
  <2> QED
    BY <1>1, <2>1, <2>2 DEF ToldBefore
<1>4. CASE Connect
  <2> DEFINE p == [kind |-> "auth"]
  <2>1. packets' = Append(packets, p) /\ p.kind = "auth"
    BY <1>4 DEF Connect
  <2> HIDE DEF p
  <2> QED
    BY <1>1, <2>1 DEF ToldBefore
<1>5. CASE Receive
  <2>1. packets # <<>> /\ packets' = Tail(packets)
    BY <1>5 DEF Receive
  <2>2. \A i \in 1..Len(packets') : i + 1 \in 1..Len(packets) /\ packets'[i] = packets[i + 1]
    BY <1>1, <2>1
  <2> QED
    BY <2>2 DEF ToldBefore
<1> QED
  BY <1>2, <1>3, <1>4, <1>5 DEF Restart, LoadMore, OnRejected, RequestMember

LEMMA ClientStep ==
  ASSUME Truthful, Typed', ToldBefore, UNCHANGED <<past, age>>,
         meta' # None => meta'.age <= age
  PROVE  Truthful'
<1>1. \A k \in 1..Len(packets) : packets[k] \in Packets /\ Says(packets[k])
  BY DEF Truthful, Typed
<1>2. age' \in {age, age + 1} /\ \A a \in 0..age : past'[a] = past[a]
  OBVIOUS
<1>3. ASSUME NEW q \in Packets, Says(q)
      PROVE  Says(q)'
  BY <1>2, <1>3, OldTruth DEF Truthful
<1>4. ASSUME NEW q \in Packets, q.kind = "auth"
      PROVE  Says(q)'
  BY <1>4 DEF Says
<1>5. \A i \in 1..Len(packets') : packets'[i] \in Packets
  BY DEF Typed
<1>6. ASSUME NEW i \in 1..Len(packets')
      PROVE  \A q \in Packets : q = packets'[i] => Says(q)'
  BY <1>1, <1>3, <1>4, <1>5 DEF ToldBefore
<1>7. \A i \in 1..Len(packets') : Says(packets[i])'
  BY <1>5, <1>6 DEF Says
<1> QED
  BY <1>7 DEF Truthful

\* A refetch says nothing new of the roster.
LEMMA RefetchSame ==
  ASSUME Typed, NEW force, RefetchRoster(force), meta' # None
  PROVE  meta # None /\ meta'.age = meta.age /\ meta'.revision = meta.revision
BY DEF RefetchRoster, Typed, Metas

\* What the client knows after a packet, it knew before or is told by it.
LEMMA MetaAfter ==
  ASSUME Typed, Receive, meta' # None
  PROVE  LET p == Head(packets) IN
         \/ meta # None /\ meta'.age = meta.age /\ meta'.revision = meta.revision
         \/ p.kind # "auth" /\ meta'.age = p.age /\ meta'.revision = p.revision
<1> DEFINE p == Head(packets)
<1>1. OnAuth(p) \/ OnPage(p) \/ OnFound(p) \/ OnDelta(p)
  BY DEF Receive
<1> DEFINE Good == \/ meta # None /\ meta'.age = meta.age /\ meta'.revision = meta.revision
                   \/ p.kind # "auth" /\ meta'.age = p.age /\ meta'.revision = p.revision
<1> HIDE DEF p
<1>2. ASSUME OnAuth(p) \/ OnFound(p)
      PROVE  Good
  BY <1>2, RefetchSame DEF OnAuth, OnFound
<1>3. ASSUME OnPage(p)
      PROVE  Good
  <2>1. (\E f \in BOOLEAN : RefetchRoster(f)) \/ UNCHANGED meta \/ AppliesPage(p)
    BY <1>3 DEF OnPage
  <2>2. p.kind = "page"
    BY <1>3 DEF OnPage
  <2>3. CASE AppliesPage(p)
    BY <2>2, <2>3 DEF AppliesPage
  <2> QED
    BY <2>1, <2>3, RefetchSame
<1>4. ASSUME OnDelta(p)
      PROVE  Good
  <2>1. \/ (\E f \in BOOLEAN : RefetchRoster(f)) \/ UNCHANGED meta
        \/ meta # None /\ meta' = [meta EXCEPT !.revision = p.revision, !.age = p.age]
    BY <1>4 DEF OnDelta
  <2>2. CASE meta # None /\ meta' = [meta EXCEPT !.revision = p.revision, !.age = p.age]
    <3>1. p.kind # "auth" /\ meta \in Metas
      BY <1>4, <2>2 DEF OnDelta, Typed
    <3> QED BY <2>2, <3>1 DEF Metas
  <2> QED
    BY <2>1, <2>2, RefetchSame
<1> QED
  BY <1>1, <1>2, <1>3, <1>4 DEF p

\* The renderer's other steps leave what the client knows of the roster.
LEMMA MetaElse ==
  ASSUME Typed, meta' # None,
         \/ (\E q \in rejected : OnRejected(q)) \/ LoadMore \/ (\E u \in Shown : RequestMember(u))
         \/ Lose \/ Connect \/ Restart \/ ServeList \/ UNCHANGED meta
  PROVE  meta # None /\ meta'.age = meta.age /\ meta'.revision = meta.revision
<1>1. meta \in Metas \cup {None}
  BY DEF Typed
<1>2. \/ meta' = meta
      \/ meta # None /\ meta' = [meta EXCEPT !.refetching = FALSE]
      \/ meta # None /\ meta' = [meta EXCEPT !.loadingMore = FALSE]
      \/ meta # None /\ meta' = [meta EXCEPT !.loadingMore = TRUE]
  BY DEF OnRejected, LoadMore, RequestMember, Lose, Connect, Restart, ServeList
<1> QED
  BY <1>1, <1>2 DEF Metas

LEMMA ReceiveTruthful ==
  ASSUME Truthful, Typed', Receive
  PROVE  Truthful'
<1>1. Typed /\ UNCHANGED <<past, age>> /\ packets # <<>>
  BY DEF Receive, server, Truthful
<1>2. Says(Head(packets))
  BY <1>1 DEF Truthful, Typed
<1>3. meta' # None => meta'.age <= age
  BY <1>1, <1>2, MetaAfter DEF Truthful, Says
<1> QED
  BY <1>1, <1>3, ClientTold, ClientStep

LEMMA NextTruthful ==
  ASSUME Truthful, [Next]_vars
  PROVE  Truthful'
<1>1. Typed /\ Typed'
  BY NextTyped DEF Truthful
<1>2. CASE Emit
  <2>1. ASSUME NEW u \in Uids, NEW k \in KeysOf[u], NEW o \in BOOLEAN
        PROVE  [uid |-> u, key |-> k, online |-> o] \in Row
    BY DEF Row
  <2> QED
    BY <1>1, <1>2, <2>1, UpsertTruthful, RemoveTruthful DEF Emit
<1>3. CASE \/ (\E q \in rejected : OnRejected(q)) \/ LoadMore \/ (\E u \in Shown : RequestMember(u))
           \/ Lose \/ Connect \/ Restart \/ UNCHANGED vars
  <2>1. UNCHANGED <<past, age>>
    BY <1>3 DEF OnRejected, LoadMore, RequestMember, Lose, Connect, Restart, vars, server
  <2>2. ToldBefore
    BY <1>1, <1>3, ClientTold DEF vars
  <2>3. meta' # None => meta'.age <= age
    BY <1>1, <1>3, MetaElse DEF Truthful, vars
  <2> QED
    BY <1>1, <2>1, <2>2, <2>3, ClientStep
<1> QED
  BY <1>1, <1>2, <1>3, ServeTruthful, ReceiveTruthful DEF Next, Views, Progress

-----------------------------------------------------------------------------
(* One server process: a revision is an age.                               *)

LEMMA RevisionsKept ==
  ASSUME Faithful, Typed', [Next]_vars, born' = born
  PROVE  \A i \in 1..Len(packets') : packets'[i].kind # "auth" => packets'[i].revision = packets'[i].age
<1>1. packets \in Seq(Packets) /\ Typed /\ born = 0 /\ age - born = age
  BY RosterAssumption DEF Faithful, Truthful, Typed
<1>2. \A i \in 1..Len(packets) : packets[i].kind # "auth" => packets[i].revision = packets[i].age
  BY DEF Faithful
<1>3. ASSUME NEW p, p.revision = p.age, packets' = packets \/ packets' = Append(packets, p)
      PROVE  \A i \in 1..Len(packets') : packets'[i].kind # "auth" => packets'[i].revision = packets'[i].age
  <2>1. CASE packets' = packets
    BY <1>2, <2>1
  <2>2. CASE packets' = Append(packets, p)
    BY <1>1, <1>2, <1>3, <2>2
  <2> QED
    BY <1>3, <2>1, <2>2
<1>4. CASE Emit
  <2>1. PICK p : p.revision = revision + 1 /\ p.age = age + 1 /\ Broadcast(p)
    BY <1>4 DEF Emit, EmitMemberUpsert, EmitMemberRemove
  <2> QED
    BY <1>1, <1>3, <2>1 DEF Broadcast, revision
<1>5. CASE ServeList
  BY <1>1, <1>3, <1>5, Answer
<1>6. CASE ToldBefore
  BY <1>2, <1>6 DEF ToldBefore
<1> QED
  BY <1>1, <1>4, <1>5, <1>6, ClientTold DEF Next, Views, Progress, vars

LEMMA RowsKept ==
  ASSUME Faithful, [Next]_vars, ~Receive, meta' # None
  PROVE  meta'.revision = meta'.age /\ rows' \subseteq past'[meta'.age]
<1>1. Typed /\ (meta # None => meta.revision = meta.age /\ rows \subseteq past[meta.age] /\ meta.age \in 0..age)
  BY DEF Faithful, Truthful, Typed, Metas
<1>2. UNCHANGED rows
  BY DEF Next, Emit, EmitMemberUpsert, EmitMemberRemove, Views, LoadMore, RequestMember, Lose, Restart,
         Progress, ServeList, Connect, OnRejected, vars
<1>3. meta # None /\ meta'.age = meta.age /\ meta'.revision = meta.revision
  <2>1. Emit => UNCHANGED meta
    BY DEF Emit, EmitMemberUpsert, EmitMemberRemove
  <2> QED
    BY <1>1, <2>1, MetaElse DEF Next, Views, Progress, vars
<1>4. \A a \in 0..age : past'[a] = past[a]
  <2>1. CASE UNCHANGED past
    BY <2>1
  <2>2. CASE Emit
    <3>1. age \in Nat /\ past \in [0..MaxAge -> SUBSET Row]
      BY <1>1, RosterAssumption DEF Typed
    <3>2. \E now, u : Changes(u, now)
      BY <2>2 DEF Emit, EmitMemberUpsert, EmitMemberRemove
    <3>3. PICK R : past' = [past EXCEPT ![age + 1] = R]
      BY <3>2 DEF Changes
    <3> QED
      BY <3>1, <3>3
  <2> QED
    BY <2>1, <2>2 DEF Next, Views, LoadMore, RequestMember, Lose, Restart, Progress, ServeList, Connect,
                      OnRejected, server, vars
<1> QED
  BY <1>1, <1>2, <1>3, <1>4

LEMMA ReceiveFaithful ==
  ASSUME Faithful, Receive, meta' # None
  PROVE  meta'.revision = meta'.age /\ rows' \subseteq past[meta'.age]
<1> DEFINE p == Head(packets)
<1>1. packets # <<>> /\ (OnAuth(p) \/ OnPage(p) \/ OnFound(p) \/ OnDelta(p))
  BY DEF Receive
<1>2. packets \in Seq(Packets) /\ meta \in Metas \cup {None} /\ Typed
  BY DEF Faithful, Truthful, Typed
<1>3. p \in Packets /\ p = packets[1] /\ 1 \in 1..Len(packets)
  BY <1>1, <1>2
<1>4. TellsTheTruth(p)
  BY <1>3 DEF Faithful, Truthful, TellsTheTruth
<1>5. meta # None => meta.revision = meta.age /\ rows \subseteq past[meta.age]
  BY DEF Faithful
<1> DEFINE Good == meta'.revision = meta'.age /\ rows' \subseteq past[meta'.age]
<1> HIDE DEF p
<1>6. ASSUME NEW force, RefetchRoster(force), UNCHANGED rows
      PROVE  Good
  BY <1>2, <1>5, <1>6, RefetchSame
<1>7. ASSUME OnAuth(p)
      PROVE  Good
  BY <1>6, <1>7 DEF OnAuth
<1>8. ASSUME OnPage(p)
      PROVE  Good
  <2>1. p \in Pages /\ p.kind = "page" /\ p.revision = p.age /\ p.members \cup p.extra \subseteq past[p.age]
    BY <1>3, <1>4, <1>8, PacketKinds DEF OnPage, TellsTheTruth, Says
  <2>2. CASE ~p.first /\ (meta = None \/ meta.refetching)
    <3>1. UNCHANGED <<meta, rows>>
      BY <1>8, <2>2 DEF OnPage
    <3> QED
      BY <3>1, <1>5
  <2>3. CASE ~p.first /\ meta # None /\ ~meta.refetching /\ p.revision # meta.revision
    BY <1>6, <1>8, <2>3 DEF OnPage
  <2>4. CASE p.first \/ (meta # None /\ ~meta.refetching /\ p.revision = meta.revision)
    <3>1. AppliesPage(p)
      BY <1>8, <2>4 DEF OnPage
    <3>2. rows' \subseteq past[p.age]
      BY <1>5, <2>1, <2>4, <3>1 DEF AppliesPage, Held
    <3>3. meta'.age = p.age /\ meta'.revision = p.revision
      BY <3>1 DEF AppliesPage
    <3> QED
      BY <2>1, <3>2, <3>3
  <2> QED
    BY <1>2, <2>1, <2>2, <2>3, <2>4 DEF Pages
<1>9. ASSUME OnFound(p)
      PROVE  Good
  <2>1. p.revision = p.age /\ p.extra \subseteq past[p.age] /\ meta' = meta
    BY <1>4, <1>9 DEF OnFound, TellsTheTruth, Says
  <2> QED
    BY <1>5, <1>9, <2>1 DEF OnFound, Held
<1>10. ASSUME OnDelta(p)
      PROVE  Good
  <2>1. p.kind \in {"upsert", "remove"} /\ p.age \in Nat /\ p.revision = p.age /\ p.age > 0
    BY <1>3, <1>4, <1>10, PacketKinds DEF OnDelta, TellsTheTruth, Says, Upserts, Removes
  <2>2. CASE meta = None \/ meta.refetching
    <3>1. UNCHANGED <<meta, rows>>
      BY <1>10, <2>2 DEF OnDelta
    <3> QED
      BY <1>5, <3>1
  <2>3. CASE meta # None /\ ~meta.refetching /\ p.revision # meta.revision + 1
    BY <1>6, <1>10, <2>3 DEF OnDelta
  <2>4. CASE meta # None /\ ~meta.refetching /\ p.revision = meta.revision + 1
    <3>1. /\ rows' = IF p.kind = "upsert" THEN Held({p.row}) ELSE {m \in rows : m.uid # p.uid}
          /\ meta' = [meta EXCEPT !.revision = p.revision, !.age = p.age]
      BY <1>10, <2>4 DEF OnDelta
    <3>2. meta'.age = p.age /\ meta'.revision = p.revision
      BY <1>2, <2>4, <3>1 DEF Metas
    <3>3. meta.age \in Nat /\ p.age - 1 = meta.age /\ rows \subseteq past[meta.age]
      BY <1>2, <1>5, <2>1, <2>4 DEF Metas
    <3>4. past[p.age - 1] = past[meta.age]
      BY <3>3
    <3>5. CASE p.kind = "upsert"
      <4>1. past[p.age] = {m \in past[meta.age] : m.uid # p.row.uid} \cup {p.row}
        BY <1>4, <3>4, <3>5 DEF TellsTheTruth, Says
      <4>2. rows' = {m \in rows : \A n \in {p.row} : n.uid # m.uid} \cup {p.row}
        BY <3>1, <3>5 DEF Held
      <4> QED
        BY <2>1, <3>2, <3>3, <4>1, <4>2
    <3>6. CASE p.kind = "remove"
      <4>1. past[p.age] = {m \in past[meta.age] : m.uid # p.uid}
        BY <1>4, <3>4, <3>6 DEF TellsTheTruth, Says
      <4>2. rows' = {m \in rows : m.uid # p.uid}
        BY <3>1, <3>6
      <4> QED
        BY <2>1, <3>2, <3>3, <4>1, <4>2
    <3> QED
      BY <2>1, <3>5, <3>6
  <2> QED
    BY <2>2, <2>3, <2>4
<1> QED
  BY <1>1, <1>7, <1>8, <1>9, <1>10

LEMMA NextFaithful ==
  ASSUME MaxRestarts = 0, Faithful, [Next]_vars
  PROVE  Faithful'
<1>1. Truthful' /\ Typed'
  BY NextTruthful DEF Faithful, Truthful
<1>2. ~Restart
  BY DEF Restart, Faithful
<1>3. UNCHANGED <<born, restarts>>
  BY <1>2 DEF Next, Emit, EmitMemberUpsert, EmitMemberRemove, Views, LoadMore, RequestMember, Lose,
              Progress, ServeList, Connect, Receive, OnRejected, server, bounds, vars
<1>4. \A i \in 1..Len(packets') : packets'[i].kind # "auth" => packets'[i].revision = packets'[i].age
  BY <1>1, <1>3, RevisionsKept
<1>5. meta' # None => meta'.revision = meta'.age /\ rows' \subseteq past'[meta'.age]
  <2>1. CASE Receive
    BY <2>1, ReceiveFaithful DEF Receive, server
  <2>2. CASE ~Receive
    BY <2>2, RowsKept
  <2> QED
    BY <2>1, <2>2
<1> QED
  BY <1>1, <1>3, <1>4, <1>5 DEF Faithful

(* Every row the member list shows is the server's, as of the last change  *)
(* the client has applied, with any number of lost connections, pages,     *)
(* lookups and deltas on their way (applyMemberPage, applyMemberLookup,    *)
(* upsertMember and removeMember compare revisions); a restart of the      *)
(* server process starts the revisions again and is left out.              *)
THEOREM RowsAreAlwaysTrue ==
  ASSUME MaxRestarts = 0
  PROVE  Spec => []RowsAreTrue
<1>1. Faithful => RowsAreTrue
  BY DEF Faithful, RowsAreTrue
<1>2. Faithful /\ [Next]_vars => Faithful'
  BY NextFaithful
<1> QED
  BY <1>1, <1>2, InitTrue, PTL DEF Spec


-----------------------------------------------------------------------------
(* The loaded stretch.  A page may be merged into it only if it was asked  *)
(* for after its end, and a first page only if it was waited for.  So the  *)
(* invariant is about the order of what is on its way: one page after the  *)
(* stretch at most, which no first page precedes; one first page at most,  *)
(* which the client waits for.                                             *)

AskedFirst(q) == q.kind = "page" /\ q.after = FirstPage
AskedMore(q) == q.kind = "page" /\ q.after # FirstPage
FirstCame(p) == p.kind = "page" /\ p.first
MoreCame(p) == p.kind = "page" /\ ~p.first

Waits == meta = None \/ meta.refetching
Loads == meta # None /\ meta.hasMore /\ meta.loadingMore

NoFirst ==
  /\ \A i \in 1..Len(packets) : ~FirstCame(packets[i])
  /\ \A k \in 1..Len(requests) : ~AskedFirst(requests[k])
NoMore ==
  /\ \A i \in 1..Len(packets) : ~MoreCame(packets[i])
  /\ \A k \in 1..Len(requests) : ~AskedMore(requests[k])

MorePagesFit ==
  /\ \A i \in 1..Len(packets) : MoreCame(packets[i]) =>
       /\ Loads /\ Fills(packets[i], meta.nextAfter, past[packets[i].age])
       /\ \A j \in 1..i : ~FirstCame(packets[j])
       /\ \A j \in 1..Len(packets) : MoreCame(packets[j]) => i = j
       /\ \A k \in 1..Len(requests) : ~AskedMore(requests[k])
       /\ \A q \in rejected : ~AskedMore(q)
  /\ \A k \in 1..Len(requests) : AskedMore(requests[k]) =>
       /\ Loads /\ requests[k].after = meta.nextAfter
       /\ \A j \in 1..k : ~AskedFirst(requests[j])
       /\ \A j \in 1..Len(requests) : AskedMore(requests[j]) => k = j
       /\ \A i \in 1..Len(packets) : ~FirstCame(packets[i])

FirstPagesFit ==
  /\ \A i \in 1..Len(packets) : FirstCame(packets[i]) =>
       /\ Waits /\ Fills(packets[i], FirstPage, past[packets[i].age])
       /\ \A j \in 1..Len(packets) : FirstCame(packets[j]) => i = j
       /\ \A k \in 1..Len(requests) : ~AskedFirst(requests[k])
       /\ \A q \in rejected : ~AskedFirst(q)
  /\ \A k \in 1..Len(requests) : AskedFirst(requests[k]) =>
       /\ Waits
       /\ \A j \in 1..Len(requests) : AskedFirst(requests[j]) => k = j

AuthFirst ==
  \A i \in 1..Len(packets) : packets[i].kind = "auth" =>
    i = 1 /\ NoFirst /\ \A q \in rejected : ~AskedFirst(q)

OneEnd == IF up THEN rejected = {} ELSE requests = <<>>

Ordered == MorePagesFit /\ FirstPagesFit /\ AuthFirst /\ OneEnd

\* What follows on the wire in the same order, but for deltas and lookups.
SameOrder(d, e) ==
  /\ \A i \in 1..Len(packets') :
       \/ packets'[i].kind \in {"upsert", "remove", "found"}
       \/ i + d \in 1..Len(packets) /\ packets'[i] = packets[i + d]
  /\ \A k \in 1..Len(requests') :
       \/ requests'[k].kind = "lookup"
       \/ (k + e \in 1..Len(requests) /\ requests'[k] = requests[k + e])

PagesStay ==
  \A i \in 1..Len(packets) : packets[i].kind = "page" => past'[packets[i].age] = past[packets[i].age]

LEMMA MoreKept ==
  ASSUME MorePagesFit, NEW d \in {0, 1}, NEW e \in {0, 1}, SameOrder(d, e), PagesStay,
         Len(packets) \in Nat, Len(packets') \in Nat, Len(requests) \in Nat, Len(requests') \in Nat,
         NoMore' \/ /\ Loads => Loads' /\ meta'.nextAfter = meta.nextAfter
                    /\ \A q \in rejected' : AskedMore(q) => q \in rejected
  PROVE  MorePagesFit'
<1>0. \A k \in 1..Len(requests') :
        requests'[k].kind = "lookup" \/ (k + e \in 1..Len(requests) /\ requests'[k] = requests[k + e])
  BY DEF SameOrder
<1>1. CASE NoMore'
  BY <1>1 DEF NoMore, MorePagesFit
<1>2. CASE /\ Loads => Loads' /\ meta'.nextAfter = meta.nextAfter
           /\ \A q \in rejected' : AskedMore(q) => q \in rejected
  <2>1. ASSUME NEW i \in 1..Len(packets'), MoreCame(packets'[i])
        PROVE  /\ Loads' /\ Fills(packets'[i], meta'.nextAfter, past'[packets'[i].age])
               /\ \A j \in 1..i : ~FirstCame(packets'[j])
               /\ \A j \in 1..Len(packets') : MoreCame(packets'[j]) => i = j
               /\ \A k \in 1..Len(requests') : ~AskedMore(requests'[k])
               /\ \A q \in rejected' : ~AskedMore(q)
    <3>1. i + d \in 1..Len(packets) /\ packets'[i] = packets[i + d] /\ packets[i + d].kind = "page"
      BY <2>1 DEF SameOrder, MoreCame
    <3>2. /\ Loads /\ Fills(packets[i + d], meta.nextAfter, past[packets[i + d].age])
          /\ \A j \in 1..(i + d) : ~FirstCame(packets[j])
          /\ \A j \in 1..Len(packets) : MoreCame(packets[j]) => i + d = j
          /\ \A k \in 1..Len(requests) : ~AskedMore(requests[k])
          /\ \A q \in rejected : ~AskedMore(q)
      BY <2>1, <3>1 DEF MorePagesFit
    <3>3. Loads' /\ Fills(packets'[i], meta'.nextAfter, past'[packets'[i].age])
      BY <1>2, <3>1, <3>2 DEF PagesStay
    <3>4. ASSUME NEW j \in 1..i
          PROVE  ~FirstCame(packets'[j])
      <4>1. j \in 1..Len(packets') /\ (j + d \in 1..Len(packets) => j + d \in 1..(i + d))
        BY <3>1
      <4> QED BY <3>2, <4>1 DEF SameOrder, FirstCame
    <3>5. ASSUME NEW j \in 1..Len(packets'), MoreCame(packets'[j])
          PROVE  i = j
      <4>1. j + d \in 1..Len(packets) /\ packets'[j] = packets[j + d]
        BY <3>5 DEF SameOrder, MoreCame
      <4>2. i + d = j + d
        BY <3>2, <3>5, <4>1
      <4> QED BY <4>2
    <3>6. ASSUME NEW k \in 1..Len(requests')
          PROVE  ~AskedMore(requests'[k])
      <4>1. requests'[k].kind = "lookup" \/ (k + e \in 1..Len(requests) /\ requests'[k] = requests[k + e])
        BY <1>0
      <4> QED BY <3>2, <4>1 DEF AskedMore
    <3> QED BY <1>2, <3>2, <3>3, <3>4, <3>5, <3>6
  <2>2. ASSUME NEW k \in 1..Len(requests'), AskedMore(requests'[k])
        PROVE  /\ Loads' /\ requests'[k].after = meta'.nextAfter
               /\ \A j \in 1..k : ~AskedFirst(requests'[j])
               /\ \A j \in 1..Len(requests') : AskedMore(requests'[j]) => k = j
               /\ \A i \in 1..Len(packets') : ~FirstCame(packets'[i])
    <3>1. k + e \in 1..Len(requests) /\ requests'[k] = requests[k + e]
      BY <2>2 DEF SameOrder, AskedMore
    <3>2. /\ Loads /\ requests[k + e].after = meta.nextAfter
          /\ \A j \in 1..(k + e) : ~AskedFirst(requests[j])
          /\ \A j \in 1..Len(requests) : AskedMore(requests[j]) => k + e = j
          /\ \A i \in 1..Len(packets) : ~FirstCame(packets[i])
      BY <2>2, <3>1 DEF MorePagesFit
    <3>3. ASSUME NEW j \in 1..k
          PROVE  ~AskedFirst(requests'[j])
      <4>1. j \in 1..Len(requests') /\ (j + e \in 1..Len(requests) => j + e \in 1..(k + e))
        BY <3>1
      <4> QED BY <3>2, <4>1 DEF SameOrder, AskedFirst
    <3>4. ASSUME NEW j \in 1..Len(requests'), AskedMore(requests'[j])
          PROVE  k = j
      <4>1. j + e \in 1..Len(requests) /\ requests'[j] = requests[j + e]
        BY <3>4 DEF SameOrder, AskedMore
      <4>2. k + e = j + e
        BY <3>2, <3>4, <4>1
      <4> QED BY <4>2
    <3>5. ASSUME NEW i \in 1..Len(packets')
          PROVE  ~FirstCame(packets'[i])
      <4>1. \/ packets'[i].kind \in {"upsert", "remove", "found"}
            \/ i + d \in 1..Len(packets) /\ packets'[i] = packets[i + d]
        BY DEF SameOrder
      <4> QED BY <3>2, <4>1 DEF FirstCame
    <3> QED BY <1>2, <3>1, <3>2, <3>3, <3>4, <3>5
  <2> QED BY <2>1, <2>2 DEF MorePagesFit
<1> QED BY <1>1, <1>2

LEMMA FirstKept ==
  ASSUME FirstPagesFit, NEW d \in {0, 1}, NEW e \in {0, 1}, SameOrder(d, e), PagesStay,
         Len(packets) \in Nat, Len(packets') \in Nat, Len(requests) \in Nat, Len(requests') \in Nat,
         NoFirst' \/ ((Waits => Waits') /\ \A q \in rejected' : AskedFirst(q) => q \in rejected)
  PROVE  FirstPagesFit'
<1>0. \A k \in 1..Len(requests') :
        requests'[k].kind = "lookup" \/ (k + e \in 1..Len(requests) /\ requests'[k] = requests[k + e])
  BY DEF SameOrder
<1>1. CASE NoFirst'
  BY <1>1 DEF NoFirst, FirstPagesFit
<1>2. CASE (Waits => Waits') /\ \A q \in rejected' : AskedFirst(q) => q \in rejected
  <2>1. ASSUME NEW i \in 1..Len(packets'), FirstCame(packets'[i])
        PROVE  /\ Waits' /\ Fills(packets'[i], FirstPage, past'[packets'[i].age])
               /\ \A j \in 1..Len(packets') : FirstCame(packets'[j]) => i = j
               /\ \A k \in 1..Len(requests') : ~AskedFirst(requests'[k])
               /\ \A q \in rejected' : ~AskedFirst(q)
    <3>1. i + d \in 1..Len(packets) /\ packets'[i] = packets[i + d] /\ packets[i + d].kind = "page"
      BY <2>1 DEF SameOrder, FirstCame
    <3>2. /\ Waits /\ Fills(packets[i + d], FirstPage, past[packets[i + d].age])
          /\ \A j \in 1..Len(packets) : FirstCame(packets[j]) => i + d = j
          /\ \A k \in 1..Len(requests) : ~AskedFirst(requests[k])
          /\ \A q \in rejected : ~AskedFirst(q)
      BY <2>1, <3>1 DEF FirstPagesFit
    <3>3. Fills(packets'[i], FirstPage, past'[packets'[i].age])
      BY <3>1, <3>2 DEF PagesStay
    <3>4. ASSUME NEW j \in 1..Len(packets'), FirstCame(packets'[j])
          PROVE  i = j
      <4>1. j + d \in 1..Len(packets) /\ packets'[j] = packets[j + d]
        BY <3>4 DEF SameOrder, FirstCame
      <4>2. i + d = j + d
        BY <3>2, <3>4, <4>1
      <4> QED BY <4>2
    <3>5. ASSUME NEW k \in 1..Len(requests')
          PROVE  ~AskedFirst(requests'[k])
      <4>1. requests'[k].kind = "lookup" \/ (k + e \in 1..Len(requests) /\ requests'[k] = requests[k + e])
        BY <1>0
      <4> QED BY <3>2, <4>1 DEF AskedFirst
    <3> QED BY <1>2, <3>2, <3>3, <3>4, <3>5
  <2>2. ASSUME NEW k \in 1..Len(requests'), AskedFirst(requests'[k])
        PROVE  Waits' /\ \A j \in 1..Len(requests') : AskedFirst(requests'[j]) => k = j
    <3>1. k + e \in 1..Len(requests) /\ requests'[k] = requests[k + e]
      BY <2>2 DEF SameOrder, AskedFirst
    <3>2. Waits /\ \A j \in 1..Len(requests) : AskedFirst(requests[j]) => k + e = j
      BY <2>2, <3>1 DEF FirstPagesFit
    <3>3. ASSUME NEW j \in 1..Len(requests'), AskedFirst(requests'[j])
          PROVE  k = j
      <4>1. j + e \in 1..Len(requests) /\ requests'[j] = requests[j + e]
        BY <3>3 DEF SameOrder, AskedFirst
      <4>2. k + e = j + e
        BY <3>2, <3>3, <4>1
      <4> QED BY <4>2
    <3> QED BY <1>2, <3>2, <3>3
  <2> QED BY <2>1, <2>2 DEF FirstPagesFit
<1> QED BY <1>1, <1>2

LEMMA OrderKept ==
  ASSUME Ordered, NEW d \in {0, 1}, NEW e \in {0, 1}, SameOrder(d, e), PagesStay,
         Len(packets) \in Nat, Len(packets') \in Nat, Len(requests) \in Nat, Len(requests') \in Nat,
         NoMore' \/ /\ Loads => Loads' /\ meta'.nextAfter = meta.nextAfter
                    /\ \A q \in rejected' : AskedMore(q) => q \in rejected,
         NoFirst' \/ ((Waits => Waits') /\ \A q \in rejected' : AskedFirst(q) => q \in rejected),
         \/ \A i \in 1..Len(packets') : packets'[i].kind # "auth"
         \/ d = 0 /\ \A q \in rejected' : AskedFirst(q) => q \in rejected,
         OneEnd'
  PROVE  Ordered'
<1>1. MorePagesFit' /\ FirstPagesFit'
  BY MoreKept, FirstKept DEF Ordered
<1>2. ASSUME NEW i \in 1..Len(packets'), packets'[i].kind = "auth"
      PROVE  i = 1 /\ NoFirst' /\ \A q \in rejected' : ~AskedFirst(q)
  <2>1. d = 0 /\ \A q \in rejected' : AskedFirst(q) => q \in rejected
    BY <1>2
  <2>2. i \in 1..Len(packets) /\ packets[i].kind = "auth"
    BY <1>2, <2>1 DEF SameOrder
  <2>3. i = 1 /\ NoFirst /\ \A q \in rejected : ~AskedFirst(q)
    BY <2>2 DEF Ordered, AuthFirst
  <2>4. NoFirst'
    <3>1. ASSUME NEW j \in 1..Len(packets')
          PROVE  ~FirstCame(packets'[j])
      <4>1. \/ packets'[j].kind \in {"upsert", "remove", "found"}
            \/ j + d \in 1..Len(packets) /\ packets'[j] = packets[j + d]
        BY DEF SameOrder
      <4> QED BY <2>3, <4>1 DEF NoFirst, FirstCame
    <3>2. ASSUME NEW k \in 1..Len(requests')
          PROVE  ~AskedFirst(requests'[k])
      <4>1. \/ requests'[k].kind = "lookup"
            \/ k + e \in 1..Len(requests) /\ requests'[k] = requests[k + e]
        BY DEF SameOrder
      <4> QED BY <2>3, <4>1 DEF NoFirst, AskedFirst
    <3> QED BY <3>1, <3>2 DEF NoFirst
  <2> QED BY <2>1, <2>3, <2>4
<1> QED BY <1>1, <1>2 DEF Ordered, AuthFirst

\* A first page is asked for when none is on its way.
LEMMA FirstAsked ==
  ASSUME Ordered, NoFirst, NEW r, AskedFirst(r), PagesStay, up, up',
         packets \in Seq(Packets), requests \in Seq(Requests), packets # <<>>, packets' = Tail(packets),
         requests' = Append(requests, r), rejected' = rejected,
         Loads => Loads' /\ meta'.nextAfter = meta.nextAfter, Waits'
  PROVE  Ordered'
<1>1. /\ Len(packets') = Len(packets) - 1 /\ Len(packets) \in Nat
      /\ \A i \in 1..Len(packets') : i + 1 \in 1..Len(packets) /\ packets'[i] = packets[i + 1]
  OBVIOUS
<1>2. /\ Len(requests') = Len(requests) + 1 /\ Len(requests) \in Nat
      /\ requests'[Len(requests) + 1] = r
      /\ \A k \in 1..Len(requests) : requests'[k] = requests[k]
  OBVIOUS
<1>3. rejected = {}
  BY DEF Ordered, OneEnd
<1>4. \A k \in 1..Len(requests') : k = Len(requests) + 1 \/ (k \in 1..Len(requests) /\ requests'[k] = requests[k])
  BY <1>2
<1>5. ASSUME NEW i \in 1..Len(packets'), MoreCame(packets'[i])
      PROVE  /\ Loads' /\ Fills(packets'[i], meta'.nextAfter, past'[packets'[i].age])
             /\ \A j \in 1..i : ~FirstCame(packets'[j])
             /\ \A j \in 1..Len(packets') : MoreCame(packets'[j]) => i = j
             /\ \A k \in 1..Len(requests') : ~AskedMore(requests'[k])
             /\ \A q \in rejected' : ~AskedMore(q)
  <2>1. i + 1 \in 1..Len(packets) /\ packets'[i] = packets[i + 1] /\ packets[i + 1].kind = "page"
    BY <1>1, <1>5 DEF MoreCame
  <2>2. /\ Loads /\ Fills(packets[i + 1], meta.nextAfter, past[packets[i + 1].age])
        /\ \A j \in 1..Len(packets) : MoreCame(packets[j]) => i + 1 = j
        /\ \A k \in 1..Len(requests) : ~AskedMore(requests[k])
    BY <1>5, <2>1 DEF Ordered, MorePagesFit
  <2>3. Loads' /\ Fills(packets'[i], meta'.nextAfter, past'[packets'[i].age])
    BY <2>1, <2>2 DEF PagesStay
  <2>4. \A j \in 1..Len(packets') : ~FirstCame(packets'[j])
    BY <1>1 DEF NoFirst
  <2>5. ASSUME NEW j \in 1..Len(packets'), MoreCame(packets'[j])
        PROVE  i = j
    <3>1. i + 1 = j + 1
      BY <1>1, <2>2, <2>5
    <3> QED BY <3>1
  <2>6. \A k \in 1..Len(requests') : ~AskedMore(requests'[k])
    BY <1>2, <1>4, <2>2 DEF AskedMore, AskedFirst
  <2>7. \A q \in rejected' : ~AskedMore(q)
    BY <1>3
  <2>8. \A j \in 1..i : ~FirstCame(packets'[j])
    BY <1>1, <2>4
  <2> QED BY <2>3, <2>5, <2>6, <2>7, <2>8
<1>6. ASSUME NEW k \in 1..Len(requests'), AskedMore(requests'[k])
      PROVE  /\ Loads' /\ requests'[k].after = meta'.nextAfter
             /\ \A j \in 1..k : ~AskedFirst(requests'[j])
             /\ \A j \in 1..Len(requests') : AskedMore(requests'[j]) => k = j
             /\ \A i \in 1..Len(packets') : ~FirstCame(packets'[i])
  <2>1. \A j \in 1..Len(requests') : AskedMore(requests'[j]) => j \in 1..Len(requests) /\ AskedMore(requests[j])
    BY <1>2, <1>4 DEF AskedMore, AskedFirst
  <2>2. k \in 1..Len(requests) /\ AskedMore(requests[k]) /\ requests'[k] = requests[k]
    BY <1>2, <1>6, <2>1
  <2>3. /\ Loads /\ requests[k].after = meta.nextAfter
        /\ \A j \in 1..k : ~AskedFirst(requests[j])
        /\ \A j \in 1..Len(requests) : AskedMore(requests[j]) => k = j
    BY <2>2 DEF Ordered, MorePagesFit
  <2>4. \A j \in 1..k : ~AskedFirst(requests'[j])
    BY <1>2, <2>2, <2>3
  <2>5. \A i \in 1..Len(packets') : ~FirstCame(packets'[i])
    BY <1>1 DEF NoFirst
  <2> QED BY <2>1, <2>2, <2>3, <2>4, <2>5
<1>7. MorePagesFit'
  BY <1>5, <1>6 DEF MorePagesFit
<1>8. FirstPagesFit'
  <2>1. \A i \in 1..Len(packets') : ~FirstCame(packets'[i])
    BY <1>1 DEF NoFirst
  <2>2. \A k \in 1..Len(requests') : AskedFirst(requests'[k]) => k = Len(requests) + 1
    BY <1>4 DEF NoFirst
  <2> QED BY <2>1, <2>2 DEF FirstPagesFit
<1>9. AuthFirst'
  <2>1. ASSUME NEW i \in 1..Len(packets')
        PROVE  packets'[i].kind # "auth"
    <3>1. i + 1 \in 1..Len(packets) /\ packets'[i] = packets[i + 1] /\ i + 1 # 1
      BY <1>1
    <3> QED BY <3>1 DEF Ordered, AuthFirst
  <2> QED BY <2>1 DEF AuthFirst
<1> QED BY <1>3, <1>7, <1>8, <1>9 DEF Ordered, OneEnd

\* The page after the stretch is asked for when no page is on its way.
LEMMA MoreAsked ==
  ASSUME Ordered, NoFirst, NoMore, NEW r, AskedMore(r), r.after = meta.nextAfter, up, up',
         requests \in Seq(Requests), Len(packets) \in Nat, packets' = packets, requests' = Append(requests, r),
         rejected' = rejected, Loads', meta'.nextAfter = meta.nextAfter
  PROVE  Ordered'
<1>1. /\ Len(requests') = Len(requests) + 1 /\ Len(requests) \in Nat
      /\ requests'[Len(requests) + 1] = r
      /\ \A k \in 1..Len(requests) : requests'[k] = requests[k]
  OBVIOUS
<1>2. \A k \in 1..Len(requests') : k = Len(requests) + 1 \/ (k \in 1..Len(requests) /\ requests'[k] = requests[k])
  BY <1>1
<1>3. rejected = {}
  BY DEF Ordered, OneEnd
<1>4. \A k \in 1..Len(requests') : ~AskedFirst(requests'[k])
  BY <1>1, <1>2 DEF NoFirst, AskedFirst, AskedMore
<1>5. \A k \in 1..Len(requests') : AskedMore(requests'[k]) => k = Len(requests) + 1
  BY <1>2 DEF NoMore
<1>6. NoFirst'
  BY <1>4 DEF NoFirst
<1>7. MorePagesFit'
  <2>1. \A i \in 1..Len(packets') : ~MoreCame(packets'[i])
    BY DEF NoMore
  <2>2. ASSUME NEW k \in 1..Len(requests'), AskedMore(requests'[k])
        PROVE  /\ Loads' /\ requests'[k].after = meta'.nextAfter
               /\ \A j \in 1..k : ~AskedFirst(requests'[j])
               /\ \A j \in 1..Len(requests') : AskedMore(requests'[j]) => k = j
               /\ \A i \in 1..Len(packets') : ~FirstCame(packets'[i])
    <3>1. k = Len(requests) + 1 /\ requests'[k] = r
      BY <1>1, <1>5, <2>2
    <3>2. \A j \in 1..k : ~AskedFirst(requests'[j])
      BY <1>1, <1>4
    <3> QED BY <1>5, <1>6, <3>1, <3>2 DEF NoFirst
  <2> QED BY <2>1, <2>2 DEF MorePagesFit
<1>8. FirstPagesFit'
  BY <1>6 DEF FirstPagesFit, NoFirst
<1>9. AuthFirst'
  BY <1>3, <1>6 DEF Ordered, AuthFirst
<1> QED BY <1>3, <1>7, <1>8, <1>9 DEF Ordered, OneEnd

-----------------------------------------------------------------------------
(* The stretch itself: it ends at nextAfter, and has whoever stands before *)
(* that place.                                                             *)

Stored == \A a \in 0..age : IsFiniteSet(past[a]) /\ Distinct(past[a])

Reached ==
  meta # None =>
    /\ meta \in MemberRosterMeta
    /\ meta.hasMore =>
         /\ meta.nextAfter # FirstPage
         /\ \A m \in past[meta.age] : ~Before(meta.nextAfter, m) => m \in rows
         /\ meta.offlineEdge = 0
              \/ (~meta.nextAfter.online /\ meta.offlineEdge <= meta.nextAfter.key)

Whole == Faithful /\ Ordered /\ Stored /\ Reached /\ NoGap

LEMMA ServedPage ==
  ASSUME Whole, NEW c, Place(c)
  PROVE  LET p == Page(c, Roster) IN
         /\ p.kind = "page" /\ p.age = age /\ (p.first <=> c = FirstPage) /\ Fills(p, c, past[age])
<1> DEFINE p == Page(c, Roster)
<1>1. Roster = past[age] /\ Roster \in SUBSET Row /\ IsFiniteSet(Roster) /\ Distinct(Roster)
  BY DEF Roster, Whole, Stored, Faithful, Truthful, Typed
<1>2. p.kind = "page" /\ p.age = age /\ (p.first <=> c = FirstPage)
  BY DEF Page
<1> HIDE DEF p
<1> QED BY <1>1, <1>2, PageFills DEF p

LEMMA PageServed ==
  ASSUME Whole, ServeList, Head(requests).kind = "page"
  PROVE  Ordered'
<1> DEFINE q == Head(requests)  p == Page(q.after, Roster)
<1>1. /\ up /\ requests # <<>> /\ requests' = Tail(requests) /\ packets' = Append(packets, p)
      /\ UNCHANGED <<past, age, up, meta, rejected>>
  BY DEF ServeList, server
<1>2. requests \in Seq(Requests) /\ packets \in Seq(Packets)
  BY DEF Whole, Faithful, Truthful, Typed
<1>3. /\ Len(requests) \in Nat /\ Len(requests) >= 1 /\ q = requests[1]
      /\ Len(requests') = Len(requests) - 1
      /\ \A k \in 1..Len(requests') : k + 1 \in 1..Len(requests) /\ requests'[k] = requests[k + 1]
  BY <1>1, <1>2
<1>4. /\ Len(packets) \in Nat /\ Len(packets') = Len(packets) + 1
      /\ packets'[Len(packets) + 1] = p
      /\ \A i \in 1..Len(packets) : packets'[i] = packets[i]
  BY <1>1, <1>2
<1>5. \A i \in 1..Len(packets') : i = Len(packets) + 1 \/ (i \in 1..Len(packets) /\ packets'[i] = packets[i])
  BY <1>4
<1>6. rejected' = {} /\ rejected = {}
  BY <1>1 DEF Whole, Ordered, OneEnd
<1>7. 1 \in 1..Len(requests) /\ \A k \in 1..Len(requests') : k + 1 # 1
  BY <1>3
<1>8. (Loads <=> Loads') /\ (Waits <=> Waits') /\ meta' = meta /\ past' = past
  BY <1>1 DEF Loads, Waits
<1>9. CASE q.after = FirstPage
  <2>1. AskedFirst(requests[1])
    BY <1>3, <1>9 DEF AskedFirst
  <2>2. /\ Waits /\ \A j \in 1..Len(requests) : AskedFirst(requests[j]) => j = 1
        /\ \A i \in 1..Len(packets) : ~FirstCame(packets[i])
    BY <1>7, <2>1 DEF Whole, Ordered, FirstPagesFit
  <2>3. \A i \in 1..Len(packets) : packets[i].kind # "auth"
    BY <1>7, <2>1 DEF Whole, Ordered, AuthFirst, NoFirst
  <2>4. \A k \in 1..Len(requests) : ~AskedMore(requests[k])
    <3>1. ASSUME NEW k \in 1..Len(requests), AskedMore(requests[k])
          PROVE  FALSE
      <4>1. \A j \in 1..k : ~AskedFirst(requests[j])
        BY <3>1 DEF Whole, Ordered, MorePagesFit
      <4>2. 1 \in 1..k
        BY <1>3
      <4> QED BY <2>1, <4>1, <4>2
    <3> QED BY <3>1
  <2>5. Place(FirstPage)
    BY DEF Place, FirstPage
  <2>6. p.kind = "page" /\ p.age = age /\ p.first /\ Fills(p, FirstPage, past[age])
    BY <1>9, <2>5, ServedPage
  <2> HIDE DEF p, q
  <2>7. \A k \in 1..Len(requests') : ~AskedMore(requests'[k]) /\ ~AskedFirst(requests'[k])
    BY <1>3, <1>7, <2>2, <2>4
  <2>8. FirstPagesFit'
    <3>1. \A i \in 1..Len(packets') : FirstCame(packets'[i]) => i = Len(packets) + 1
      BY <1>5, <2>2
    <3>2. Fills(packets'[Len(packets) + 1], FirstPage, past'[packets'[Len(packets) + 1].age])
      BY <1>4, <1>8, <2>6
    <3>3. \A i \in 1..Len(packets') : FirstCame(packets'[i]) => Fills(packets'[i], FirstPage, past'[packets'[i].age])
      BY <3>1, <3>2
    <3> QED BY <1>6, <1>8, <2>2, <2>7, <3>1, <3>3 DEF FirstPagesFit
  <2>9. MorePagesFit'
    <3>1. ASSUME NEW i \in 1..Len(packets'), MoreCame(packets'[i])
          PROVE  /\ Loads' /\ Fills(packets'[i], meta'.nextAfter, past'[packets'[i].age])
                 /\ \A j \in 1..i : ~FirstCame(packets'[j])
                 /\ \A j \in 1..Len(packets') : MoreCame(packets'[j]) => i = j
      <4>1. \A j \in 1..Len(packets') : MoreCame(packets'[j]) =>
               j \in 1..Len(packets) /\ MoreCame(packets[j]) /\ packets'[j] = packets[j]
        BY <1>4, <1>5, <2>6 DEF MoreCame
      <4>2. i \in 1..Len(packets) /\ MoreCame(packets[i]) /\ packets'[i] = packets[i]
        BY <3>1, <4>1
      <4>3. /\ Loads /\ Fills(packets[i], meta.nextAfter, past[packets[i].age])
            /\ \A j \in 1..i : ~FirstCame(packets[j])
            /\ \A j \in 1..Len(packets) : MoreCame(packets[j]) => i = j
        BY <4>2 DEF Whole, Ordered, MorePagesFit
      <4>4. \A j \in 1..i : ~FirstCame(packets'[j])
        BY <1>4, <4>2, <4>3
      <4> QED BY <1>8, <4>1, <4>2, <4>3, <4>4
    <3> QED BY <1>6, <2>7, <3>1 DEF MorePagesFit
  <2>10. AuthFirst'
    BY <1>5, <1>4, <2>3, <2>6 DEF AuthFirst
  <2> QED BY <1>1, <1>6, <2>8, <2>9, <2>10 DEF Ordered, OneEnd
<1>10. CASE q.after # FirstPage
  <2>1. AskedMore(requests[1])
    BY <1>3, <1>10 DEF AskedMore
  <2>2. /\ Loads /\ q.after = meta.nextAfter
        /\ \A j \in 1..Len(requests) : AskedMore(requests[j]) => j = 1
        /\ \A i \in 1..Len(packets) : ~FirstCame(packets[i])
    BY <1>3, <1>7, <2>1 DEF Whole, Ordered, MorePagesFit
  <2>3. \A i \in 1..Len(packets) : ~MoreCame(packets[i])
    BY <1>7, <2>1 DEF Whole, Ordered, MorePagesFit
  <2>4. Place(q.after)
    BY <2>2 DEF Whole, Reached, Loads, MemberRosterMeta, Place
  <2>5. p.kind = "page" /\ p.age = age /\ ~p.first /\ Fills(p, q.after, past[age])
    BY <1>10, <2>4, ServedPage
  <2> HIDE DEF p, q
  <2>6. \A k \in 1..Len(requests') : ~AskedMore(requests'[k])
    BY <1>3, <1>7, <2>2
  <2>7. \A i \in 1..Len(packets') : ~FirstCame(packets'[i])
    BY <1>4, <1>5, <2>2, <2>5 DEF FirstCame
  <2>8. \A i \in 1..Len(packets') : MoreCame(packets'[i]) => i = Len(packets) + 1
    BY <1>5, <2>3
  <2>9. Fills(packets'[Len(packets) + 1], meta.nextAfter, past[packets'[Len(packets) + 1].age])
    BY <1>4, <2>2, <2>5
  <2>10. MorePagesFit'
    <3>1. ASSUME NEW i \in 1..Len(packets'), MoreCame(packets'[i])
          PROVE  /\ Loads' /\ Fills(packets'[i], meta'.nextAfter, past'[packets'[i].age])
                 /\ \A j \in 1..i : ~FirstCame(packets'[j])
                 /\ \A j \in 1..Len(packets') : MoreCame(packets'[j]) => i = j
      <4>1. i = Len(packets) + 1
        BY <2>8, <3>1
      <4>2. \A j \in 1..i : j \in 1..Len(packets')
        BY <1>4
      <4> QED BY <1>8, <2>2, <2>7, <2>8, <2>9, <4>1, <4>2
    <3> QED BY <1>6, <2>6, <3>1 DEF MorePagesFit
  <2>11. FirstPagesFit'
    <3>1. ASSUME NEW k \in 1..Len(requests'), AskedFirst(requests'[k])
          PROVE  Waits' /\ \A j \in 1..Len(requests') : AskedFirst(requests'[j]) => k = j
      <4>1. /\ k + 1 \in 1..Len(requests) /\ AskedFirst(requests[k + 1])
        BY <1>3, <3>1
      <4>2. Waits /\ \A j \in 1..Len(requests) : AskedFirst(requests[j]) => k + 1 = j
        BY <4>1 DEF Whole, Ordered, FirstPagesFit
      <4>3. ASSUME NEW j \in 1..Len(requests'), AskedFirst(requests'[j])
            PROVE  k = j
        <5>1. k + 1 = j + 1
          BY <1>3, <4>2, <4>3
        <5> QED BY <5>1
      <4> QED BY <1>8, <4>2, <4>3
    <3> QED BY <2>7, <3>1 DEF FirstPagesFit
  <2>12. AuthFirst'
    <3>1. ASSUME NEW i \in 1..Len(packets'), packets'[i].kind = "auth"
          PROVE  i = 1 /\ NoFirst'
      <4>1. i \in 1..Len(packets) /\ packets[i].kind = "auth"
        BY <1>4, <1>5, <2>5, <3>1
      <4>2. i = 1 /\ NoFirst
        BY <4>1 DEF Whole, Ordered, AuthFirst
      <4>3. \A k \in 1..Len(requests') : ~AskedFirst(requests'[k])
        BY <1>3, <4>2 DEF NoFirst
      <4> QED BY <2>7, <4>2, <4>3 DEF NoFirst
    <3> QED BY <1>6, <3>1 DEF AuthFirst
  <2> QED BY <1>1, <1>6, <2>10, <2>11, <2>12 DEF Ordered, OneEnd
<1> QED BY <1>9, <1>10

\* Rows that come in without a page, and flags, leave the stretch whole.
LEMMA StretchKept ==
  ASSUME Whole, \A a \in 0..age : past'[a] = past[a], rows \subseteq rows',
         meta' # None => /\ meta # None /\ meta' \in MemberRosterMeta /\ meta'.age = meta.age
                         /\ meta'.onlineComplete = meta.onlineComplete
                         /\ meta'.onlineEdge = meta.onlineEdge /\ meta'.offlineEdge = meta.offlineEdge
                         /\ meta'.hasMore = meta.hasMore /\ meta'.nextAfter = meta.nextAfter
  PROVE  Reached' /\ NoGap'
<1> SUFFICES ASSUME meta' # None PROVE Reached' /\ NoGap'
  BY DEF Reached, NoGap
<1>1. meta.age \in 0..age
  BY DEF Whole, Faithful, Truthful, Typed, Metas
<1>2. past'[meta'.age] = past[meta.age]
  BY <1>1
<1>3. Reached'
  BY <1>2 DEF Whole, Reached
<1>4. NoGap'
  <2>1. \A m : Drawn(m)' => Drawn(m)
    BY DEF Drawn
  <2> QED BY <1>2, <2>1 DEF Whole, NoGap
<1> QED BY <1>3, <1>4

LEMMA StretchSame ==
  ASSUME Whole, \A a \in 0..age : past'[a] = past[a], rows \subseteq rows', meta' = meta
  PROVE  Reached' /\ NoGap'
<1>1. meta' # None => meta' \in MemberRosterMeta
  BY DEF Whole, Reached
<1> QED BY <1>1, StretchKept

\* The edge of a part is its last member's key, or where it was before.
LEMMA EdgeIs ==
  ASSUME NEW S \in SUBSET Row, IsFiniteSet(S), Distinct(S), NEW o \in BOOLEAN, NEW e \in Nat
  PROVE  /\ Edge(S, o, e) \in Nat
         /\ Edge(S, o, e) = e \/ \E l \in S : l.online = o /\ Edge(S, o, e) = l.key
<1> DEFINE part == {m \in S : m.online = o}
<1>1. CASE part = {}
  BY <1>1 DEF Edge
<1>2. CASE part # {}
  <2>1. part \in SUBSET Row /\ IsFiniteSet(part) /\ Distinct(part)
    <3>1. part \subseteq S
      OBVIOUS
    <3> HIDE DEF part
    <3> QED BY <3>1, FS_Subset DEF Distinct
  <2>2. LastOf(part) \in part
    <3> HIDE DEF part
    <3> QED BY <1>2, <2>1, LastOfIs
  <2>3. Edge(S, o, e) = LastOf(part).key
    BY <1>2 DEF Edge
  <2>4. LastOf(part) \in S /\ LastOf(part).online = o /\ LastOf(part).key \in Nat
    BY <2>2, RowPlace DEF Place
  <2> HIDE DEF part
  <2> QED BY <2>3, <2>4
<1> QED BY <1>1, <1>2

LEMMA EdgesOf ==
  ASSUME NEW S \in SUBSET Row, IsFiniteSet(S), Distinct(S), NEW e \in Nat
  PROVE  /\ Edge(S, TRUE, e) \in Nat /\ (Edge(S, TRUE, e) = e \/ \E l \in S : l.online /\ Edge(S, TRUE, e) = l.key)
         /\ Edge(S, FALSE, e) \in Nat /\ (Edge(S, FALSE, e) = e \/ \E l \in S : ~l.online /\ Edge(S, FALSE, e) = l.key)
<1>1. \A o \in BOOLEAN : Edge(S, o, e) \in Nat /\ (Edge(S, o, e) = e \/ \E l \in S : l.online = o /\ Edge(S, o, e) = l.key)
  BY EdgeIs
<1> QED BY <1>1

\* A page merged where the stretch ends makes it longer, and no hole.
LEMMA PageApplied ==
  ASSUME NEW R \in SUBSET Row, IsFiniteSet(R), Distinct(R), NEW p, NEW c, Place(c), Fills(p, c, R),
         p.onlineComplete \in BOOLEAN, p.hasMore \in BOOLEAN,
         p.members \subseteq rows', \A m \in R : ~Before(c, m) => m \in rows',
         NEW oe \in Nat, \A m \in R : m.online /\ m.key <= oe => m \in rows',
         NEW fe \in Nat, fe = 0 \/ (~c.online /\ fe <= c.key),
         meta' \in MemberRosterMeta, past'[meta'.age] = R,
         meta'.onlineComplete = p.onlineComplete, meta'.hasMore = p.hasMore,
         meta'.nextAfter = p.nextAfter,
         meta'.onlineEdge = oe \/ \E l \in p.members : l.online /\ meta'.onlineEdge = l.key,
         meta'.offlineEdge = fe \/ \E l \in p.members : ~l.online /\ meta'.offlineEdge = l.key
  PROVE  Reached' /\ NoGap'
<1>1. /\ \A m \in R : m \in Row /\ Place(m) /\ m.key > 0 /\ m.uid \in Uids
      /\ \A m \in R : m \in Past(c, R) <=> Before(c, m)
      /\ p.members \subseteq R
  BY RowPlace DEF Fills, Past
\* Whoever stands before a member of the page is held.
<1>2. ASSUME NEW m \in R, NEW l \in p.members, m.online = l.online, m.key <= l.key
      PROVE  m \in rows'
  <2>1. m = l \/ Before(m, l)
    <3>1. CASE m.key = l.key
      BY <1>1, <3>1, SameKey DEF Distinct
    <3>2. CASE m.key < l.key
      BY <1>1, <1>2, <3>2 DEF Before, Place
    <3> QED BY <1>1, <1>2, <3>1, <3>2 DEF Place
  <2> QED BY <1>1, <2>1 DEF Fills
<1>3. NoGap'
  <2>1. ASSUME NEW m \in R, Drawn(m)'
        PROVE  m \in rows'
    <3>1. CASE m.online
      <4>1. p.onlineComplete \/ m.key <= meta'.onlineEdge
        BY <2>1, <3>1 DEF Drawn
      <4>2. CASE p.onlineComplete
        BY <1>1, <3>1, <4>2 DEF Fills
      <4>3. CASE m.key <= meta'.onlineEdge
        BY <1>1, <1>2, <3>1, <4>3 DEF Place
      <4> QED BY <4>1, <4>2, <4>3
    <3>2. CASE ~m.online
      <4>1. ~p.hasMore \/ m.key <= meta'.offlineEdge
        BY <2>1, <3>2 DEF Drawn
      <4>2. CASE ~p.hasMore
        BY <1>1, <4>2 DEF Fills
      <4>3. CASE m.key <= meta'.offlineEdge
        <5>1. CASE meta'.offlineEdge = fe
          <6>1. m.key \in Nat /\ m.key > 0 /\ c.key \in Nat
            BY <1>1 DEF Place
          <6>2. fe # 0
            BY <4>3, <5>1, <6>1
          <6>3. m.key <= c.key
            BY <4>3, <5>1, <6>1, <6>2
          <6>4. ~Before(c, m)
            BY <6>1, <6>2, <6>3 DEF Before
          <6> QED BY <6>4
        <5>2. ASSUME NEW l \in p.members, ~l.online, meta'.offlineEdge = l.key
              PROVE  m \in rows'
          BY <1>1, <1>2, <3>2, <4>3, <5>2 DEF Place
        <5> QED BY <5>1, <5>2
      <4> QED BY <4>1, <4>2, <4>3
    <3> QED BY <3>1, <3>2
  <2> QED BY <2>1 DEF NoGap
<1>4. Reached'
  <2>1. ASSUME p.hasMore
        PROVE  /\ p.nextAfter # FirstPage
               /\ \A m \in R : ~Before(p.nextAfter, m) => m \in rows'
               /\ meta'.offlineEdge = 0
                    \/ (~p.nextAfter.online /\ meta'.offlineEdge <= p.nextAfter.key)
    <3>1. /\ Place(p.nextAfter) /\ p.nextAfter # FirstPage
          /\ \A m \in Past(c, R) : ~Before(p.nextAfter, m) => m \in p.members
          /\ \A m \in p.members : ~m.online => ~p.nextAfter.online /\ m.key <= p.nextAfter.key
          /\ ~c.online => ~p.nextAfter.online /\ c.key <= p.nextAfter.key
      BY <2>1 DEF Fills, Cursor, Place
    <3>2. \A m \in R : ~Before(p.nextAfter, m) => m \in rows'
      BY <1>1, <3>1
    <3>3. CASE meta'.offlineEdge = fe
      <4>1. fe = 0 \/ (~p.nextAfter.online /\ fe <= c.key /\ c.key <= p.nextAfter.key)
        BY <3>1
      <4>2. c.key \in Nat /\ p.nextAfter.key \in Nat
        BY <3>1 DEF Place
      <4>3. fe = 0 \/ (~p.nextAfter.online /\ fe <= p.nextAfter.key)
        BY <4>1, <4>2
      <4> QED BY <3>1, <3>2, <3>3, <4>3
    <3>4. CASE \E l \in p.members : ~l.online /\ meta'.offlineEdge = l.key
      BY <3>1, <3>2, <3>4
    <3> QED BY <3>3, <3>4
  <2> QED BY <2>1 DEF Reached
<1> QED BY <1>3, <1>4

-----------------------------------------------------------------------------
(* The steps.                                                              *)

LEMMA WholeTypes ==
  ASSUME Whole
  PROVE  /\ packets \in Seq(Packets) /\ requests \in Seq(Requests)
         /\ Len(packets) \in Nat /\ Len(requests) \in Nat
         /\ meta \in Metas \cup {None} /\ age \in Nat /\ born = 0
         /\ \A i \in 1..Len(packets) : /\ packets[i] \in Packets /\ TellsTheTruth(packets[i])
                                       /\ packets[i].kind = "page" => packets[i].age \in 0..age
<1>1. packets \in Seq(Packets) /\ requests \in Seq(Requests) /\ age \in Nat /\ meta \in Metas \cup {None} /\ born = 0
  BY DEF Whole, Faithful, Truthful, Typed
<1>2. \A i \in 1..Len(packets) : packets[i] \in Packets /\ TellsTheTruth(packets[i])
  BY <1>1 DEF Whole, Faithful, Truthful, TellsTheTruth
<1>3. ASSUME NEW i \in 1..Len(packets), packets[i].kind = "page"
      PROVE  packets[i].age \in 0..age
  <2>1. packets[i].age \in Nat
    BY <1>2, <1>3, PacketKinds DEF Pages
  <2> QED BY <1>1, <1>2, <1>3, <2>1 DEF TellsTheTruth, Says
<1> QED BY <1>1, <1>2, <1>3

LEMMA PastIs ==
  ASSUME Whole, NEW a \in 0..age
  PROVE  past[a] \in SUBSET Row /\ IsFiniteSet(past[a]) /\ Distinct(past[a])
<1>1. age \in 0..MaxAge /\ MaxAge \in Nat /\ past \in [0..MaxAge -> SUBSET Row]
  BY RosterAssumption DEF Whole, Faithful, Truthful, Typed
<1>2. a \in 0..MaxAge
  BY <1>1
<1> QED BY <1>1, <1>2 DEF Whole, Stored

LEMMA PagesStayed ==
  ASSUME Whole, \A a \in 0..age : past'[a] = past[a]
  PROVE  PagesStay
BY WholeTypes DEF PagesStay

LEMMA StoredChanges ==
  ASSUME Whole, NEW u, NEW now \in SUBSET Row, Changes(u, now), age' \in 0..MaxAge, past \in [0..MaxAge -> SUBSET Row],
         now = {} \/ \E r : now = {r} /\ r.uid = u
  PROVE  Stored' /\ \A a \in 0..age : past'[a] = past[a]
<1> DEFINE stay == {m \in Roster : m.uid # u}
<1>1. age \in Nat /\ age' = age + 1 /\ past' = [past EXCEPT ![age + 1] = stay \cup now]
  BY WholeTypes DEF Changes
<1>2. past'[age + 1] = stay \cup now /\ \A a \in 0..age : past'[a] = past[a]
  BY <1>1
<1>3. Roster = past[age] /\ IsFiniteSet(Roster) /\ Distinct(Roster)
  BY <1>1 DEF Whole, Stored, Roster
<1>4. IsFiniteSet(stay) /\ IsFiniteSet(now)
  <2>1. stay \subseteq Roster
    OBVIOUS
  <2> HIDE DEF stay
  <2> QED BY <1>3, <2>1, FS_Subset, FS_EmptySet, FS_Singleton
<1>5. IsFiniteSet(stay \cup now)
  <2> HIDE DEF stay
  <2> QED BY <1>4, FS_Union
<1>6. Distinct(stay \cup now)
  BY <1>3 DEF Distinct
<1>7. \A a \in 0..age' : a \in 0..age \/ a = age + 1
  BY <1>1
<1>8. \A a \in 0..age' : IsFiniteSet(past'[a]) /\ Distinct(past'[a])
  <2> HIDE DEF stay
  <2> QED BY <1>2, <1>5, <1>6, <1>7 DEF Whole, Stored
<1> QED BY <1>2, <1>8 DEF Stored

LEMMA EmitWhole ==
  ASSUME Whole, Faithful', NEW u, NEW now \in SUBSET Row, Changes(u, now), NEW p,
         now = {} \/ \E r : now = {r} /\ r.uid = u,
         p.kind \in {"upsert", "remove"}, Broadcast(p), UNCHANGED <<up, requests, meta, rows, rejected>>
  PROVE  Whole'
<1>1. age' \in 0..MaxAge /\ past \in [0..MaxAge -> SUBSET Row]
  BY DEF Whole, Faithful, Truthful, Typed
<1>2. Stored' /\ \A a \in 0..age : past'[a] = past[a]
  BY <1>1, StoredChanges
<1>3. packets \in Seq(Packets) /\ (packets' = packets \/ packets' = Append(packets, p))
  BY WholeTypes DEF Broadcast
<1>4. Len(packets') \in Nat /\ \A i \in 1..Len(packets') : packets'[i] = p \/ (i \in 1..Len(packets) /\ packets'[i] = packets[i])
  <2>1. CASE packets' = packets
    BY <1>3, <2>1
  <2>2. CASE packets' = Append(packets, p)
    BY <1>3, <2>2
  <2> QED BY <1>3, <2>1, <2>2
<1>5. SameOrder(0, 0)
  BY <1>4, WholeTypes DEF SameOrder
<1>6. OneEnd' /\ (Loads => Loads') /\ (Waits => Waits') /\ PagesStay
  BY <1>2, PagesStayed DEF Whole, Ordered, OneEnd, Loads, Waits
<1>7. Ordered'
  BY <1>4, <1>5, <1>6, WholeTypes, OrderKept DEF Whole
<1>8. Reached' /\ NoGap'
  BY <1>2, StretchSame
<1> QED BY <1>2, <1>7, <1>8 DEF Whole

LEMMA ServeWhole ==
  ASSUME Whole, Faithful', ServeList
  PROVE  Whole'
<1>1. /\ up /\ requests # <<>> /\ requests' = Tail(requests)
      /\ UNCHANGED <<past, age, up, meta, rows, rejected>>
  BY DEF ServeList, server
<1>2. Stored' /\ Reached' /\ NoGap' /\ PagesStay
  <2>1. \A a \in 0..age : past'[a] = past[a]
    BY <1>1
  <2>2. Stored'
    BY <1>1 DEF Whole, Stored
  <2>3. Reached' /\ NoGap'
    BY <1>1, <2>1, StretchSame
  <2> QED BY <2>1, <2>2, <2>3, PagesStayed
<1>3. CASE Head(requests).kind = "page"
  BY <1>2, <1>3, PageServed DEF Whole
<1>4. CASE Head(requests).kind # "page"
  <2> DEFINE p == Found(Head(requests).uid, Roster)
  <2>1. packets' = Append(packets, p) /\ p.kind = "found"
    BY <1>4 DEF ServeList, Found
  <2> HIDE DEF p
  <2>2. /\ Len(packets') \in Nat
        /\ \A i \in 1..Len(packets') : packets'[i] = p \/ (i \in 1..Len(packets) /\ packets'[i] = packets[i])
    BY <2>1, WholeTypes
  <2>3. Len(requests') \in Nat /\ \A k \in 1..Len(requests') : k + 1 \in 1..Len(requests) /\ requests'[k] = requests[k + 1]
    BY <1>1, WholeTypes
  <2>4. SameOrder(0, 1)
    BY <2>1, <2>2, <2>3, WholeTypes DEF SameOrder
  <2>5. OneEnd' /\ (Loads => Loads') /\ (Waits => Waits')
    BY <1>1 DEF Whole, Ordered, OneEnd, Loads, Waits
  <2>6. Ordered'
    BY <1>1, <1>2, <2>2, <2>3, <2>4, <2>5, WholeTypes, OrderKept DEF Whole
  <2> QED BY <1>2, <2>6 DEF Whole
<1> QED BY <1>3, <1>4

LEMMA LoseWhole ==
  ASSUME Whole, Faithful', Lose
  PROVE  Whole'
<1>1. /\ ~up' /\ requests' = <<>> /\ up
      /\ UNCHANGED <<past, age, meta, rows, rejected>>
  BY DEF Lose, server
<1>2. PICK n \in 0..Len(packets) : packets' = SubSeq(packets, 1, n)
  BY DEF Lose
<1>3. Len(packets') = n /\ \A i \in 1..n : packets'[i] = packets[i]
  BY <1>2, WholeTypes
<1>4. \A a \in 0..age : past'[a] = past[a]
  BY <1>1
<1>5. SameOrder(0, 0) /\ Len(packets') \in Nat /\ Len(requests') \in Nat
  BY <1>1, <1>2, <1>3, WholeTypes DEF SameOrder
<1>6. OneEnd' /\ (Loads => Loads') /\ (Waits => Waits') /\ PagesStay
  BY <1>1, <1>4, PagesStayed DEF OneEnd, Loads, Waits
<1>7. Ordered'
  BY <1>1, <1>5, <1>6, WholeTypes, OrderKept DEF Whole
<1>8. Reached' /\ NoGap'
  BY <1>1, <1>4, StretchSame
<1>9. Stored'
  BY <1>1 DEF Whole, Stored
<1> QED BY <1>7, <1>8, <1>9 DEF Whole

LEMMA ConnectWhole ==
  ASSUME Whole, Faithful', Connect, packets = <<>>, rejected = {}
  PROVE  Whole'
<1> DEFINE p == [kind |-> "auth"]
<1>1. /\ packets' = Append(packets, p) /\ ~up /\ up' /\ UNCHANGED <<past, age, requests, meta, rows, rejected>>
  BY DEF Connect, server
<1>2. requests = <<>>
  BY <1>1 DEF Whole, Ordered, OneEnd
<1>3. p.kind = "auth"
  OBVIOUS
<1> HIDE DEF p
<1>4. Len(packets') = 1 /\ packets'[1] = p /\ Len(requests') = 0
  BY <1>1, <1>2
<1>5. Ordered'
  <2>1. \A i \in 1..Len(packets') : i = 1 /\ ~FirstCame(packets'[i]) /\ ~MoreCame(packets'[i])
    BY <1>3, <1>4 DEF FirstCame, MoreCame
  <2>2. \A k \in 1..Len(requests') : FALSE
    BY <1>4
  <2>3. MorePagesFit' /\ FirstPagesFit'
    BY <2>1, <2>2 DEF MorePagesFit, FirstPagesFit
  <2>4. AuthFirst' /\ OneEnd'
    BY <1>1, <2>1, <2>2 DEF AuthFirst, NoFirst, OneEnd
  <2> QED BY <2>3, <2>4 DEF Ordered
<1>6. \A a \in 0..age : past'[a] = past[a]
  BY <1>1
<1>7. Reached' /\ NoGap'
  BY <1>1, <1>6, StretchSame
<1>8. Stored'
  BY <1>1 DEF Whole, Stored
<1> QED BY <1>5, <1>7, <1>8 DEF Whole

LEMMA TailFacts ==
  ASSUME Whole, packets # <<>>, packets' = Tail(packets)
  PROVE  /\ Len(packets') \in Nat /\ Head(packets) = packets[1] /\ 1 \in 1..Len(packets)
         /\ \A i \in 1..Len(packets') : i + 1 \in 1..Len(packets) /\ packets'[i] = packets[i + 1]
                                        /\ i + 1 # 1 /\ packets'[i].kind # "auth"
         /\ requests' = requests => SameOrder(1, 0)
<1>1. /\ Len(packets') \in Nat /\ Head(packets) = packets[1] /\ 1 \in 1..Len(packets)
      /\ \A i \in 1..Len(packets') : i + 1 \in 1..Len(packets) /\ packets'[i] = packets[i + 1] /\ i + 1 # 1
  BY WholeTypes
<1>2. \A i \in 1..Len(packets') : packets'[i].kind # "auth"
  BY <1>1 DEF Whole, Ordered, AuthFirst
<1>3. requests' = requests => SameOrder(1, 0)
  BY <1>1, WholeTypes DEF SameOrder
<1> QED BY <1>1, <1>2, <1>3

LEMMA TailOrder ==
  ASSUME Whole, packets # <<>>, packets' = Tail(packets), UNCHANGED <<past, age, up, requests, rejected>>,
         NoMore' \/ (Loads => Loads' /\ meta'.nextAfter = meta.nextAfter),
         NoFirst' \/ (Waits => Waits')
  PROVE  Ordered' /\ Stored'
<1>1. OneEnd' /\ PagesStay
  <2>1. \A a \in 0..age : past'[a] = past[a]
    OBVIOUS
  <2> QED BY <2>1, PagesStayed DEF Whole, Ordered, OneEnd
<1>2. Ordered'
  BY <1>1, TailFacts, WholeTypes, OrderKept DEF Whole
<1>3. Stored'
  BY DEF Whole, Stored
<1> QED BY <1>2, <1>3

\* The renderer takes a packet, and asks for a first page.
LEMMA RefetchWhole ==
  ASSUME Whole, Faithful', packets # <<>>, packets' = Tail(packets), NoFirst, AskPage(FirstPage),
         meta' = IF meta = None THEN None ELSE [meta EXCEPT !.refetching = TRUE],
         UNCHANGED <<past, age, up, rows>>
  PROVE  Whole'
<1> DEFINE r == [kind |-> "page", after |-> FirstPage]
<1>1. AskedFirst(r) /\ ~AskedMore(r)
  BY DEF AskedFirst, AskedMore
<1>2. IF up THEN requests' = Append(requests, r) /\ rejected' = rejected
            ELSE rejected' = rejected \cup {r} /\ requests' = requests
  BY DEF AskPage, Asks
<1> HIDE DEF r
<1>3. /\ meta' # None => /\ meta # None /\ meta' \in MemberRosterMeta /\ meta'.age = meta.age
                         /\ meta'.onlineComplete = meta.onlineComplete
                         /\ meta'.onlineEdge = meta.onlineEdge /\ meta'.offlineEdge = meta.offlineEdge
                         /\ meta'.hasMore = meta.hasMore /\ meta'.nextAfter = meta.nextAfter
      /\ Waits' /\ (Loads => Loads' /\ meta'.nextAfter = meta.nextAfter)
  <2>1. CASE meta = None
    BY <2>1 DEF Waits, Loads
  <2>2. CASE meta # None
    <3>1. meta \in MemberRosterMeta /\ meta' = [meta EXCEPT !.refetching = TRUE]
      BY <2>2 DEF Whole, Reached
    <3>2. /\ meta' \in MemberRosterMeta
          /\ meta'.age = meta.age /\ meta'.onlineComplete = meta.onlineComplete
          /\ meta'.onlineEdge = meta.onlineEdge /\ meta'.offlineEdge = meta.offlineEdge
          /\ meta'.hasMore = meta.hasMore /\ meta'.nextAfter = meta.nextAfter
          /\ meta'.loadingMore = meta.loadingMore /\ meta'.refetching
      BY <3>1 DEF MemberRosterMeta
    <3>3. meta' # None
      BY <3>2, NoMetaAssumption
    <3> QED BY <2>2, <3>2, <3>3 DEF Waits, Loads
  <2> QED BY <2>1, <2>2
<1>4. \A a \in 0..age : past'[a] = past[a]
  OBVIOUS
<1>5. Reached' /\ NoGap'
  BY <1>3, <1>4, StretchKept
<1>6. Stored' /\ PagesStay
  BY <1>4, PagesStayed DEF Whole, Stored
<1>7. CASE up
  BY <1>1, <1>2, <1>3, <1>5, <1>6, <1>7, FirstAsked, WholeTypes DEF Whole
<1>8. CASE ~up
  <2>1. requests' = requests /\ requests = <<>> /\ rejected' = rejected \cup {r}
    BY <1>2, <1>8 DEF Whole, Ordered, OneEnd
  <2>2. NoFirst'
    <3>1. \A i \in 1..Len(packets') : ~FirstCame(packets'[i])
      BY TailFacts DEF NoFirst
    <3> QED BY <2>1, <3>1 DEF NoFirst
  <2>3. \A q \in rejected' : AskedMore(q) => q \in rejected
    BY <1>1, <2>1
  <2>4. OneEnd'
    BY <1>8, <2>1 DEF OneEnd
  <2>5. Ordered'
    BY <1>3, <1>6, <2>1, <2>2, <2>3, <2>4, TailFacts, WholeTypes, OrderKept DEF Whole
  <2> QED BY <1>5, <1>6, <2>5 DEF Whole
<1> QED BY <1>7, <1>8

\* A first page is the only one on its way, and nothing was asked for after it.
LEMMA FirstApplied ==
  ASSUME Whole, Faithful', packets # <<>>, packets' = Tail(packets), FirstCame(Head(packets)),
         AppliesPage(Head(packets)), UNCHANGED <<past, age, up>>
  PROVE  Whole'
<1> DEFINE p == Head(packets)  R == past[p.age]
           oe == Edge(p.members, TRUE, 0)  fe == Edge(p.members, FALSE, 0)
<1>1. /\ p = packets[1] /\ 1 \in 1..Len(packets) /\ p \in Pages /\ p.kind = "page" /\ p.first
      /\ p.age \in 0..age /\ TellsTheTruth(p)
  BY TailFacts, WholeTypes, PacketKinds DEF FirstCame
<1>2. /\ Fills(p, FirstPage, R)
      /\ \A j \in 1..Len(packets) : FirstCame(packets[j]) => j = 1
      /\ \A k \in 1..Len(requests) : ~AskedFirst(requests[k])
  BY <1>1 DEF Whole, Ordered, FirstPagesFit
<1>3. NoMore
  <2>1. ASSUME NEW i \in 1..Len(packets), MoreCame(packets[i])
        PROVE  FALSE
    <3>1. \A j \in 1..i : ~FirstCame(packets[j])
      BY <2>1 DEF Whole, Ordered, MorePagesFit
    <3>2. 1 \in 1..i
      BY WholeTypes
    <3> QED BY <1>1, <3>1, <3>2
  <2>2. ASSUME NEW k \in 1..Len(requests), AskedMore(requests[k])
        PROVE  FALSE
    BY <1>1, <2>2 DEF Whole, Ordered, MorePagesFit
  <2> QED BY <2>1, <2>2 DEF NoMore
<1>4. requests' = requests /\ rejected' = rejected
  BY DEF AppliesPage
<1>5. NoMore' /\ NoFirst'
  BY <1>2, <1>3, <1>4, TailFacts DEF NoMore, NoFirst
<1>6. Ordered' /\ Stored'
  BY <1>4, <1>5, TailOrder
<1>7. /\ meta' = [revision |-> p.revision, age |-> p.age, onlineComplete |-> p.onlineComplete,
                  onlineEdge |-> oe, offlineEdge |-> fe, hasMore |-> p.hasMore,
                  nextAfter |-> p.nextAfter, loadingMore |-> FALSE, refetching |-> FALSE]
      /\ rows' = p.members \cup p.extra
  BY <1>1 DEF AppliesPage
<1>8. R \in SUBSET Row /\ IsFiniteSet(R) /\ Distinct(R) /\ p.members \subseteq R
  <2>1. R \in SUBSET Row /\ IsFiniteSet(R) /\ Distinct(R)
    BY <1>1, PastIs
  <2> HIDE DEF p, R
  <2>2. p.members \subseteq R
    BY <1>2 DEF Fills, Past
  <2> QED BY <2>1, <2>2
<1>9. p.members \in SUBSET Row /\ IsFiniteSet(p.members) /\ Distinct(p.members)
  <2> HIDE DEF p, R
  <2> QED BY <1>8, FS_Subset DEF Distinct
<1>10. p.revision \in Nat /\ p.age \in Nat /\ p.onlineComplete \in BOOLEAN /\ p.hasMore \in BOOLEAN /\ p.nextAfter \in Cursor
  BY <1>1, <1>2 DEF Pages, Fills
<1> HIDE DEF p, R, oe, fe
<1>11. /\ oe \in Nat /\ (oe = 0 \/ \E l \in p.members : l.online /\ oe = l.key)
       /\ fe \in Nat /\ (fe = 0 \/ \E l \in p.members : ~l.online /\ fe = l.key)
  BY <1>9, EdgesOf DEF oe, fe
<1>12. /\ meta' \in MemberRosterMeta /\ meta'.age = p.age /\ meta'.onlineComplete = p.onlineComplete
       /\ meta'.hasMore = p.hasMore /\ meta'.nextAfter = p.nextAfter
       /\ meta'.onlineEdge = oe /\ meta'.offlineEdge = fe
  BY <1>7, <1>10, <1>11 DEF MemberRosterMeta, Cursor
<1>13. \A m \in R : m \in Row /\ Place(m) /\ m.key > 0 /\ Before(FirstPage, m)
  BY <1>8, RowPlace DEF Before, FirstPage, Place
<1>14. \A m \in R : ~(m.key <= 0)
  BY <1>13 DEF Place
<1>15. Place(FirstPage) /\ past'[meta'.age] = R
  BY <1>12 DEF Place, FirstPage, R
<1>16. Reached' /\ NoGap'
  BY <1>2, <1>7, <1>8, <1>10, <1>11, <1>12, <1>13, <1>14, <1>15, PageApplied
<1> QED BY <1>6, <1>16 DEF Whole

\* A page after the stretch is merged only while no first page is waited for.
LEMMA MoreApplied ==
  ASSUME Whole, Faithful', packets # <<>>, packets' = Tail(packets), MoreCame(Head(packets)), ~Waits,
         Head(packets).revision = meta.revision, AppliesPage(Head(packets)), UNCHANGED <<past, age, up>>
  PROVE  Whole'
<1> DEFINE p == Head(packets)  R == past[p.age]  c == meta.nextAfter
           oe == Edge(p.members, TRUE, meta.onlineEdge)  fe == Edge(p.members, FALSE, meta.offlineEdge)
<1>1. /\ p = packets[1] /\ 1 \in 1..Len(packets) /\ p \in Pages /\ p.kind = "page" /\ ~p.first
      /\ p.age \in 0..age /\ TellsTheTruth(p)
  BY TailFacts, WholeTypes, PacketKinds DEF MoreCame
<1>2. /\ Loads /\ Fills(p, c, R)
      /\ \A j \in 1..Len(packets) : MoreCame(packets[j]) => j = 1
      /\ \A k \in 1..Len(requests) : ~AskedMore(requests[k])
  BY <1>1 DEF Whole, Ordered, MorePagesFit
<1>3. NoFirst
  BY DEF Whole, Ordered, FirstPagesFit, NoFirst
<1>4. requests' = requests /\ rejected' = rejected
  BY DEF AppliesPage
<1>5. NoMore' /\ NoFirst'
  BY <1>2, <1>3, <1>4, TailFacts DEF NoMore, NoFirst
<1>6. Ordered' /\ Stored'
  BY <1>4, <1>5, TailOrder
<1>7. /\ meta' = [revision |-> p.revision, age |-> p.age, onlineComplete |-> p.onlineComplete,
                  onlineEdge |-> oe, offlineEdge |-> fe, hasMore |-> p.hasMore,
                  nextAfter |-> p.nextAfter, loadingMore |-> FALSE, refetching |-> FALSE]
      /\ rows' = {m \in rows : \A n \in p.members \cup p.extra : n.uid # m.uid} \cup (p.members \cup p.extra)
  BY <1>1 DEF AppliesPage, Held
<1>8. R \in SUBSET Row /\ IsFiniteSet(R) /\ Distinct(R) /\ p.members \subseteq R
  <2>1. R \in SUBSET Row /\ IsFiniteSet(R) /\ Distinct(R)
    BY <1>1, PastIs
  <2> HIDE DEF p, R, c
  <2>2. p.members \subseteq R
    BY <1>2 DEF Fills, Past
  <2> QED BY <2>1, <2>2
<1>9. p.members \in SUBSET Row /\ IsFiniteSet(p.members) /\ Distinct(p.members)
  <2> HIDE DEF p, R
  <2> QED BY <1>8, FS_Subset DEF Distinct
<1>10. p.revision \in Nat /\ p.age \in Nat /\ p.onlineComplete \in BOOLEAN /\ p.hasMore \in BOOLEAN /\ p.nextAfter \in Cursor
  BY <1>1, <1>2 DEF Pages, Fills
<1>11. /\ meta \in MemberRosterMeta /\ p.age = meta.age /\ rows \subseteq R /\ p.extra \subseteq R
       /\ meta # None /\ meta.hasMore
       /\ \A m \in R : ~Before(c, m) => m \in rows
       /\ meta.offlineEdge = 0 \/ (~c.online /\ meta.offlineEdge <= c.key)
  <2>1. meta # None /\ meta.hasMore
    BY <1>2 DEF Loads
  <2>2. p.age = meta.age
    BY <1>1, <2>1 DEF Whole, Faithful, TellsTheTruth, Says
  <2>3. rows \subseteq R /\ p.extra \subseteq R
    BY <1>1, <2>1, <2>2 DEF Whole, Faithful, TellsTheTruth, Says
  <2> QED BY <2>1, <2>2, <2>3 DEF Whole, Reached
<1>12. \A m \in R : m.online /\ m.key <= meta.onlineEdge => m \in rows
  BY <1>11 DEF Whole, NoGap, Drawn
<1> HIDE DEF p, R, oe, fe, c
<1>13. rows \subseteq rows' /\ p.members \subseteq rows'
  BY <1>7, <1>8, <1>11 DEF Distinct
<1>14. /\ Place(c) /\ c \in Cursor /\ meta.onlineEdge \in Nat /\ meta.offlineEdge \in Nat
  BY <1>11 DEF c, MemberRosterMeta, Place, Cursor
<1>15. /\ oe \in Nat /\ (oe = meta.onlineEdge \/ \E l \in p.members : l.online /\ oe = l.key)
       /\ fe \in Nat /\ (fe = meta.offlineEdge \/ \E l \in p.members : ~l.online /\ fe = l.key)
  BY <1>9, <1>14, EdgesOf DEF oe, fe
<1>16. /\ meta' \in MemberRosterMeta /\ meta'.age = p.age /\ meta'.onlineComplete = p.onlineComplete
       /\ meta'.hasMore = p.hasMore /\ meta'.nextAfter = p.nextAfter
       /\ meta'.onlineEdge = oe /\ meta'.offlineEdge = fe
  BY <1>7, <1>10, <1>15 DEF MemberRosterMeta, Cursor
<1>17. past'[meta'.age] = R
  BY <1>16 DEF R
<1>18. /\ \A m \in R : ~Before(c, m) => m \in rows'
       /\ \A m \in R : m.online /\ m.key <= meta.onlineEdge => m \in rows'
  BY <1>11, <1>12, <1>13
<1>19. Reached' /\ NoGap'
  BY <1>2, <1>8, <1>10, <1>11, <1>13, <1>14, <1>15, <1>16, <1>17, <1>18, PageApplied
<1> QED BY <1>6, <1>19 DEF Whole

LEMMA DeltaApplied ==
  ASSUME Whole, Faithful', packets # <<>>, packets' = Tail(packets), NEW p, p = Head(packets),
         p.kind \in {"upsert", "remove"}, meta # None, p.revision = meta.revision + 1,
         rows' = IF p.kind = "upsert" THEN Held({p.row}) ELSE {m \in rows : m.uid # p.uid},
         meta' = [meta EXCEPT !.revision = p.revision, !.age = p.age],
         UNCHANGED <<past, age, up, requests, rejected>>
  PROVE  Whole'
<1>1. /\ p = packets[1] /\ 1 \in 1..Len(packets) /\ p \in Packets /\ TellsTheTruth(p)
      /\ p \in Upserts \cup Removes
  BY TailFacts, WholeTypes, PacketKinds
<1>2. meta \in MemberRosterMeta /\ meta.revision = meta.age
  BY DEF Whole, Reached, Faithful
<1>3. /\ p.age \in Nat /\ p.revision \in Nat /\ p.age = p.revision /\ p.age > 0 /\ meta.age \in Nat
      /\ p.age - 1 = meta.age /\ p.age = meta.age + 1
  <2>1. p.age \in Nat /\ p.revision \in Nat
    BY <1>1 DEF Upserts, Removes
  <2>2. p.age = p.revision /\ p.age > 0
    BY <1>1 DEF TellsTheTruth, Says
  <2>3. meta.age \in Nat /\ meta.revision = meta.age
    BY <1>2 DEF MemberRosterMeta
  <2> QED BY <2>1, <2>2, <2>3
<1>4. /\ meta' \in MemberRosterMeta /\ meta'.age = p.age
      /\ meta'.onlineComplete = meta.onlineComplete
      /\ meta'.onlineEdge = meta.onlineEdge /\ meta'.offlineEdge = meta.offlineEdge
      /\ meta'.hasMore = meta.hasMore /\ meta'.nextAfter = meta.nextAfter
      /\ meta'.loadingMore = meta.loadingMore /\ meta'.refetching = meta.refetching
  BY <1>2, <1>3 DEF MemberRosterMeta
<1>5. meta' # None
  BY <1>4, NoMetaAssumption
\* Whoever is in the roster now is held, or was in it before.
<1>6. ASSUME NEW m \in past[p.age]
      PROVE  m \in rows' \/ (m \in past[meta.age] /\ (m \in rows => m \in rows'))
  <2>1. CASE p.kind = "upsert"
    <3>1. past[p.age] = {n \in past[meta.age] : n.uid # p.row.uid} \cup {p.row}
      BY <1>1, <1>3, <2>1 DEF TellsTheTruth, Says
    <3>2. rows' = {n \in rows : \A k \in {p.row} : k.uid # n.uid} \cup {p.row}
      BY <2>1 DEF Held
    <3> QED BY <3>1, <3>2
  <2>2. CASE p.kind = "remove"
    <3>1. past[p.age] = {n \in past[meta.age] : n.uid # p.uid}
      BY <1>1, <1>3, <2>2 DEF TellsTheTruth, Says
    <3>2. rows' = {n \in rows : n.uid # p.uid}
      BY <2>2
    <3> QED BY <3>1, <3>2
  <2> QED BY <2>1, <2>2
<1>7. past'[meta'.age] = past[p.age]
  BY <1>4
<1>8. NoGap'
  <2>1. \A m : Drawn(m)' => Drawn(m)
    BY <1>4 DEF Drawn
  <2> QED BY <1>6, <1>7, <2>1 DEF Whole, NoGap
<1>9. Reached'
  BY <1>4, <1>6, <1>7 DEF Whole, Reached
<1>10. Ordered' /\ Stored'
  <2>1. (Loads => Loads' /\ meta'.nextAfter = meta.nextAfter) /\ (Waits => Waits')
    BY <1>4, <1>5 DEF Loads, Waits
  <2> QED BY <2>1, TailOrder
<1> QED BY <1>8, <1>9, <1>10 DEF Whole

\* A packet that leaves the list alone, or adds rows that are in the roster.
LEMMA TailWhole ==
  ASSUME Whole, Faithful', packets # <<>>, packets' = Tail(packets), rows \subseteq rows',
         UNCHANGED <<past, age, up, meta, requests, rejected>>
  PROVE  Whole'
<1>1. \A a \in 0..age : past'[a] = past[a]
  OBVIOUS
<1>2. Reached' /\ NoGap'
  BY <1>1, StretchSame
<1>3. Ordered' /\ Stored'
  <2>1. (Loads => Loads' /\ meta'.nextAfter = meta.nextAfter) /\ (Waits => Waits')
    BY DEF Loads, Waits
  <2> QED BY <2>1, TailOrder
<1> QED BY <1>2, <1>3 DEF Whole

LEMMA ReceiveWhole ==
  ASSUME Whole, Faithful', Receive
  PROVE  Whole'
<1> DEFINE p == Head(packets)
<1>1. /\ packets # <<>> /\ packets' = Tail(packets) /\ UNCHANGED <<past, age, up>>
      /\ OnAuth(p) \/ OnPage(p) \/ OnFound(p) \/ OnDelta(p)
  BY DEF Receive, server
<1>2. p = packets[1] /\ 1 \in 1..Len(packets) /\ p \in Packets /\ TellsTheTruth(p)
  BY <1>1, TailFacts, WholeTypes
<1>3. ~Waits => NoFirst
  BY DEF Whole, Ordered, FirstPagesFit, NoFirst
<1>4. ASSUME ~Waits, RefetchRoster(FALSE), UNCHANGED rows
      PROVE  Whole'
  <2>1. /\ AskPage(FirstPage)
        /\ meta' = IF meta = None THEN None ELSE [meta EXCEPT !.refetching = TRUE]
    BY <1>4 DEF RefetchRoster, Waits
  <2> QED BY <1>1, <1>3, <1>4, <2>1, RefetchWhole
<1> HIDE DEF p
<1>5. ASSUME OnAuth(p)
      PROVE  Whole'
  <2>1. /\ p.kind = "auth" /\ AskPage(FirstPage) /\ UNCHANGED rows
        /\ meta' = IF meta = None THEN None ELSE [meta EXCEPT !.refetching = TRUE]
    BY <1>5 DEF OnAuth, RefetchRoster
  <2>2. NoFirst
    BY <1>2, <2>1 DEF Whole, Ordered, AuthFirst
  <2> QED BY <1>1, <2>1, <2>2, RefetchWhole
<1>6. ASSUME OnPage(p)
      PROVE  Whole'
  <2>1. p \in Pages /\ p.kind = "page" /\ p.first \in BOOLEAN
    BY <1>2, <1>6, PacketKinds DEF OnPage, Pages
  <2>2. CASE ~p.first /\ Waits
    <3>1. UNCHANGED <<meta, rows, asked, requests, rejected>>
      BY <1>6, <2>2 DEF OnPage, Waits
    <3> QED BY <1>1, <3>1, TailWhole
  <2>3. CASE ~p.first /\ ~Waits /\ p.revision # meta.revision
    <3>1. RefetchRoster(FALSE) /\ UNCHANGED rows
      BY <1>6, <2>3 DEF OnPage, Waits
    <3> QED BY <1>4, <2>3, <3>1
  <2>4. CASE ~p.first /\ ~Waits /\ p.revision = meta.revision
    <3>1. AppliesPage(p) /\ MoreCame(p)
      BY <1>6, <2>1, <2>4 DEF OnPage, Waits, MoreCame
    <3> QED BY <1>1, <2>4, <3>1, MoreApplied DEF p
  <2>5. CASE p.first
    <3>1. AppliesPage(p) /\ FirstCame(p)
      BY <1>6, <2>1, <2>5 DEF OnPage, FirstCame
    <3> QED BY <1>1, <3>1, FirstApplied DEF p
  <2> QED BY <2>1, <2>2, <2>3, <2>4, <2>5
<1>7. ASSUME OnFound(p)
      PROVE  Whole'
  <2>1. p \in Founds /\ p.kind = "found" /\ p.revision = p.age /\ p.extra \subseteq past[p.age]
    BY <1>2, <1>7, PacketKinds DEF OnFound, TellsTheTruth, Says
  <2>2. rows \subseteq rows'
    <3>1. CASE meta = None \/ meta.refetching \/ p.revision # meta.revision
      BY <1>7, <3>1 DEF OnFound
    <3>2. CASE ~(meta = None \/ meta.refetching \/ p.revision # meta.revision)
      <4>1. rows' = Held(p.extra)
        BY <1>7, <3>2 DEF OnFound
      <4>2. meta.age \in 0..age /\ p.age = meta.age /\ rows \subseteq past[meta.age]
        BY <2>1, <3>2, WholeTypes DEF Whole, Faithful, Truthful, Metas
      <4>3. Distinct(past[meta.age])
        BY <4>2, PastIs
      <4> QED BY <2>1, <4>1, <4>2, <4>3 DEF Held, Distinct
    <3> QED BY <3>1, <3>2
  <2>3. UNCHANGED <<meta, requests, rejected>>
    BY <1>7 DEF OnFound
  <2> QED BY <1>1, <2>2, <2>3, TailWhole
<1>8. ASSUME OnDelta(p)
      PROVE  Whole'
  <2>1. CASE Waits
    <3>1. UNCHANGED <<meta, rows, requests, rejected>>
      BY <1>8, <2>1 DEF OnDelta, Waits
    <3> QED BY <1>1, <3>1, TailWhole
  <2>2. CASE ~Waits /\ p.revision # meta.revision + 1
    <3>1. RefetchRoster(FALSE) /\ UNCHANGED rows
      BY <1>8, <2>2 DEF OnDelta, Waits
    <3> QED BY <1>4, <2>2, <3>1
  <2>3. CASE ~Waits /\ p.revision = meta.revision + 1
    <3>1. /\ p.kind \in {"upsert", "remove"}
          /\ rows' = IF p.kind = "upsert" THEN Held({p.row}) ELSE {m \in rows : m.uid # p.uid}
          /\ meta' = [meta EXCEPT !.revision = p.revision, !.age = p.age]
          /\ UNCHANGED <<requests, rejected>>
      BY <1>8, <2>3 DEF OnDelta, Waits
    <3>2. meta # None /\ p = Head(packets)
      BY <2>3 DEF Waits, p
    <3> QED BY <1>1, <2>3, <3>1, <3>2, DeltaApplied
  <2> QED BY <2>1, <2>2, <2>3
<1> QED BY <1>1, <1>5, <1>6, <1>7, <1>8

LEMMA OnRejectedWhole ==
  ASSUME Whole, Faithful', NEW q \in rejected, OnRejected(q)
  PROVE  Whole'
<1>1. /\ rejected' \subseteq rejected /\ UNCHANGED <<past, age, up, requests, packets, rows>>
      /\ meta' = IF meta = None \/ q.kind # "page" THEN meta
                 ELSE IF q.after = FirstPage THEN [meta EXCEPT !.refetching = FALSE]
                 ELSE [meta EXCEPT !.loadingMore = FALSE]
  BY DEF OnRejected, server
<1>2. ~up /\ requests = <<>>
  BY DEF Whole, Ordered, OneEnd
<1>3. \A i \in 1..Len(packets) : FirstCame(packets[i]) => ~AskedFirst(q)
  BY DEF Whole, Ordered, FirstPagesFit
<1>4. \A i \in 1..Len(packets) : MoreCame(packets[i]) => ~AskedMore(q)
  BY DEF Whole, Ordered, MorePagesFit
<1>5. /\ meta' # None => /\ meta # None /\ meta' \in MemberRosterMeta /\ meta'.age = meta.age
                         /\ meta'.onlineComplete = meta.onlineComplete
                         /\ meta'.onlineEdge = meta.onlineEdge /\ meta'.offlineEdge = meta.offlineEdge
                         /\ meta'.hasMore = meta.hasMore /\ meta'.nextAfter = meta.nextAfter
      /\ NoMore' \/ (Loads => Loads' /\ meta'.nextAfter = meta.nextAfter)
      /\ NoFirst' \/ (Waits => Waits')
  <2>1. CASE meta = None \/ q.kind # "page"
    <3>1. meta' = meta
      BY <1>1, <2>1
    <3> QED BY <3>1 DEF Whole, Reached, Waits, Loads
  <2>2. CASE meta # None /\ AskedFirst(q)
    <3>1. meta \in MemberRosterMeta /\ meta' = [meta EXCEPT !.refetching = FALSE]
      BY <1>1, <2>2 DEF Whole, Reached, AskedFirst
    <3>2. /\ meta' \in MemberRosterMeta
          /\ meta'.age = meta.age /\ meta'.onlineComplete = meta.onlineComplete
          /\ meta'.onlineEdge = meta.onlineEdge /\ meta'.offlineEdge = meta.offlineEdge
          /\ meta'.hasMore = meta.hasMore /\ meta'.nextAfter = meta.nextAfter
          /\ meta'.loadingMore = meta.loadingMore
      BY <3>1 DEF MemberRosterMeta
    <3>3. meta' # None
      BY <3>2, NoMetaAssumption
    <3>4. NoFirst'
      BY <1>1, <1>2, <1>3, <2>2 DEF NoFirst
    <3> QED BY <2>2, <3>2, <3>3, <3>4 DEF Loads
  <2>3. CASE meta # None /\ AskedMore(q)
    <3>1. meta \in MemberRosterMeta /\ meta' = [meta EXCEPT !.loadingMore = FALSE]
      BY <1>1, <2>3 DEF Whole, Reached, AskedMore
    <3>2. /\ meta' \in MemberRosterMeta
          /\ meta'.age = meta.age /\ meta'.onlineComplete = meta.onlineComplete
          /\ meta'.onlineEdge = meta.onlineEdge /\ meta'.offlineEdge = meta.offlineEdge
          /\ meta'.hasMore = meta.hasMore /\ meta'.nextAfter = meta.nextAfter
          /\ meta'.refetching = meta.refetching
      BY <3>1 DEF MemberRosterMeta
    <3>3. meta' # None
      BY <3>2, NoMetaAssumption
    <3>4. NoMore'
      BY <1>1, <1>2, <1>4, <2>3 DEF NoMore
    <3> QED BY <2>3, <3>2, <3>3, <3>4 DEF Waits
  <2> QED BY <2>1, <2>2, <2>3 DEF AskedFirst, AskedMore
<1>6. \A a \in 0..age : past'[a] = past[a]
  BY <1>1
<1>7. Reached' /\ NoGap'
  BY <1>1, <1>5, <1>6, StretchKept
<1>8. SameOrder(0, 0) /\ OneEnd' /\ PagesStay /\ Stored'
  BY <1>1, <1>2, <1>6, WholeTypes, PagesStayed DEF SameOrder, OneEnd, Whole, Stored
<1>9. Ordered'
  BY <1>1, <1>5, <1>8, WholeTypes, OrderKept DEF Whole
<1> QED BY <1>7, <1>8, <1>9 DEF Whole

LEMMA LoadMoreWhole ==
  ASSUME Whole, Faithful', LoadMore
  PROVE  Whole'
<1> DEFINE r == [kind |-> "page", after |-> meta.nextAfter]
<1>1. /\ meta # None /\ meta.hasMore /\ ~meta.loadingMore /\ ~meta.refetching
      /\ meta' = [meta EXCEPT !.loadingMore = TRUE] /\ UNCHANGED <<past, age, up, packets, rows>>
      /\ IF up THEN requests' = Append(requests, r) /\ rejected' = rejected
               ELSE rejected' = rejected \cup {r} /\ requests' = requests
  BY DEF LoadMore, AskPage, Asks, server
<1>2. meta \in MemberRosterMeta /\ meta.nextAfter # FirstPage
  BY <1>1 DEF Whole, Reached
<1>3. AskedMore(r) /\ ~AskedFirst(r) /\ r.after = meta.nextAfter
  BY <1>2 DEF AskedMore, AskedFirst
<1> HIDE DEF r
<1>4. /\ meta' \in MemberRosterMeta
      /\ meta'.age = meta.age /\ meta'.onlineComplete = meta.onlineComplete
      /\ meta'.onlineEdge = meta.onlineEdge /\ meta'.offlineEdge = meta.offlineEdge
      /\ meta'.hasMore = meta.hasMore /\ meta'.nextAfter = meta.nextAfter
      /\ meta'.loadingMore /\ meta'.refetching = meta.refetching
  BY <1>1, <1>2 DEF MemberRosterMeta
<1>5. Loads' /\ ~Waits /\ ~Loads
  BY <1>1, <1>4, NoMetaAssumption DEF Loads, Waits
<1>6. NoFirst /\ NoMore
  BY <1>5 DEF Whole, Ordered, FirstPagesFit, MorePagesFit, NoFirst, NoMore
<1>7. \A a \in 0..age : past'[a] = past[a]
  BY <1>1
<1>8. Reached' /\ NoGap'
  BY <1>1, <1>4, <1>7, StretchKept
<1>9. Stored' /\ PagesStay
  BY <1>1, <1>7, PagesStayed DEF Whole, Stored
<1>10. CASE up
  BY <1>1, <1>3, <1>4, <1>5, <1>6, <1>8, <1>9, <1>10, MoreAsked, WholeTypes DEF Whole
<1>11. CASE ~up
  <2>1. requests' = requests /\ requests = <<>> /\ rejected' = rejected \cup {r}
    BY <1>1, <1>11 DEF Whole, Ordered, OneEnd
  <2>2. NoMore'
    BY <1>1, <1>6, <2>1 DEF NoMore
  <2>3. \A n \in rejected' : AskedFirst(n) => n \in rejected
    BY <1>3, <2>1
  <2>4. OneEnd' /\ SameOrder(0, 0)
    BY <1>1, <1>11, <2>1, WholeTypes DEF OneEnd, SameOrder
  <2>5. Ordered'
    BY <1>1, <1>5, <1>9, <2>1, <2>2, <2>3, <2>4, WholeTypes, OrderKept DEF Whole
  <2> QED BY <1>8, <1>9, <2>5 DEF Whole
<1> QED BY <1>10, <1>11

LEMMA RequestMemberWhole ==
  ASSUME Whole, Faithful', NEW u, RequestMember(u)
  PROVE  Whole'
<1> DEFINE r == [kind |-> "lookup", uid |-> u]
<1>1. /\ UNCHANGED <<past, age, up, packets, meta, rows>>
      /\ IF up THEN requests' = Append(requests, r) /\ rejected' = rejected
               ELSE rejected' = rejected \cup {r} /\ requests' = requests
  BY DEF RequestMember, Asks, server
<1>2. r.kind = "lookup" /\ ~AskedMore(r) /\ ~AskedFirst(r)
  BY DEF AskedMore, AskedFirst
<1> HIDE DEF r
<1>3. Len(requests') \in Nat /\ \A k \in 1..Len(requests') : requests'[k] = r \/ (k \in 1..Len(requests) /\ requests'[k] = requests[k])
  <2>1. CASE up
    BY <1>1, <2>1, WholeTypes
  <2>2. CASE ~up
    BY <1>1, <2>2, WholeTypes
  <2> QED BY <2>1, <2>2
<1>4. SameOrder(0, 0)
  BY <1>1, <1>2, <1>3, WholeTypes DEF SameOrder
<1>5. \A n \in rejected' : AskedMore(n) \/ AskedFirst(n) => n \in rejected
  BY <1>1, <1>2
<1>6. \A a \in 0..age : past'[a] = past[a]
  BY <1>1
<1>7. OneEnd' /\ (Loads => Loads') /\ (Waits => Waits') /\ PagesStay /\ Stored' /\ Reached' /\ NoGap'
  BY <1>1, <1>6, PagesStayed, StretchSame DEF Whole, Ordered, OneEnd, Loads, Waits, Stored
<1>8. Ordered'
  BY <1>1, <1>3, <1>4, <1>5, <1>7, WholeTypes, OrderKept DEF Whole
<1> QED BY <1>7, <1>8 DEF Whole

LEMMA InitWhole ==
  ASSUME Init
  PROVE  Whole
<1>1. packets = <<>> /\ requests = <<>> /\ rejected = {} /\ meta = None /\ age = 0
  BY DEF Init
<1>2. Len(packets) = 0 /\ Len(requests) = 0
  BY <1>1
<1>3. Ordered
  BY <1>1, <1>2 DEF Ordered, MorePagesFit, FirstPagesFit, AuthFirst, OneEnd
<1>4. Stored
  <2>1. PICK R \in Rosters : past = [a \in 0..MaxAge |-> IF a = 0 THEN R ELSE {}]
    BY DEF Init
  <2>2. past[0] = R
    BY <2>1, RosterAssumption
  <2>3. \A a \in 0..age : a = 0
    BY <1>1
  <2> QED BY <2>2, <2>3, RostersAssumption DEF Stored, Distinct
<1> QED BY <1>1, <1>3, <1>4, InitTrue DEF Whole, Reached, NoGap

\* The renderer has heard all of the connection before, when the next one is up.
Settled == Connect => packets = <<>> /\ rejected = {}

LEMMA NextWhole ==
  ASSUME MaxRestarts = 0, Whole, [Next]_vars, Settled
  PROVE  Whole'
<1>1. Faithful'
  BY NextFaithful DEF Whole
<1>2. CASE Emit
  <2>1. ASSUME NEW u \in Uids, NEW k \in KeysOf[u], NEW o \in BOOLEAN,
               EmitMemberUpsert([uid |-> u, key |-> k, online |-> o])
        PROVE  Whole'
    <3> DEFINE r == [uid |-> u, key |-> k, online |-> o]
               p == [kind |-> "upsert", row |-> r, age |-> age + 1, revision |-> revision + 1]
    <3>1. r \in Row
      BY DEF Row
    <3>2. Changes(r.uid, {r}) /\ Broadcast(p) /\ UNCHANGED <<up, requests, meta, rows, rejected>>
      BY <2>1 DEF EmitMemberUpsert
    <3>3. p.kind \in {"upsert", "remove"}
      OBVIOUS
    <3> HIDE DEF p, r
    <3>4. {r} \in SUBSET Row
      BY <3>1
    <3> QED BY <1>1, <3>2, <3>3, <3>4, EmitWhole
  <2>2. ASSUME NEW u \in Uids, EmitMemberRemove(u)
        PROVE  Whole'
    <3> DEFINE p == [kind |-> "remove", uid |-> u, age |-> age + 1, revision |-> revision + 1]
    <3>1. Changes(u, {}) /\ Broadcast(p) /\ UNCHANGED <<up, requests, meta, rows, rejected>>
      BY <2>2 DEF EmitMemberRemove
    <3>2. p.kind \in {"upsert", "remove"}
      OBVIOUS
    <3> HIDE DEF p
    <3>3. {} \in SUBSET Row
      OBVIOUS
    <3> QED BY <1>1, <3>1, <3>2, <3>3, EmitWhole
  <2> QED BY <1>2, <2>1, <2>2 DEF Emit
<1>3. CASE Views
  BY <1>1, <1>3, LoadMoreWhole, RequestMemberWhole DEF Views
<1>4. CASE Lose
  BY <1>1, <1>4, LoseWhole
<1>5. CASE Restart
  <2>1. restarts < MaxRestarts /\ restarts = 0
    BY <1>5 DEF Restart, Whole, Faithful
  <2> QED BY <2>1
<1>6. CASE Progress
  <2>1. CASE ServeList
    BY <1>1, <2>1, ServeWhole
  <2>2. CASE Connect
    BY <1>1, <2>2, ConnectWhole DEF Settled
  <2>3. CASE Receive
    BY <1>1, <2>3, ReceiveWhole
  <2>4. CASE \E q \in rejected : OnRejected(q)
    BY <1>1, <2>4, OnRejectedWhole
  <2> QED BY <1>6, <2>1, <2>2, <2>3, <2>4 DEF Progress
<1>7. CASE UNCHANGED vars
  <2>1. UNCHANGED <<past, age, up, requests, packets, meta, rows, rejected>>
    BY <1>7 DEF vars
  <2>2. Ordered'
    <3>1. MorePagesFit'
      BY <2>1 DEF Whole, Ordered, MorePagesFit, Loads
    <3>2. FirstPagesFit'
      BY <2>1 DEF Whole, Ordered, FirstPagesFit, Waits
    <3>3. AuthFirst' /\ OneEnd'
      BY <2>1 DEF Whole, Ordered, AuthFirst, NoFirst, OneEnd
    <3> QED BY <3>1, <3>2, <3>3 DEF Ordered
  <2>3. Stored' /\ Reached' /\ NoGap'
    BY <2>1, StretchSame DEF Whole, Stored
  <2> QED BY <1>1, <2>2, <2>3 DEF Whole
<1> QED BY <1>2, <1>3, <1>4, <1>5, <1>6, <1>7 DEF Next

(* "So the list never shows a gap" (visibleRoster): whoever stands in the  *)
(* loaded stretch is held, whatever joins, leaves or moves while pages are *)
(* on their way and however many connections are lost, if the renderer has *)
(* handled the events of one connection before the next is authenticated   *)
(* (start_reconnect waits backoff_duration(attempt) before it connects).   *)
THEOREM StretchHasNoGap ==
  ASSUME MaxRestarts = 0
  PROVE  Spec /\ [][Settled]_vars => []NoGap
<1>1. Init => Whole
  BY InitWhole
<1>2. Whole /\ [Next]_vars /\ [Settled]_vars => Whole'
  <2> SUFFICES ASSUME Whole, [Next]_vars, [Settled]_vars PROVE Whole'
    OBVIOUS
  <2>1. UNCHANGED vars => up' = up
    BY DEF vars
  <2>2. Settled
    BY <2>1 DEF Settled, Connect
  <2> QED BY <2>2, NextWhole
<1>3. Whole => NoGap
  BY DEF Whole
<1> QED
  BY <1>1, <1>2, <1>3, PTL DEF Spec

-----------------------------------------------------------------------------
(* Lookups.  What a connection has sent since its authentication is a      *)
(* chain: each packet continues the one before, the last is of the roster  *)
(* as it is, and the client, unless it waits for a first page, continues   *)
(* with the next.  So no answer is dropped for another revision, and one   *)
(* that is applied is of the roster as of the last change applied.         *)

Live(i) == \A j \in i..Len(packets) : packets[j].kind # "auth"

Continues(a, p) == p.age = IF p.kind \in {"upsert", "remove"} THEN a + 1 ELSE a

Current == meta # None /\ ~meta.refetching /\ Live(1)

Chained ==
  up => /\ rejected = {}
        /\ \A i \in 1..Len(packets) : Live(i) =>
             /\ packets[i].revision = packets[i].age - born
             /\ IF i = Len(packets) THEN packets[i].age = age
                                    ELSE Continues(packets[i].age, packets[i + 1])
        /\ Current => /\ meta.revision = meta.age - born
                      /\ IF packets = <<>> THEN meta.age = age ELSE Continues(meta.age, packets[1])

Answers == Truthful /\ Chained /\ LookupsAreAnswered

LEMMA EmptyLen ==
  ASSUME NEW S, NEW s \in Seq(S)
  PROVE  s = <<>> <=> Len(s) = 0
OBVIOUS

\* The server sends a packet.
LEMMA ChainGrows ==
  ASSUME Truthful, Chained, up, NEW p, p.kind # "auth", p.age = age', Continues(age, p), p.revision = age' - born,
         packets' = Append(packets, p), UNCHANGED <<born, meta, rejected>>
  PROVE  Chained'
<1>1. packets \in Seq(Packets)
  BY DEF Truthful, Typed
<1>2. /\ Len(packets') = Len(packets) + 1 /\ Len(packets) \in Nat /\ packets'[Len(packets) + 1] = p
      /\ \A i \in 1..Len(packets) : packets'[i] = packets[i]
      /\ packets' # <<>> /\ (packets = <<>> <=> Len(packets) = 0)
  BY <1>1
<1>3. ASSUME NEW i \in 1..Len(packets) + 1, Live(i)'
      PROVE  Live(i)
  BY <1>2, <1>3 DEF Live
<1>4. ASSUME NEW i \in 1..Len(packets'), Live(i)'
      PROVE  /\ packets'[i].revision = packets'[i].age - born'
             /\ IF i = Len(packets') THEN packets'[i].age = age'
                                     ELSE Continues(packets'[i].age, packets'[i + 1])
  <2>1. CASE i = Len(packets) + 1
    BY <1>2, <2>1
  <2>2. CASE i \in 1..Len(packets)
    <3>1. /\ packets[i].revision = packets[i].age - born
          /\ IF i = Len(packets) THEN packets[i].age = age ELSE Continues(packets[i].age, packets[i + 1])
      BY <1>3, <1>4, <2>2 DEF Chained
    <3>2. CASE i = Len(packets)
      BY <1>2, <2>2, <3>1, <3>2
    <3>3. CASE i # Len(packets)
      <4>1. packets'[i] = packets[i] /\ packets'[i + 1] = packets[i + 1] /\ i # Len(packets')
        BY <1>2, <2>2, <3>3
      <4> QED BY <3>1, <3>3, <4>1
    <3> QED BY <3>2, <3>3
  <2> QED BY <1>2, <2>1, <2>2
<1>5. ASSUME Current'
      PROVE  meta'.revision = meta'.age - born' /\ Continues(meta'.age, packets'[1])
  <2>1. Current
    BY <1>2, <1>3, <1>5 DEF Current
  <2>2. meta.revision = meta.age - born /\ IF packets = <<>> THEN meta.age = age ELSE Continues(meta.age, packets[1])
    BY <2>1 DEF Chained
  <2>3. CASE packets = <<>>
    BY <1>2, <2>2, <2>3
  <2>4. CASE packets # <<>>
    <3>1. packets'[1] = packets[1]
      BY <1>2, <2>4
    <3> QED BY <2>2, <2>4, <3>1
  <2> QED BY <2>3, <2>4
<1> QED BY <1>2, <1>4, <1>5 DEF Chained

\* The renderer takes a packet, and is where the packet says.
LEMMA ChainShrinks ==
  ASSUME Truthful, Chained, up, packets # <<>>, packets' = Tail(packets), UNCHANGED <<age, born, rejected>>,
         meta' # None /\ ~meta'.refetching =>
           /\ packets[1].kind # "auth"
           /\ Live(1) => meta'.age = packets[1].age /\ meta'.revision = packets[1].revision
  PROVE  Chained'
<1>1. packets \in Seq(Packets)
  BY DEF Truthful, Typed
<1>2. /\ Len(packets') = Len(packets) - 1 /\ Len(packets) \in Nat /\ Len(packets) > 0
      /\ \A i \in 1..Len(packets') : i + 1 \in 1..Len(packets) /\ packets'[i] = packets[i + 1]
      /\ packets' = <<>> <=> Len(packets) = 1
  <2>1. packets' \in Seq(Packets) /\ Len(packets') = Len(packets) - 1 /\ Len(packets) \in Nat /\ Len(packets) > 0
    BY <1>1
  <2>2. \A i \in 1..Len(packets') : i + 1 \in 1..Len(packets) /\ packets'[i] = packets[i + 1]
    BY <1>1
  <2>3. packets' = <<>> <=> Len(packets') = 0
    BY <2>1, EmptyLen
  <2> QED BY <2>1, <2>2, <2>3
<1>3. ASSUME NEW i \in 1..Len(packets') + 1, Live(i)'
      PROVE  Live(i + 1)
  <2> SUFFICES ASSUME NEW j \in i + 1..Len(packets) PROVE packets[j].kind # "auth"
    BY DEF Live
  <2>1. j - 1 \in i..Len(packets') /\ j - 1 \in 1..Len(packets') /\ packets'[j - 1] = packets[j]
    BY <1>2
  <2> QED BY <1>3, <2>1 DEF Live
<1>4. ASSUME NEW i \in 1..Len(packets'), Live(i)'
      PROVE  /\ packets'[i].revision = packets'[i].age - born'
             /\ IF i = Len(packets') THEN packets'[i].age = age'
                                     ELSE Continues(packets'[i].age, packets'[i + 1])
  <2>1. i + 1 \in 1..Len(packets) /\ Live(i + 1) /\ packets'[i] = packets[i + 1]
    BY <1>2, <1>3, <1>4
  <2>2. /\ packets[i + 1].revision = packets[i + 1].age - born
        /\ IF i + 1 = Len(packets) THEN packets[i + 1].age = age
                                   ELSE Continues(packets[i + 1].age, packets[i + 1 + 1])
    BY <2>1 DEF Chained
  <2>3. CASE i = Len(packets')
    BY <1>2, <2>1, <2>2, <2>3
  <2>4. CASE i # Len(packets')
    <3>1. i + 1 \in 1..Len(packets') /\ i + 1 # Len(packets) /\ packets'[i + 1] = packets[i + 1 + 1]
      BY <1>2, <2>4
    <3> QED BY <2>1, <2>2, <2>4, <3>1
  <2> QED BY <2>3, <2>4
<1>5. ASSUME Current'
      PROVE  /\ meta'.revision = meta'.age - born'
             /\ IF packets' = <<>> THEN meta'.age = age' ELSE Continues(meta'.age, packets'[1])
  <2>1. meta' # None /\ ~meta'.refetching /\ packets[1].kind # "auth" /\ Live(2)
    BY <1>2, <1>3, <1>5 DEF Current
  <2>2. Live(1)
    BY <1>2, <2>1 DEF Live
  <2>3. meta'.age = packets[1].age /\ meta'.revision = packets[1].revision
    BY <2>1, <2>2
  <2>4. /\ packets[1].revision = packets[1].age - born
        /\ IF 1 = Len(packets) THEN packets[1].age = age ELSE Continues(packets[1].age, packets[1 + 1])
    <3>1. \A i \in 1..Len(packets) : Live(i) =>
            /\ packets[i].revision = packets[i].age - born
            /\ IF i = Len(packets) THEN packets[i].age = age ELSE Continues(packets[i].age, packets[i + 1])
      BY DEF Chained
    <3>2. 1 \in 1..Len(packets)
      BY <1>2
    <3> HIDE DEF Continues
    <3> QED BY <2>2, <3>1, <3>2
  <2>5. CASE packets' = <<>>
    BY <1>2, <2>3, <2>4, <2>5
  <2>6. CASE packets' # <<>>
    <3>1. packets'[1] = packets[1 + 1] /\ 1 # Len(packets)
      BY <1>2, <2>6
    <3> QED BY <2>3, <2>4, <2>6, <3>1
  <2> QED BY <2>5, <2>6
<1> QED BY <1>4, <1>5 DEF Chained

\* The renderer asks for something, and gives nothing up.
LEMMA ChainSame ==
  ASSUME Chained, UNCHANGED <<up, age, born, packets>>, up => rejected' = rejected,
         meta' # None => /\ meta # None /\ meta'.age = meta.age /\ meta'.revision = meta.revision
                         /\ up => meta'.refetching = meta.refetching
  PROVE  Chained'
<1> SUFFICES ASSUME up PROVE Chained'
  BY DEF Chained
<1>1. \A i : Live(i)' <=> Live(i)
  BY DEF Live
<1>2. Current' => Current
  BY <1>1 DEF Current
<1>3. Current' => /\ meta'.revision = meta'.age - born'
                  /\ IF packets' = <<>> THEN meta'.age = age' ELSE Continues(meta'.age, packets'[1])
  BY <1>2 DEF Chained, Current
<1>4. \A i \in 1..Len(packets') : Live(i)' =>
        /\ packets'[i].revision = packets'[i].age - born'
        /\ IF i = Len(packets') THEN packets'[i].age = age' ELSE Continues(packets'[i].age, packets'[i + 1])
  BY <1>1 DEF Chained
<1>5. rejected' = {}
  BY DEF Chained
<1> QED BY <1>3, <1>4, <1>5 DEF Chained

\* The client waits for a first page, or is where the packet it took says.
LEMMA Heard ==
  ASSUME Truthful, Chained, up, Receive, meta' # None, ~meta'.refetching
  PROVE  /\ Head(packets) = packets[1] /\ packets[1].kind # "auth"
         /\ Live(1) => meta'.age = packets[1].age /\ meta'.revision = packets[1].revision
<1> DEFINE p == Head(packets)
<1>1. packets # <<>> /\ (OnAuth(p) \/ OnPage(p) \/ OnFound(p) \/ OnDelta(p))
  BY DEF Receive
<1>2. /\ packets \in Seq(Packets) /\ Len(packets) \in Nat /\ Len(packets) > 0 /\ p = packets[1] /\ p \in Packets
      /\ meta \in Metas \cup {None}
  BY <1>1 DEF Truthful, Typed
<1> HIDE DEF p
<1>3. ASSUME NEW f \in BOOLEAN, RefetchRoster(f), meta # None, ~meta.refetching
      PROVE  FALSE
  BY <1>2, <1>3 DEF RefetchRoster, Metas
<1> DEFINE Good == p.kind # "auth" /\ (Live(1) => meta'.age = p.age /\ meta'.revision = p.revision)
<1>4. ASSUME OnAuth(p)
      PROVE  Good
  <2>1. meta' = IF meta = None THEN None ELSE [meta EXCEPT !.refetching = TRUE]
    BY <1>4 DEF OnAuth, RefetchRoster
  <2> QED BY <1>2, <2>1 DEF Metas
<1>5. ASSUME OnPage(p)
      PROVE  Good
  <2>1. p.kind = "page" /\ p.first \in BOOLEAN
    BY <1>2, <1>5, PacketKinds DEF OnPage, Pages
  <2>2. CASE AppliesPage(p)
    BY <2>1, <2>2 DEF AppliesPage
  <2>3. CASE ~p.first /\ meta # None /\ ~meta.refetching /\ RefetchRoster(FALSE)
    BY <1>3, <2>3
  <2>4. CASE ~p.first /\ (meta = None \/ meta.refetching) /\ UNCHANGED meta
    BY <2>4
  <2> QED BY <1>5, <2>1, <2>2, <2>3, <2>4 DEF OnPage
<1>6. ASSUME OnFound(p)
      PROVE  Good
  <2>1. p.kind = "found" /\ meta' = meta
    BY <1>6 DEF OnFound
  <2>2. ASSUME Live(1)
        PROVE  meta.age = p.age /\ meta.revision = p.revision
    <3>1. Current
      BY <2>1, <2>2 DEF Current
    <3>2. meta.revision = meta.age - born /\ Continues(meta.age, p) /\ p.revision = p.age - born
      BY <1>1, <1>2, <2>2, <3>1 DEF Chained
    <3> QED BY <2>1, <3>2 DEF Continues
  <2> QED BY <2>1, <2>2
<1>7. ASSUME OnDelta(p)
      PROVE  Good
  <2>1. p.kind \in {"upsert", "remove"}
    BY <1>7 DEF OnDelta
  <2>2. CASE meta = None \/ meta.refetching
    <3>1. UNCHANGED meta
      BY <1>7, <2>2 DEF OnDelta
    <3> QED BY <2>2, <3>1
  <2>3. CASE meta # None /\ ~meta.refetching /\ p.revision # meta.revision + 1
    BY <1>3, <1>7, <2>3 DEF OnDelta
  <2>4. CASE meta # None /\ ~meta.refetching /\ p.revision = meta.revision + 1
    <3>1. meta' = [meta EXCEPT !.revision = p.revision, !.age = p.age]
      BY <1>7, <2>4 DEF OnDelta
    <3> QED BY <1>2, <2>1, <2>4, <3>1 DEF Metas
  <2> QED BY <2>2, <2>3, <2>4
<1>8. Good
  BY <1>1, <1>4, <1>5, <1>6, <1>7
<1> QED BY <1>2, <1>8 DEF p

\* While a connection is up, what the renderer asks for is added to the requests.
LEMMA AsksUp ==
  ASSUME up, Receive
  PROVE  rejected' = rejected /\ (requests' = requests \/ \E q : requests' = Append(requests, q))
<1>1. PICK p : OnAuth(p) \/ OnPage(p) \/ OnFound(p) \/ OnDelta(p)
  BY DEF Receive
<1>2. ASSUME NEW f, RefetchRoster(f)
      PROVE  rejected' = rejected /\ (requests' = requests \/ \E q : requests' = Append(requests, q))
  BY <1>2 DEF RefetchRoster, AskPage, Asks
<1>3. \/ \E f : RefetchRoster(f)
      \/ UNCHANGED <<requests, rejected>>
  BY <1>1 DEF OnAuth, OnPage, OnFound, OnDelta, AppliesPage
<1> QED BY <1>2, <1>3

LEMMA ReceiveChained ==
  ASSUME Truthful, Chained, Receive
  PROVE  Chained'
<1>1. packets # <<>> /\ packets' = Tail(packets) /\ UNCHANGED <<up, age, born>>
  BY DEF Receive, server
<1>2. CASE up
  BY <1>1, <1>2, Heard, AsksUp, ChainShrinks
<1>3. CASE ~up
  BY <1>1, <1>3 DEF Chained
<1> QED BY <1>2, <1>3

LEMMA NextChained ==
  ASSUME Prompt, Truthful, Chained, [Next]_vars
  PROVE  Chained'
<1>1. Typed /\ age \in Nat /\ born \in Nat /\ born <= age /\ meta \in Metas \cup {None}
  BY RosterAssumption DEF Truthful, Typed
<1>2. CASE Emit
  <2>1. PICK p : /\ p.kind \in {"upsert", "remove"} /\ p.age = age + 1 /\ p.revision = age - born + 1
                 /\ Broadcast(p) /\ age' = age + 1 /\ UNCHANGED <<born, up, meta, rejected>>
    BY <1>2 DEF Emit, EmitMemberUpsert, EmitMemberRemove, Changes, revision
  <2>2. CASE up
    <3>1. /\ packets' = Append(packets, p) /\ Continues(age, p) /\ p.age = age' /\ p.revision = age' - born
          /\ p.kind # "auth"
      BY <1>1, <2>1, <2>2 DEF Broadcast, Continues
    <3> QED BY <2>1, <2>2, <3>1, ChainGrows
  <2>3. CASE ~up
    BY <2>1, <2>3 DEF Chained
  <2> QED BY <2>2, <2>3
<1>3. CASE ServeList
  <2>1. PICK p \in Packets :
          packets' = Append(packets, p) /\ p.kind \in {"page", "found"} /\ p.age = age /\ p.revision = age - born
    BY <1>1, <1>3, Answer
  <2>2. up /\ UNCHANGED <<age, born, meta, rejected>>
    BY <1>3 DEF ServeList, server
  <2>3. Continues(age, p) /\ p.kind # "auth"
    BY <2>1 DEF Continues
  <2> QED BY <2>1, <2>2, <2>3, ChainGrows
<1>4. CASE Lose \/ Restart
  BY <1>4 DEF Lose, Restart, Chained
<1>5. CASE Connect
  <2> DEFINE p == [kind |-> "auth"]
  <2>1. packets' = Append(packets, p) /\ p.kind = "auth" /\ rejected' = {}
    BY <1>5 DEF Connect
  <2> HIDE DEF p
  <2>2. Len(packets') \in 1..Len(packets') /\ packets'[Len(packets')].kind = "auth"
        /\ \A i \in 1..Len(packets') : Len(packets') \in i..Len(packets')
    BY <1>1, <2>1 DEF Typed
  <2>3. \A i \in 1..Len(packets') : ~Live(i)'
    BY <2>2 DEF Live
  <2>4. ~Live(1)'
    BY <2>2, <2>3
  <2> QED BY <2>1, <2>3, <2>4 DEF Chained, Current
<1>6. CASE \E q \in rejected : OnRejected(q)
  <2>1. ~up /\ ~up'
    BY <1>6 DEF OnRejected, Chained
  <2> QED BY <2>1 DEF Chained
<1>7. CASE LoadMore \/ \E u \in Shown : RequestMember(u)
  <2>1. UNCHANGED <<up, age, born, packets>> /\ (up => rejected' = rejected)
    BY <1>7 DEF LoadMore, RequestMember, AskPage, Asks, server
  <2>2. meta' = meta \/ (meta # None /\ meta' = [meta EXCEPT !.loadingMore = TRUE])
    BY <1>7 DEF LoadMore, RequestMember
  <2>3. meta' # None => /\ meta # None /\ meta'.age = meta.age /\ meta'.revision = meta.revision
                        /\ meta'.refetching = meta.refetching
    BY <1>1, <2>2 DEF Metas
  <2> QED BY <2>1, <2>3, ChainSame
<1>8. CASE UNCHANGED vars
  <2>1. UNCHANGED <<up, age, born, packets, rejected, meta>>
    BY <1>8 DEF vars
  <2> QED BY <2>1, ChainSame
<1> QED
  BY <1>2, <1>3, <1>4, <1>5, <1>6, <1>7, <1>8, ReceiveChained DEF Next, Views, Progress

\* What is on its way stays there, or was the packet that has come.
LEMMA WayKept ==
  ASSUME Typed, Typed', NEW u, OnItsWay(u),
         \A i \in 1..Len(packets) :
           packets[i].kind = "found" /\ packets[i].uid = u => \E j \in 1..Len(packets') : packets'[j] = packets[i],
         \A k \in 1..Len(requests) : requests[k].kind = "lookup" =>
           \/ \E l \in 1..Len(requests') : requests'[l] = requests[k]
           \/ \E j \in 1..Len(packets') : packets'[j].kind = "found" /\ packets'[j].uid = requests[k].uid
  PROVE  OnItsWay(u)'
<1>1. /\ DOMAIN packets = 1..Len(packets) /\ DOMAIN packets' = 1..Len(packets')
      /\ DOMAIN requests = 1..Len(requests) /\ DOMAIN requests' = 1..Len(requests')
  BY DEF Typed
<1>2. CASE \E i \in 1..Len(packets) : packets[i].kind = "found" /\ packets[i].uid = u
  BY <1>1, <1>2 DEF OnItsWay
<1>3. CASE \E k \in 1..Len(requests) : requests[k].kind = "lookup" /\ requests[k].uid = u
  <2>1. PICK k \in 1..Len(requests) : requests[k].kind = "lookup" /\ requests[k].uid = u
    BY <1>3
  <2>2. CASE \E l \in 1..Len(requests') : requests'[l] = requests[k]
    BY <1>1, <2>1, <2>2 DEF OnItsWay
  <2>3. CASE \E j \in 1..Len(packets') : packets'[j].kind = "found" /\ packets'[j].uid = u
    BY <1>1, <2>3 DEF OnItsWay
  <2> QED BY <2>1, <2>2, <2>3
<1> QED BY <1>1, <1>2, <1>3 DEF OnItsWay

Grows(s, t) == t = s \/ \E e : t = Append(s, e)

LEMMA Appended ==
  ASSUME NEW S, NEW s \in Seq(S), NEW e
  PROVE  /\ Len(s) + 1 \in 1..Len(Append(s, e)) /\ Append(s, e)[Len(s) + 1] = e
         /\ \A i \in 1..Len(s) : i \in 1..Len(Append(s, e)) /\ Append(s, e)[i] = s[i]
OBVIOUS

LEMMA Longer ==
  ASSUME NEW S, NEW s \in Seq(S), NEW t, Grows(s, t)
  PROVE  \A i \in 1..Len(s) : i \in 1..Len(t) /\ t[i] = s[i]
<1>1. CASE t = s
  BY <1>1
<1>2. ASSUME NEW e, t = Append(s, e)
      PROVE  \A i \in 1..Len(s) : i \in 1..Len(t) /\ t[i] = s[i]
  BY <1>2, Appended
<1> QED BY <1>1, <1>2 DEF Grows

LEMMA Rest ==
  ASSUME NEW S, NEW s \in Seq(S), s # <<>>
  PROVE  /\ s[1] = Head(s)
         /\ \A k \in 1..Len(s) : k = 1 \/ (k - 1 \in 1..Len(Tail(s)) /\ Tail(s)[k - 1] = s[k])
OBVIOUS

\* The first request is answered.
IsServed ==
  /\ requests # <<>> /\ requests' = Tail(requests)
  /\ \E p : /\ packets' = Append(packets, p)
            /\ Head(requests).kind = "lookup" => p.kind = "found" /\ p.uid = Head(requests).uid

LEMMA ServedOnItsWay ==
  ASSUME Typed, IsServed
  PROVE  \A k \in 1..Len(requests) : requests[k].kind = "lookup" =>
           \/ \E l \in 1..Len(requests') : requests'[l] = requests[k]
           \/ \E j \in 1..Len(packets') : packets'[j].kind = "found" /\ packets'[j].uid = requests[k].uid
<1>1. packets \in Seq(Packets) /\ requests \in Seq(Requests) /\ requests # <<>> /\ requests' = Tail(requests)
  BY DEF Typed, IsServed
<1>2. PICK p : /\ packets' = Append(packets, p)
               /\ Head(requests).kind = "lookup" => p.kind = "found" /\ p.uid = Head(requests).uid
  BY DEF IsServed
<1>3. Len(packets) + 1 \in 1..Len(packets') /\ packets'[Len(packets) + 1] = p
  BY <1>1, <1>2, Appended
<1>4. /\ requests[1] = Head(requests)
      /\ \A k \in 1..Len(requests) : k = 1 \/ (k - 1 \in 1..Len(requests') /\ requests'[k - 1] = requests[k])
  BY <1>1, Rest
<1> QED BY <1>2, <1>3, <1>4

\* A step that takes no packet.
LEMMA ElseAnswered ==
  ASSUME Typed, Typed', LookupsAreAnswered, up, \A a \in 0..age : past'[a] = past[a],
         meta # None => meta.age \in 0..age,
         meta' # None => meta # None /\ meta'.age = meta.age /\ meta'.refetching = meta.refetching, rows' = rows,
         Grows(packets, packets'), Grows(requests, requests') \/ IsServed,
         \A u \in asked' : u \in asked \/ OnItsWay(u)'
  PROVE  LookupsAreAnswered'
<1>1. /\ packets \in Seq(Packets) /\ requests \in Seq(Requests)
      /\ DOMAIN packets = 1..Len(packets) /\ DOMAIN packets' = 1..Len(packets')
  BY DEF Typed
<1>2. \A i \in 1..Len(packets) : i \in 1..Len(packets') /\ packets'[i] = packets[i]
  BY <1>1, Longer
<1>3. \A k \in 1..Len(requests) : requests[k].kind = "lookup" =>
        \/ \E l \in 1..Len(requests') : requests'[l] = requests[k]
        \/ \E j \in 1..Len(packets') : packets'[j].kind = "found" /\ packets'[j].uid = requests[k].uid
  <2>1. CASE Grows(requests, requests')
    BY <1>1, <2>1, Longer
  <2>2. CASE IsServed
    BY <2>2, ServedOnItsWay
  <2> QED BY <2>1, <2>2
<1>4. SUFFICES ASSUME meta' # None, \A i \in 1..Len(packets') : packets'[i].kind # "auth", NEW u \in asked'
               PROVE  \/ meta'.refetching \/ OnItsWay(u)'
                      \/ (\E m \in rows' : m.uid = u) \/ \A m \in past'[meta'.age] : m.uid # u
  BY <1>1 DEF LookupsAreAnswered
<1>5. meta # None /\ past'[meta'.age] = past[meta.age] /\ meta'.refetching = meta.refetching
  BY <1>4
<1>6. \A i \in DOMAIN packets : packets[i].kind # "auth"
  BY <1>1, <1>2, <1>4
<1>7. CASE u \in asked
  <2>1. \/ meta.refetching \/ OnItsWay(u)
        \/ (\E m \in rows : m.uid = u) \/ \A m \in past[meta.age] : m.uid # u
    BY <1>5, <1>6, <1>7 DEF LookupsAreAnswered
  <2>2. OnItsWay(u) => OnItsWay(u)'
    BY <1>2, <1>3, WayKept
  <2> QED BY <1>5, <2>1, <2>2
<1> QED BY <1>4, <1>7

LEMMA ReceiveAnswered ==
  ASSUME Answers, Typed', Receive
  PROVE  LookupsAreAnswered'
<1> DEFINE p == Head(packets)
<1>1. /\ packets # <<>> /\ packets' = Tail(packets) /\ UNCHANGED <<past, age, up, born>>
      /\ OnAuth(p) \/ OnPage(p) \/ OnFound(p) \/ OnDelta(p)
  BY DEF Receive, server
<1>2. /\ packets \in Seq(Packets) /\ requests \in Seq(Requests) /\ meta \in Metas \cup {None} /\ Typed
      /\ DOMAIN packets = 1..Len(packets) /\ DOMAIN packets' = 1..Len(packets') /\ Truthful /\ Chained
  BY DEF Answers, Truthful, Typed
<1>3. SUFFICES ASSUME up, meta' # None, \A i \in 1..Len(packets') : packets'[i].kind # "auth",
                      NEW u \in asked', ~meta'.refetching
               PROVE  \/ OnItsWay(u)'
                      \/ (\E m \in rows' : m.uid = u) \/ \A m \in past[meta'.age] : m.uid # u
  BY <1>1, <1>2 DEF LookupsAreAnswered
<1>4. /\ p = packets[1] /\ 1 \in 1..Len(packets) /\ p \in Packets /\ Says(p)
      /\ \A i \in 1..Len(packets) : i = 1 \/ (i - 1 \in 1..Len(packets') /\ packets'[i - 1] = packets[i])
  BY <1>1, <1>2 DEF Truthful
<1>5. p.kind # "auth" /\ (Live(1) => meta'.age = p.age /\ meta'.revision = p.revision)
  BY <1>2, <1>3, <1>4, Heard
<1>6. Live(1) /\ \A i \in DOMAIN packets : packets[i].kind # "auth"
  BY <1>2, <1>3, <1>4, <1>5 DEF Live
<1>7. meta'.age = p.age
  BY <1>5, <1>6
<1>8. ASSUME OnItsWay(u), ~(p.kind = "found" /\ p.uid = u)
      PROVE  OnItsWay(u)'
  <2>1. \A k \in 1..Len(requests) : \E l \in 1..Len(requests') : requests'[l] = requests[k]
    <3>1. CASE requests' = requests
      BY <3>1
    <3>2. ASSUME NEW q, requests' = Append(requests, q)
          PROVE  \A k \in 1..Len(requests) : k \in 1..Len(requests') /\ requests'[k] = requests[k]
      BY <1>2, <3>2
    <3> QED BY <1>3, <3>1, <3>2, AsksUp
  <2>2. \A i \in 1..Len(packets) :
          packets[i].kind = "found" /\ packets[i].uid = u => \E j \in 1..Len(packets') : packets'[j] = packets[i]
    BY <1>4, <1>8
  <2> QED BY <1>2, <1>8, <2>1, <2>2, WayKept
\* Before the packet came.
<1>9. ASSUME meta # None, ~meta.refetching, u \in asked
      PROVE  /\ Continues(meta.age, p) /\ p.revision = p.age - born /\ meta.revision = meta.age - born
             /\ \/ OnItsWay(u) \/ (\E m \in rows : m.uid = u) \/ \A m \in past[meta.age] : m.uid # u
  <2>1. Current
    BY <1>6, <1>9 DEF Current
  <2>2. Continues(meta.age, p) /\ p.revision = p.age - born /\ meta.revision = meta.age - born
    BY <1>1, <1>2, <1>3, <1>4, <1>6, <2>1 DEF Chained
  <2>3. \/ OnItsWay(u) \/ (\E m \in rows : m.uid = u) \/ \A m \in past[meta.age] : m.uid # u
    BY <1>3, <1>6, <1>9 DEF Answers, LookupsAreAnswered
  <2> QED BY <2>2, <2>3
<1>10. ASSUME NEW f \in BOOLEAN, RefetchRoster(f), meta # None, ~meta.refetching
       PROVE  FALSE
  BY <1>2, <1>3, <1>10 DEF RefetchRoster, Metas
<1> HIDE DEF p
<1>11. ASSUME NEW new, rows' = Held(new), \E m \in rows : m.uid = u
       PROVE  \E m \in rows' : m.uid = u
  BY <1>11 DEF Held
<1> DEFINE Good == \/ OnItsWay(u)'
                   \/ (\E m \in rows' : m.uid = u) \/ \A m \in past[meta'.age] : m.uid # u
<1>12. ASSUME OnPage(p)
       PROVE  Good
  <2>1. p.kind = "page" /\ p.first \in BOOLEAN
    BY <1>4, <1>12, PacketKinds DEF OnPage, Pages
  <2>2. CASE ~p.first /\ (meta = None \/ meta.refetching)
    <3>1. UNCHANGED meta
      BY <1>12, <2>2 DEF OnPage
    <3> QED BY <1>3, <2>2, <3>1
  <2>3. CASE ~p.first /\ meta # None /\ ~meta.refetching /\ p.revision # meta.revision
    BY <1>10, <1>12, <2>3 DEF OnPage
  <2>4. CASE p.first
    <3>1. asked' = {}
      BY <1>12, <2>4 DEF OnPage, AppliesPage
    <3> QED BY <1>3, <3>1
  <2>5. CASE ~p.first /\ meta # None /\ ~meta.refetching /\ p.revision = meta.revision
    <3>1. AppliesPage(p)
      BY <1>12, <2>5 DEF OnPage
    <3>2. asked' = asked /\ rows' = Held(p.members \cup p.extra)
      BY <2>5, <3>1 DEF AppliesPage
    <3>3. p.age = meta.age
      BY <1>9, <1>3, <2>1, <2>5, <3>2 DEF Continues
    <3> QED BY <1>3, <1>7, <1>8, <1>9, <1>11, <2>1, <2>5, <3>2, <3>3
  <2> QED BY <2>1, <2>2, <2>3, <2>4, <2>5
<1>13. ASSUME OnFound(p)
       PROVE  Good
  <2>1. p.kind = "found" /\ meta' = meta /\ asked' = asked
    BY <1>13 DEF OnFound
  <2>2. p.age = meta.age /\ p.revision = meta.revision
    BY <1>3, <1>9, <2>1 DEF Continues
  <2>3. rows' = Held(p.extra)
    BY <1>3, <1>13, <2>1, <2>2 DEF OnFound
  <2>4. CASE u = p.uid
    <3>1. p.extra = {m \in past[meta'.age] : m.uid = u}
      BY <1>4, <1>7, <2>1, <2>4 DEF Says
    <3> QED BY <2>3, <3>1 DEF Held
  <2>5. CASE u # p.uid
    BY <1>3, <1>8, <1>9, <1>11, <2>1, <2>3, <2>5
  <2> QED BY <2>4, <2>5
<1>14. ASSUME OnDelta(p)
       PROVE  Good
  <2>1. p.kind \in {"upsert", "remove"} /\ asked' = asked
    BY <1>14 DEF OnDelta
  <2>2. CASE meta = None \/ meta.refetching
    <3>1. UNCHANGED meta
      BY <1>14, <2>2 DEF OnDelta
    <3> QED BY <1>3, <2>2, <3>1
  <2>3. CASE meta # None /\ ~meta.refetching /\ p.revision # meta.revision + 1
    BY <1>10, <1>14, <2>3 DEF OnDelta
  <2>4. CASE meta # None /\ ~meta.refetching /\ p.revision = meta.revision + 1
    <3>1. rows' = IF p.kind = "upsert" THEN Held({p.row}) ELSE {m \in rows : m.uid # p.uid}
      BY <1>14, <2>4 DEF OnDelta
    <3>2. p.age - 1 = meta.age
      <4>1. p.age = meta.age + 1 /\ meta.age \in Nat
        BY <1>2, <1>3, <1>9, <2>1, <2>4 DEF Continues, Metas
      <4> QED BY <4>1
    <3>3. \/ OnItsWay(u) \/ (\E m \in rows : m.uid = u) \/ \A m \in past[p.age - 1] : m.uid # u
      BY <1>3, <1>9, <2>1, <2>4, <3>2
    <3>4. CASE p.kind = "upsert"
      <4>1. past[p.age] = {m \in past[p.age - 1] : m.uid # p.row.uid} \cup {p.row}
        BY <1>4, <3>4 DEF Says
      <4>2. rows' = Held({p.row}) /\ p.row \in rows'
        BY <3>1, <3>4 DEF Held
      <4> QED BY <1>7, <1>8, <1>11, <3>3, <3>4, <4>1, <4>2
    <3>5. CASE p.kind = "remove"
      <4>1. past[p.age] = {m \in past[p.age - 1] : m.uid # p.uid}
        BY <1>4, <3>5 DEF Says
      <4>2. rows' = {m \in rows : m.uid # p.uid}
        BY <3>1, <3>5
      <4> QED BY <1>7, <1>8, <3>3, <3>5, <4>1, <4>2
    <3> QED BY <2>1, <3>4, <3>5
  <2> QED BY <2>2, <2>3, <2>4
<1> QED BY <1>1, <1>5, <1>12, <1>13, <1>14 DEF OnAuth

LEMMA NextAnswers ==
  ASSUME Prompt, Answers, [Next]_vars
  PROVE  Answers'
<1>1. Truthful /\ Chained /\ LookupsAreAnswered /\ Truthful' /\ Typed /\ Typed' /\ Chained'
  BY NextTruthful, NextChained DEF Answers, Truthful
<1>2. /\ packets \in Seq(Packets) /\ meta \in Metas \cup {None} /\ age \in 0..MaxAge /\ MaxAge \in Nat
      /\ past \in [0..MaxAge -> SUBSET Row] /\ (meta # None => meta.age \in 0..age)
  BY <1>1, RosterAssumption DEF Truthful, Typed, Metas
<1> SUFFICES LookupsAreAnswered'
  BY <1>1 DEF Answers
<1>3. ASSUME ~up'
      PROVE  LookupsAreAnswered'
  BY <1>3 DEF LookupsAreAnswered
<1>4. CASE Emit
  <2>1. PICK p, u, now : /\ Changes(u, now) /\ Broadcast(p)
                         /\ UNCHANGED <<up, requests, meta, rows, asked>>
    BY <1>4 DEF Emit, EmitMemberUpsert, EmitMemberRemove
  <2>2. PICK R : past' = [past EXCEPT ![age + 1] = R]
    BY <2>1 DEF Changes
  <2>3. \A a \in 0..age : past'[a] = past[a]
    BY <1>2, <2>2
  <2>4. CASE up
    BY <1>1, <1>2, <2>1, <2>3, <2>4, ElseAnswered DEF Broadcast, Grows
  <2> QED BY <1>3, <2>1, <2>4
<1>5. CASE ServeList
  <2>1. /\ up /\ requests # <<>> /\ requests' = Tail(requests)
        /\ UNCHANGED <<past, age, meta, rows, asked>>
    BY <1>5 DEF ServeList, server
  <2>2. PICK p : /\ packets' = Append(packets, p)
                 /\ Head(requests).kind = "lookup" => p.kind = "found" /\ p.uid = Head(requests).uid
    BY <1>1, <1>5, Answer
  <2>3. Grows(packets, packets') /\ IsServed
    BY <2>1, <2>2 DEF Grows, IsServed
  <2> QED BY <1>1, <1>2, <2>1, <2>2, <2>3, ElseAnswered
<1>6. CASE Lose \/ Restart
  BY <1>3, <1>6 DEF Lose, Restart
<1>7. CASE Connect
  <2> DEFINE p == [kind |-> "auth"]
  <2>1. packets' = Append(packets, p) /\ p.kind = "auth"
    BY <1>7 DEF Connect
  <2> HIDE DEF p
  <2>2. Len(packets') \in DOMAIN packets' /\ packets'[Len(packets')].kind = "auth"
    BY <1>2, <2>1
  <2> QED BY <2>2 DEF LookupsAreAnswered
<1>8. CASE \E q \in rejected : OnRejected(q)
  <2>1. ~up'
    BY <1>1, <1>8 DEF OnRejected, Chained
  <2> QED BY <1>3, <2>1
<1>9. CASE LoadMore
  <2>1. UNCHANGED <<past, age, up, packets, rows, asked>>
    BY <1>9 DEF LoadMore, server
  <2>2. meta # None /\ meta' = [meta EXCEPT !.loadingMore = TRUE]
    BY <1>9 DEF LoadMore
  <2>3. meta'.age = meta.age /\ meta'.refetching = meta.refetching
    BY <1>2, <2>2 DEF Metas
  <2>4. CASE up
    <3>1. Grows(packets, packets') /\ Grows(requests, requests')
      BY <1>9, <2>1, <2>4 DEF LoadMore, AskPage, Asks, Grows
    <3> QED BY <1>1, <1>2, <2>1, <2>2, <2>3, <2>4, <3>1, ElseAnswered
  <2> QED BY <1>3, <2>1, <2>4
<1>10. CASE \E u \in Shown : RequestMember(u)
  <2>1. PICK u \in Shown : RequestMember(u)
    BY <1>10
  <2> DEFINE q == [kind |-> "lookup", uid |-> u]
  <2>2. UNCHANGED <<past, age, up, packets, meta, rows>> /\ asked' = asked \cup {u} /\ Asks(q)
    BY <2>1 DEF RequestMember, server
  <2>3. q.kind = "lookup" /\ q.uid = u
    OBVIOUS
  <2> HIDE DEF q
  <2>4. CASE up
    <3>1. requests' = Append(requests, q) /\ requests \in Seq(Requests)
      BY <1>1, <2>2, <2>4 DEF Asks, Typed
    <3>2. Len(requests') \in DOMAIN requests' /\ requests'[Len(requests')] = q
      BY <3>1
    <3>3. OnItsWay(u)'
      BY <2>3, <3>2 DEF OnItsWay
    <3>4. Grows(packets, packets') /\ Grows(requests, requests')
      BY <2>2, <3>1 DEF Grows
    <3> QED BY <1>1, <1>2, <2>2, <2>4, <3>3, <3>4, ElseAnswered
  <2> QED BY <1>3, <2>2, <2>4
<1>11. CASE UNCHANGED vars
  <2>1. UNCHANGED <<past, age, up, packets, requests, meta, rows, asked>>
    BY <1>11 DEF vars
  <2> QED BY <1>1, <2>1 DEF LookupsAreAnswered, OnItsWay
<1>12. CASE Receive
  BY <1>1, <1>12, ReceiveAnswered
<1> QED
  BY <1>4, <1>5, <1>6, <1>7, <1>8, <1>9, <1>10, <1>11, <1>12 DEF Next, Views, Progress

(* A member some view asked for under this generation of the list is held, *)
(* or is none, once nothing about it is on its way (memberLookup.ts asks   *)
(* once per generation), however many connections are lost and however     *)
(* often the server process starts again, if a connection is back only     *)
(* after the renderer has heard of the last: the answer is never dropped   *)
(* for another revision (applyMemberLookup) unless a first page is coming. *)
THEOREM LookupsAreAlwaysAnswered ==
  ASSUME Prompt
  PROVE  Spec => []LookupsAreAnswered
<1>1. Init => Answers
  <2> SUFFICES ASSUME Init PROVE Answers
    OBVIOUS
  <2>1. Truthful
    BY InitTrue DEF Faithful
  <2> QED BY <2>1 DEF Init, Answers, Chained, LookupsAreAnswered
<1>2. Answers /\ [Next]_vars => Answers'
  BY NextAnswers
<1>3. Answers => LookupsAreAnswered
  BY DEF Answers
<1> QED
  BY <1>1, <1>2, <1>3, PTL DEF Spec
=============================================================================
