------------------------- MODULE ChannelSliceProofs -------------------------
(***************************************************************************)
(* The slice of ChannelHistory has no hole and is at the present when it   *)
(* says so, in a channel where nothing is deleted, nobody jumps and no     *)
(* slice is cut: over one connection, or over any number of them when the  *)
(* channel fits into a page and so has no older page to ask for.  Nothing  *)
(* is assumed of PagesWait: ChatPanel does not wait, and where an older    *)
(* page meets a lost connection history_gap shows the hole.                *)
(*                                                                         *)
(* The log is 1..last then, and the slice an interval of it.  What keeps   *)
(* it one is the order of the lanes: the messages in `jobs` and then on    *)
(* `wire` are the next rows one by one, and a page ends at the newest row  *)
(* of the moment it is read at, or at the row it was asked below or above. *)
(* The invariant is Steady.                                                *)
(***************************************************************************)
EXTENDS ChannelHistoryProofs

-----------------------------------------------------------------------------
(* Where the theorems hold.                                                *)

(* The rows the channel will ever have.                                    *)
Total == OldRows + MaxPosts + Cardinality(Sends)

(* The slice is never dropped, and no connection lost.                     *)
Calm == MaxDrops = 0 /\ MaxEvicts = 0

(* A page, and the page of a check, hold the channel.                      *)
Whole == Total <= PageLimit /\ (Sends = {} \/ Total <= CheckLimit)

(* The slice or the connection stays, or a newest page brings all of it    *)
(* back; and no slice is cut.                                              *)
Enough == Calm \/ Whole
Roomy == \A cap \in {ListCap, BackgroundCap} : Total + Cardinality(Sends) <= cap

Undisturbed ==
  /\ MaxDeletes = 0 /\ MaxJumps = 0 /\ Roomy
  /\ Calm \/ (Whole /\ ~WorkerStalls)

-----------------------------------------------------------------------------
(* Intervals, and the packets that follow one another.                     *)

(* Between two rows of S there is no other.                                *)
Solid(S) == \A a, b \in S : \A r \in Nat : a < r /\ r < b => r \in S

(* A page, read when the rows up to m have been read.                      *)
PageFits(p, m) ==
  /\ p.rows \subseteq 1..m /\ Solid(p.rows) /\ p.mode # "around"
  /\ Calm \/ ~p.more
  /\ p.mode = "latest" /\ m # 0 => m \in p.rows
  /\ p.mode = "before" => \A r \in p.rows : r < p.cur /\ p.cur - 1 \in p.rows
  /\ p.mode = "after" =>
       /\ \A r \in p.rows : p.cur < r /\ p.cur + 1 \in p.rows
       /\ ~p.newer /\ p.cur < m => m \in p.rows

(* A packet takes who has read the rows up to a to those up to b.          *)
Moves(p, a, b) ==
  /\ p.t \in {"msg", "page", "auth", "rejected"}
  /\ p.t = "msg" => b = a + 1 /\ p.id = b
  /\ p.t # "msg" => b = a
  /\ p.t = "page" => PageFits(p, b)

(* The packets of f do, one after another: g says how far.                 *)
Carries(f, a, b) ==
  \E g \in [0..Len(f) -> 0..b] :
    /\ g[0] = a /\ g[Len(f)] = b
    /\ \A i \in 1..Len(f) : Moves(f[i], g[i - 1], g[i])

LEMMA CarriesNone ==
  /\ \A a \in Nat : Carries(<<>>, a, a)
  /\ \A a, b \in Nat : Carries(<<>>, a, b) => a = b
<1>1. ASSUME NEW a \in Nat PROVE Carries(<<>>, a, a)
  <2> DEFINE g == [i \in 0..0 |-> a]
  <2>1. Len(<<>>) = 0 /\ a \in 0..a /\ 1..0 = {}
    OBVIOUS
  <2>2. g \in [0..0 -> 0..a] /\ g[0] = a
    BY <2>1
  <2> HIDE DEF g
  <2> QED BY <2>1, <2>2 DEF Carries
<1>2. ASSUME NEW a \in Nat, NEW b \in Nat, Carries(<<>>, a, b) PROVE a = b
  <2>1. Len(<<>>) = 0
    OBVIOUS
  <2> QED BY <1>2, <2>1 DEF Carries
<1> QED BY <1>1, <1>2

LEMMA CarriesMore ==
  ASSUME NEW P, NEW f \in Seq(P), NEW p, NEW a \in Nat, NEW b \in Nat, NEW c \in Nat,
         Carries(f, a, b), Moves(p, b, c)
  PROVE  Carries(Append(f, p), a, c)
<1> DEFINE n == Len(f)
<1>1. n \in Nat
  OBVIOUS
<1>2. /\ Len(Append(f, p)) = n + 1 /\ Append(f, p)[n + 1] = p
      /\ \A i \in 1..n : Append(f, p)[i] = f[i]
  <2> DEFINE Q == P \cup {p}
  <2>1. f \in Seq(Q) /\ p \in Q
    <3>1. P \subseteq Q /\ p \in Q
      OBVIOUS
    <3> HIDE DEF Q
    <3> QED BY <3>1
  <2> HIDE DEF Q
  <2> QED BY <2>1, AppendProperties
<1>3. PICK g \in [0..n -> 0..b] :
        g[0] = a /\ g[n] = b /\ \A i \in 1..n : Moves(f[i], g[i - 1], g[i])
  BY DEF Carries
<1>4. b <= c
  BY DEF Moves
<1> DEFINE h == [i \in 0..(n + 1) |-> IF i = n + 1 THEN c ELSE g[i]]
<1> HIDE DEF n
<1>5. \A i \in 0..n : g[i] \in 0..c
  BY <1>3, <1>4
<1>6. h \in [0..(n + 1) -> 0..c]
  <2>1. \A i \in 0..(n + 1) : i = n + 1 \/ i \in 0..n
    BY <1>1
  <2> QED BY <1>5, <2>1
<1>7. /\ h[n + 1] = c /\ \A i \in 0..n : h[i] = g[i]
  BY <1>1
<1> HIDE DEF h
<1>8. ASSUME NEW i \in 1..(n + 1)
      PROVE  Moves(Append(f, p)[i], h[i - 1], h[i])
  <2>1. CASE i = n + 1
    <3>1. i - 1 = n /\ n \in 0..n
      BY <1>1, <2>1
    <3> QED BY <1>2, <1>3, <1>7, <2>1, <3>1
  <2>2. CASE i # n + 1
    <3>1. i \in 1..n /\ i \in 0..n /\ i - 1 \in 0..n
      BY <1>1, <2>2
    <3> QED BY <1>2, <1>3, <1>7, <3>1
  <2> QED BY <2>1, <2>2
<1>9. h[0] = a
  <2>1. 0 \in 0..n
    BY <1>1
  <2> QED BY <1>3, <1>7, <2>1
<1>10. \E e \in [0..(n + 1) -> 0..c] :
         /\ e[0] = a /\ e[n + 1] = c
         /\ \A i \in 1..(n + 1) : Moves(Append(f, p)[i], e[i - 1], e[i])
  BY <1>6, <1>7, <1>8, <1>9
<1> QED BY <1>2, <1>10 DEF Carries

LEMMA CarriesNext ==
  ASSUME NEW P, NEW f \in Seq(P), f # <<>>, NEW a \in Nat, NEW b \in Nat, Carries(f, a, b)
  PROVE  \E c \in Nat : Moves(Head(f), a, c) /\ Carries(Tail(f), c, b)
<1> DEFINE n == Len(f) - 1
<1>1. /\ n \in Nat /\ Len(f) = n + 1 /\ Len(Tail(f)) = n /\ Head(f) = f[1]
      /\ \A i \in 1..n : Tail(f)[i] = f[i + 1]
  BY HeadTailProperties
<1> HIDE DEF n
<1>2. PICK g \in [0..(n + 1) -> 0..b] :
        g[0] = a /\ g[n + 1] = b /\ \A i \in 1..(n + 1) : Moves(f[i], g[i - 1], g[i])
  BY <1>1 DEF Carries
<1> DEFINE h == [i \in 0..n |-> g[i + 1]]
<1>3. \A i \in 0..n : i + 1 \in 0..(n + 1)
  BY <1>1
<1>4. h \in [0..n -> 0..b] /\ h[0] = g[1] /\ h[n] = b
  <2>1. 0 \in 0..n /\ n \in 0..n
    BY <1>1
  <2>2. \A i \in 0..n : h[i] = g[i + 1]
    OBVIOUS
  <2>3. h \in [0..n -> 0..b]
    BY <1>3
  <2> QED BY <1>2, <2>1, <2>2, <2>3
<1>5. ASSUME NEW i \in 1..n
      PROVE  Moves(Tail(f)[i], h[i - 1], h[i])
  <2>1. i \in 0..n /\ i - 1 \in 0..n /\ i + 1 \in 1..(n + 1) /\ (i + 1) - 1 = i /\ (i - 1) + 1 = i
    BY <1>1
  <2>2. h[i - 1] = g[i] /\ h[i] = g[i + 1]
    BY <2>1
  <2> QED BY <1>1, <1>2, <2>1, <2>2
<1> HIDE DEF h
<1>6. Carries(Tail(f), g[1], b)
  BY <1>1, <1>4, <1>5 DEF Carries
<1>7. Moves(Head(f), a, g[1]) /\ g[1] \in Nat
  <2>1. 1 \in 1..(n + 1) /\ 1 \in 0..(n + 1) /\ 1 - 1 = 0
    BY <1>1
  <2> QED BY <1>1, <1>2, <2>1
<1> QED BY <1>6, <1>7

LEMMA CarriesUp ==
  ASSUME NEW P, NEW f \in Seq(P), NEW a \in Nat, NEW b \in Nat, Carries(f, a, b)
  PROVE  a <= b
<1>1. Len(f) \in Nat
  OBVIOUS
<1>2. 0 \in 0..Len(f)
  BY <1>1
<1> QED BY <1>2 DEF Carries

(* A row between is the row of a message.                                  *)
LEMMA CarriesRow ==
  ASSUME NEW P, NEW f \in Seq(P), NEW a \in Nat, NEW b \in Nat, Carries(f, a, b),
         NEW r \in Nat, a < r, r <= b
  PROVE  \E k \in DOMAIN f : f[k].t = "msg" /\ f[k].id = r
<1> DEFINE n == Len(f)
<1>1. n \in Nat /\ DOMAIN f = 1..n
  OBVIOUS
<1>2. PICK g \in [0..n -> 0..b] :
        g[0] = a /\ g[n] = b /\ \A i \in 1..n : Moves(f[i], g[i - 1], g[i])
  BY DEF Carries
<1> HIDE DEF n
<1> DEFINE I == {i \in 0..n : r <= g[i]}
<1>3. n \in I
  BY <1>1, <1>2
<1>4. I \in SUBSET Nat
  BY <1>1
<1>5. PICK i \in I : \A x \in I : i <= x
  <2> HIDE DEF I
  <2> QED BY <1>3, <1>4, LeastNat
<1>6. i \in 0..n /\ r <= g[i] /\ i # 0
  BY <1>2
<1>7. i \in 1..n /\ i - 1 \in 0..n /\ ~(i <= i - 1)
  BY <1>1, <1>6
<1>8. i - 1 \notin I
  <2> HIDE DEF I
  <2> QED BY <1>5, <1>7
<1>9. ~(r <= g[i - 1])
  BY <1>7, <1>8
<1>10. g[i] \in Nat /\ g[i - 1] \in Nat /\ Moves(f[i], g[i - 1], g[i])
  BY <1>2, <1>6, <1>7
<1>11. f[i].t = "msg" /\ g[i] = g[i - 1] + 1 /\ f[i].id = g[i]
  BY <1>6, <1>9, <1>10 DEF Moves
<1>12. f[i].id = r
  BY <1>6, <1>9, <1>10, <1>11
<1> QED BY <1>1, <1>7, <1>11, <1>12

(* What the merges do to an interval: ends of one, and its parts.          *)
LEMMA SolidHas ==
  ASSUME NEW S, Solid(S), NEW a \in S, NEW b \in S, NEW r \in Nat, a <= r, r <= b,
         \A x \in S : x \in Nat
  PROVE  r \in S
BY DEF Solid

MergeLatest(rows, page) == MergeOlder(rows, page, TRUE)
MergeBefore(rows, page) == MergeOlder(rows, page, FALSE)

(* The newest page ends at h, where the slice ends too or below.           *)
LEMMA NewestLands ==
  ASSUME NEW h \in Nat, NEW rows \in SUBSET (1..h), NEW page \in SUBSET (1..h),
         Solid(rows), Solid(page), h # 0 => h \in page, NEW m,
         m = MergeLatest(rows, page)
  PROVE  /\ m.reachedNewest /\ m.rows \in SUBSET (1..h) /\ Solid(m.rows)
         /\ h # 0 => h \in m.rows
         /\ (rows # {} => h \in rows) \/ page = {} \/ 1 \in page => rows \subseteq m.rows
<1>1. \A x \in 1..h : x \in Nat /\ 1 <= x /\ x <= h
  OBVIOUS
<1>2. CASE page = {}
  <2>1. h = 0 /\ rows = {}
    BY <1>2
  <2>2. m.rows = {} /\ m.reachedNewest
    BY <1>2 DEF MergeLatest, MergeOlder, Merged
  <2> QED BY <2>1, <2>2 DEF Solid
<1>3. CASE page # {} /\ (rows = {} \/ Oldest(page) > Newest(rows))
  <2>2. m.rows = page /\ m.reachedNewest
    BY <1>3 DEF MergeLatest, MergeOlder, Merged
  <2>3. h # 0 /\ h \in page /\ Oldest(page) \in page /\ \A x \in page : Oldest(page) <= x
    BY <1>1, <1>3, OldestIs
  <2>4. \A x \in rows : x <= Newest(rows)
    BY NewestIs
  <2>5. h \notin rows
    <3>1. ASSUME h \in rows PROVE FALSE
      <4>1. Oldest(page) > Newest(rows) /\ h <= Newest(rows) /\ Oldest(page) <= h
        BY <1>3, <2>3, <2>4, <3>1
      <4>2. Oldest(page) \in Nat /\ Newest(rows) \in 0..h
        BY <1>1, <2>3, NewestIs
      <4> QED BY <4>1, <4>2
    <3> QED BY <3>1
  <2>6. 1 \in page => \A r \in 1..h : r \in page
    BY <2>3, <1>1, SolidHas
  <2> QED BY <2>2, <2>3, <2>5, <2>6, <1>3
<1>4. CASE page # {} /\ rows # {} /\ ~(Oldest(page) > Newest(rows))
  <2> DEFINE lo == Oldest(page)
             hi == Newest(rows \cup page)
             new == Refresh(rows, page, lo, hi)
  <2>2. m.rows = new /\ m.reachedNewest
    BY <1>4 DEF MergeLatest, MergeOlder, Merged
  <2>3. h # 0 /\ h \in page /\ lo \in page /\ \A x \in page : lo <= x
    BY <1>1, <1>4, OldestIs
  <2>4. rows \cup page \in SUBSET (1..h)
    OBVIOUS
  <2>5. hi = h
    <3>1. hi \in 0..h /\ \A x \in rows \cup page : x <= hi
      BY <2>4, NewestIs
    <3> HIDE DEF hi
    <3> QED BY <2>3, <3>1
  <2>6. Newest(rows) \in rows /\ \A x \in rows : x <= Newest(rows)
    BY <1>4, NewestIs
  <2>7. lo <= Newest(rows)
    <3>1. lo \in Nat /\ Newest(rows) \in Nat /\ ~(lo > Newest(rows))
      BY <1>1, <1>4, <2>3, <2>6
    <3> QED BY <3>1
  <2> HIDE DEF lo, hi
  <2>8. new = {r \in rows : r < lo} \cup page
    <3>1. \A r \in rows : ~(r > hi)
      BY <1>1, <2>5
    <3> QED BY <3>1 DEF Refresh
  <2>9. \A r \in Nat : lo <= r /\ r <= h => r \in page
    BY <1>1, <2>3, SolidHas
  <2>10. \A r \in rows : r \in new
    BY <1>1, <2>3, <2>8, <2>9
  <2>11. new \in SUBSET (1..h) /\ h \in new
    BY <2>3, <2>8
  <2>12. Solid(new)
    <3> SUFFICES ASSUME NEW a \in new, NEW b \in new, NEW r \in Nat, a < r, r < b
                 PROVE  r \in new
      BY DEF Solid
    <3>1. a \in Nat /\ b \in Nat /\ b <= h /\ lo \in Nat /\ r <= h
      BY <1>1, <2>3, <2>11
    <3>2. CASE lo <= r
      BY <2>8, <2>9, <3>1, <3>2
    <3>3. CASE r < lo
      <4>1. a \in rows
        BY <2>3, <2>8, <3>1, <3>3
      <4>2. r < Newest(rows)
        <5>1. Newest(rows) \in Nat
          BY <1>1, <2>6
        <5> QED BY <2>7, <3>1, <3>3, <5>1
      <4>3. r \in rows
        BY <2>6, <4>1, <4>2 DEF Solid
      <4> QED BY <2>10, <4>3
    <3> QED BY <3>1, <3>2, <3>3
  <2> QED BY <2>2, <2>10, <2>11, <2>12
<1> QED BY <1>2, <1>3, <1>4

(* An older page ends below one of the slice's rows.                       *)
LEMMA OlderLands ==
  ASSUME NEW h \in Nat, NEW rows \in SUBSET (1..h), NEW page \in SUBSET (1..h),
         Solid(rows), Solid(page), NEW cur \in rows,
         \A r \in page : r < cur /\ cur - 1 \in page, NEW m,
         m = MergeBefore(rows, page)
  PROVE  /\ ~m.reachedNewest /\ m.rows = rows \cup page /\ Solid(m.rows)
<1>1. \A x \in 1..h : x \in Nat /\ 1 <= x /\ x <= h
  OBVIOUS
<1>2. Newest(rows) \in rows /\ \A x \in rows : x <= Newest(rows)
  BY NewestIs
<1>3. CASE page = {}
  <2>1. m.rows = rows /\ ~m.reachedNewest
    BY <1>3 DEF MergeBefore, MergeOlder, Merged
  <2> QED BY <2>1, <1>3
<1>4. CASE page # {}
  <2> DEFINE lo == Oldest(page)
             hi == Newest(page)
             new == Refresh(rows, page, lo, hi)
  <2>1. /\ lo \in page /\ hi \in page /\ \A x \in page : lo <= x /\ x <= hi
    BY <1>4, NewestIs, OldestIs
  <2>2. hi = cur - 1 /\ cur \in Nat /\ lo \in Nat /\ hi \in Nat /\ Newest(rows) \in Nat
    <3>1. cur \in Nat /\ lo \in Nat /\ hi \in Nat /\ Newest(rows) \in Nat
      BY <1>1, <1>2, <2>1
    <3>2. hi < cur /\ cur - 1 <= hi
      BY <2>1
    <3> QED BY <3>1, <3>2
  <2>3. cur <= Newest(rows)
    BY <1>2
  <2>4. ~(lo > Newest(rows)) /\ ~(hi >= Newest(rows)) /\ rows # {}
    BY <1>1, <2>1, <2>2, <2>3
  <2>6. m.rows = new /\ ~m.reachedNewest
    <3>1. m.rows = new /\ (m.reachedNewest <=> hi >= Newest(rows))
      BY <1>4, <2>4 DEF MergeBefore, MergeOlder, Merged
    <3> QED BY <2>4, <3>1
  <2> HIDE DEF lo, hi
  <2>7. \A r \in Nat : lo <= r /\ r <= hi => r \in page
    BY <1>1, <2>1, SolidHas
  <2>8. new = rows \cup page
    <3>1. \A r \in rows : r < lo \/ r > hi \/ r \in page
      BY <1>1, <2>2, <2>7
    <3> QED BY <3>1 DEF Refresh
  <2> HIDE DEF new
  <2>9. Solid(rows \cup page)
    <3> SUFFICES ASSUME NEW a \in rows \cup page, NEW b \in rows \cup page, NEW r \in Nat,
                        a < r, r < b
                 PROVE  r \in rows \cup page
      BY DEF Solid
    <3>1. a \in Nat /\ b \in Nat
      BY <1>1
    <3>2. CASE r \in rows \cup page
      BY <3>2
    <3>3. CASE cur < r
      <4>1. b \in rows
        BY <1>1, <3>1, <3>3, <2>2
      <4> QED BY <3>3, <4>1 DEF Solid
    <3>4. CASE r = cur
      BY <3>4
    <3>5. CASE r < cur
      <4>1. r <= hi
        BY <2>2, <3>5
      <4>2. CASE lo <= r
        BY <2>7, <4>1, <4>2
      <4>3. CASE ~(lo <= r)
        <5>1. a \in rows
          BY <2>1, <2>2, <3>1, <4>3
        <5> QED BY <3>5, <5>1 DEF Solid
      <4> QED BY <4>2, <4>3
    <3> QED BY <2>2, <3>3, <3>4, <3>5
  <2> QED BY <2>6, <2>8, <2>9
<1> QED BY <1>3, <1>4

(* A page from a row up: merged if the slice reaches that row.             *)
LEMMA NewerLands ==
  ASSUME NEW h \in Nat, NEW rows \in SUBSET (1..h), NEW page \in SUBSET (1..h),
         Solid(rows), Solid(page), NEW cur \in Nat, NEW newer \in BOOLEAN,
         \A r \in page : cur < r /\ cur + 1 \in page,
         ~newer /\ cur < h => h \in page, NEW m,
         m = MergeNewer(rows, page, cur)
  PROVE  /\ rows \subseteq m.rows /\ m.rows \in SUBSET (1..h) /\ Solid(m.rows)
         /\ m.applied => rows # {} /\ (~newer => h \in m.rows)
         /\ m.applied \in BOOLEAN /\ (~m.applied => m.rows = rows)
<1>1. \A x \in 1..h : x \in Nat /\ 1 <= x /\ x <= h
  OBVIOUS
<1> DEFINE old == Oldest(rows)
           new == {r \in page : r >= old}
           lo == IF cur + 1 > old THEN cur + 1 ELSE old
<1>2. m = IF rows = {} \/ cur > Newest(rows) THEN Merged(rows, FALSE, FALSE, FALSE)
          ELSE IF new = {} THEN Merged(rows, TRUE, FALSE, FALSE)
          ELSE Merged(Refresh(rows, new, lo, Newest(new)), TRUE, FALSE, FALSE)
  BY DEF MergeNewer
<1>3. CASE rows = {} \/ cur > Newest(rows)
  <2>2. m.rows = rows /\ m.applied = FALSE
    BY <1>2, <1>3 DEF Merged
  <2> QED BY <2>2
<1>4. CASE rows # {} /\ ~(cur > Newest(rows))
  <2>1. /\ Newest(rows) \in rows /\ \A x \in rows : x <= Newest(rows)
        /\ old \in rows /\ \A x \in rows : old <= x
    BY <1>4, NewestIs, OldestIs
  <2>2. old \in Nat /\ Newest(rows) \in Nat /\ cur <= Newest(rows) /\ Newest(rows) <= h /\ old <= h
    <3>1. old \in Nat /\ Newest(rows) \in Nat /\ Newest(rows) <= h /\ old <= h
      BY <1>1, <2>1
    <3> QED BY <1>4, <3>1
  <2>3. ~newer => h \in rows \/ h \in new
    <3> SUFFICES ASSUME ~newer, h \notin rows PROVE h \in new
      OBVIOUS
    <3>1. Newest(rows) # h
      BY <2>1
    <3>2. cur < h
      BY <2>2, <3>1
    <3> QED BY <2>2, <3>2
  <2> HIDE DEF old, lo
  <2>4. CASE new = {}
    <3>2. ~newer => h \in rows
      BY <2>3, <2>4
    <3>3. m.rows = rows /\ m.applied = TRUE
      BY <1>2, <1>4, <2>4 DEF Merged
    <3> QED BY <1>4, <3>2, <3>3
  <2>5. CASE new # {}
    <3> DEFINE hi == Newest(new)
               all == Refresh(rows, new, lo, hi)
    <3>1. m = Merged(all, TRUE, FALSE, FALSE)
      BY <1>2, <1>4, <2>5
    <3>2. m.rows = all /\ m.applied = TRUE
      <4> HIDE DEF all
      <4> QED BY <3>1 DEF Merged
    <3>3. new \in SUBSET (1..h) /\ new \in SUBSET page
      OBVIOUS
    <3> HIDE DEF new
    <3>4. hi \in new /\ (\A x \in new : x <= hi) /\ hi \in Nat
      BY <1>1, <2>5, <3>3, NewestIs
    <3> HIDE DEF hi
    <3>5. lo \in Nat /\ lo > cur /\ old <= lo /\ (lo = cur + 1 \/ lo = old)
      BY <2>2 DEF lo
    <3>6. lo \in page \/ lo = old
      BY <3>3, <3>4, <3>5
    <3>7. \A r \in Nat : lo <= r /\ r <= hi => r \in new
      <4> SUFFICES ASSUME NEW r \in Nat, lo <= r, r <= hi PROVE r \in new
        OBVIOUS
      <4>1. cur + 1 \in page /\ cur + 1 <= r /\ hi \in page
        BY <3>3, <3>4, <3>5
      <4>2. r \in page
        BY <1>1, <3>4, <4>1, SolidHas
      <4>3. r >= old
        BY <2>2, <3>5
      <4> QED BY <4>2, <4>3 DEF new
    <3>8. all = rows \cup new
      <4>1. \A r \in rows : r < lo \/ r > hi \/ r \in new
        BY <1>1, <3>4, <3>5, <3>7
      <4> QED BY <4>1 DEF Refresh
    <3> HIDE DEF all
    <3>9. lo <= Newest(rows) + 1
      BY <2>1, <2>2, <3>5
    <3>10. Solid(rows \cup new)
      <4> SUFFICES ASSUME NEW a \in rows \cup new, NEW b \in rows \cup new, NEW r \in Nat,
                          a < r, r < b
                   PROVE  r \in rows \cup new
        BY DEF Solid
      <4>1. a \in Nat /\ b \in Nat /\ old <= a
        <5>1. \A x \in new : old <= x
          BY <1>1, <2>2 DEF new
        <5> QED BY <1>1, <2>1, <3>3, <5>1
      <4>2. CASE r <= Newest(rows)
        <5>1. old <= r /\ \A x \in rows : x \in Nat
          BY <1>1, <2>2, <4>1
        <5> QED BY <2>1, <4>2, <5>1, SolidHas
      <4>3. CASE ~(r <= Newest(rows))
        <5>1. b \in new /\ b <= hi
          BY <2>1, <2>2, <3>4, <4>1, <4>3
        <5>2. lo <= r /\ r <= hi
          BY <2>2, <3>4, <3>5, <3>9, <4>1, <4>3, <5>1
        <5> QED BY <3>7, <5>2
      <4> QED BY <4>2, <4>3
    <3> QED BY <1>4, <2>3, <3>2, <3>3, <3>8, <3>10
  <2> QED BY <2>4, <2>5
<1> QED BY <1>3, <1>4

-----------------------------------------------------------------------------
(* The elements of a queue that gets one more, or loses one.               *)
LEMMA AppendEach ==
  ASSUME NEW P, NEW f \in Seq(P), NEW e
  PROVE  /\ \A k \in DOMAIN Append(f, e) :
              (k \in DOMAIN f /\ Append(f, e)[k] = f[k])
                \/ (k = Len(f) + 1 /\ Append(f, e)[k] = e)
         /\ \A k \in DOMAIN f : k \in DOMAIN Append(f, e) /\ Append(f, e)[k] = f[k]
         /\ Len(f) + 1 \in DOMAIN Append(f, e) /\ Append(f, e)[Len(f) + 1] = e
         /\ Len(f) + 1 \notin DOMAIN f
<1> DEFINE Q == P \cup {e}
<1>1. P \subseteq Q /\ e \in Q
  OBVIOUS
<1> HIDE DEF Q
<1>2. f \in Seq(Q)
  BY <1>1
<1>3. /\ Len(f) \in Nat /\ DOMAIN f = 1..Len(f) /\ DOMAIN Append(f, e) = 1..(Len(f) + 1)
      /\ Append(f, e)[Len(f) + 1] = e
      /\ \A i \in 1..Len(f) : Append(f, e)[i] = f[i]
  BY <1>1, <1>2, AppendProperties
<1>4. \A k \in 1..(Len(f) + 1) : k \in 1..Len(f) \/ k = Len(f) + 1
  BY <1>3
<1>5. /\ \A k \in 1..Len(f) : k \in 1..(Len(f) + 1)
      /\ Len(f) + 1 \in 1..(Len(f) + 1) /\ Len(f) + 1 \notin 1..Len(f)
  BY <1>3
<1> QED BY <1>3, <1>4, <1>5

LEMMA TailEach ==
  ASSUME NEW P, NEW f \in Seq(P), f # <<>>
  PROVE  /\ 1 \in DOMAIN f /\ Head(f) = f[1]
         /\ \A k \in DOMAIN Tail(f) : k + 1 \in DOMAIN f /\ k + 1 # 1 /\ Tail(f)[k] = f[k + 1]
         /\ \A k \in DOMAIN f : k = 1 \/ \E i \in DOMAIN Tail(f) : Tail(f)[i] = f[k]
<1>1. /\ Len(Tail(f)) = Len(f) - 1 /\ Len(f) \in Nat /\ Len(f) >= 1 /\ DOMAIN f = 1..Len(f)
      /\ \A i \in 1..(Len(f) - 1) : Tail(f)[i] = f[i + 1]
      /\ Head(f) = f[1]
  BY HeadTailProperties
<1>2. DOMAIN Tail(f) = 1..(Len(f) - 1)
  <2>1. Tail(f) \in Seq(P)
    BY HeadTailProperties
  <2> QED BY <1>1, <2>1
<1>3. \A k \in 1..(Len(f) - 1) : k + 1 \in 1..Len(f) /\ k + 1 # 1
  BY <1>1
<1>4. \A k \in 1..Len(f) : k = 1 \/ (k - 1 \in 1..(Len(f) - 1) /\ (k - 1) + 1 = k)
  BY <1>1
<1>5. \A k \in 1..Len(f) : k = 1 \/ Tail(f)[k - 1] = f[k]
  BY <1>1, <1>4
<1>6. 1 \in 1..Len(f)
  BY <1>1
<1> QED BY <1>1, <1>2, <1>3, <1>4, <1>5, <1>6

LEMMA RemovedEach ==
  ASSUME NEW P, NEW f \in Seq(P), NEW i \in DOMAIN f
  PROVE  /\ RemoveAt(f, i) \in Seq(P)
         /\ \A k \in DOMAIN RemoveAt(f, i) :
              \E j \in DOMAIN f : j # i /\ RemoveAt(f, i)[k] = f[j] /\ j = IF k < i THEN k ELSE k + 1
         /\ \A j \in DOMAIN f : j # i => \E k \in DOMAIN RemoveAt(f, i) : RemoveAt(f, i)[k] = f[j]
         /\ DOMAIN RemoveAt(f, i) \in SUBSET Nat /\ i \in Nat
<1> DEFINE n == Len(f)
           r == RemoveAt(f, i)
<1>1. n \in Nat /\ DOMAIN f = 1..n /\ i \in 1..n
  OBVIOUS
<1>2. /\ r \in Seq(P) /\ Len(r) = n - 1
      /\ \A j \in 1..(n - 1) : r[j] = IF j < i THEN f[j] ELSE f[j + 1]
  BY <1>1, RemoveAtIs
<1> HIDE DEF n, r
<1>3. DOMAIN r = 1..(n - 1)
  BY <1>1, <1>2
<1>4. ASSUME NEW k \in 1..(n - 1)
      PROVE  \E j \in 1..n : j # i /\ r[k] = f[j] /\ j = IF k < i THEN k ELSE k + 1
  <2>1. CASE k < i
    <3>1. k \in 1..n /\ k # i /\ r[k] = f[k]
      BY <1>1, <1>2, <2>1
    <3> QED BY <2>1, <3>1
  <2>2. CASE ~(k < i)
    <3>1. k + 1 \in 1..n /\ k + 1 # i /\ r[k] = f[k + 1]
      BY <1>1, <1>2, <2>2
    <3> QED BY <2>2, <3>1
  <2> QED BY <2>1, <2>2
<1>5. ASSUME NEW j \in 1..n, j # i
      PROVE  \E k \in 1..(n - 1) : r[k] = f[j]
  <2>1. CASE j < i
    <3>1. j \in 1..(n - 1) /\ r[j] = f[j]
      BY <1>1, <1>2, <2>1
    <3> QED BY <3>1
  <2>2. CASE ~(j < i)
    <3>1. j - 1 \in 1..(n - 1) /\ ~(j - 1 < i) /\ (j - 1) + 1 = j
      BY <1>1, <1>5, <2>2
    <3>2. r[j - 1] = f[j]
      BY <1>2, <3>1
    <3> QED BY <3>1, <3>2
  <2> QED BY <2>1, <2>2
<1>6. \A k \in 1..(n - 1) : k \in Nat
  OBVIOUS
<1>7. /\ \A k \in DOMAIN r : \E j \in DOMAIN f : j # i /\ r[k] = f[j] /\ j = IF k < i THEN k ELSE k + 1
      /\ \A j \in DOMAIN f : j # i => \E k \in DOMAIN r : r[k] = f[j]
  BY <1>1, <1>3, <1>4, <1>5, Zenon
<1>8. r \in Seq(P) /\ DOMAIN r \in SUBSET Nat /\ i \in Nat
  BY <1>1, <1>2, <1>3, <1>6
<1> QED BY <1>7, <1>8 DEF r

-----------------------------------------------------------------------------
(* Older pages that are due, asked for or on their way.                    *)
LowIn(f) ==
  {r \in Nat : \E k \in DOMAIN f : f[k].t = "page" /\ f[k].mode = "before" /\ f[k].cur = r}
LowAsked(a) ==
  {r \in Nat : \E k \in DOMAIN a : a[k].t = "page" /\ a[k].mode = "before" /\ a[k].id = r}
Lows(c, j, w) == LowIn(j) \cup LowIn(w) \cup LowAsked(c.asks)

(* The connection is back, and authentication has not been read yet.       *)
BackIn(w) == \E k \in DOMAIN w : w[k].t = "auth"

(* Nothing but sends and pages is asked for.                               *)
Getting(e) ==
  \/ e.t = "send"
  \/ e.t = "page" /\ e.limit # 0 /\ e.mode # "around" /\ (Calm \/ Total <= e.limit)
Gets(a) == \A k \in DOMAIN a : Getting(a[k])

(* The slice is an interval, up to the newest row h that was read when the *)
(* client says so.                                                         *)
Seated(c, h, away) ==
  /\ c.rows \subseteq 1..h /\ c.held \subseteq 1..h
  /\ Solid(c.rows) /\ c.deleting = {} /\ (c.rows # {} => c.cached)
  /\ ~c.newer /\ c.rows # {} /\ ~away => h \in c.rows

(* An older page ends at a row of the slice.                               *)
Ready(c, j, w) == Lows(c, j, w) \subseteq c.rows /\ Gets(c.asks)

(* No row below the slice is asked for, where the slice may be dropped.    *)
Placed(c, j, w, u) ==
  /\ Calm => u /\ ~BackIn(w) /\ ~c.newer
  /\ ~Calm => ~c.older /\ Lows(c, j, w) = {}

(* Nothing is asked for that would break this.                             *)
Eases(a, b) == LowAsked(b) \subseteq LowAsked(a) /\ (Gets(a) => Gets(b))
Harmless(e) == Getting(e) /\ (e.t = "page" => e.mode # "before")

LEMMA EasesSelf ==
  /\ \A a : Eases(a, a)
  /\ \A a, b, c : Eases(a, b) /\ Eases(b, c) => Eases(a, c)
  /\ \A a : Eases(a, <<>>)
<1>1. \A a : Eases(a, a)
  BY DEF Eases
<1>2. \A a, b, c : Eases(a, b) /\ Eases(b, c) => Eases(a, c)
  BY DEF Eases
<1>3. DOMAIN <<>> = {}
  OBVIOUS
<1>4. LowAsked(<<>>) = {} /\ Gets(<<>>)
  BY <1>3 DEF LowAsked, Gets
<1> QED BY <1>1, <1>2, <1>4 DEF Eases

LEMMA EasesMore ==
  ASSUME NEW a \in Seq(Asks), NEW e, Harmless(e)
  PROVE  Eases(a, Append(a, e))
<1> DEFINE b == Append(a, e)
<1>1. \A k \in DOMAIN b : (k \in DOMAIN a /\ b[k] = a[k]) \/ b[k] = e
  BY AppendEach
<1> HIDE DEF b
<1>2. LowAsked(b) \subseteq LowAsked(a)
  BY <1>1 DEF LowAsked, Harmless
<1>4. Gets(a) => Gets(b)
  BY <1>1 DEF Gets, Harmless
<1> QED BY <1>2, <1>4 DEF Eases, b

(* A request that was read by the server.                                  *)
LEMMA EasesTail ==
  ASSUME NEW a \in Seq(Asks), a # <<>>
  PROVE  Eases(a, Tail(a))
<1> DEFINE b == Tail(a)
<1>1. \A k \in DOMAIN b : \E i \in DOMAIN a : b[k] = a[i]
  BY TailEach
<1> HIDE DEF b
<1>2. LowAsked(b) \subseteq LowAsked(a)
  BY <1>1 DEF LowAsked
<1>4. Gets(a) => Gets(b)
  BY <1>1 DEF Gets
<1> QED BY <1>2, <1>4 DEF Eases, b

LEMMA EasesAll ==
  ASSUME NEW a \in Seq(Asks), NEW s \in Seq(Asks), \A k \in DOMAIN s : Harmless(s[k])
  PROVE  Eases(a, a \o s)
<1> DEFINE b == a \o s
<1>1. \A k \in DOMAIN b : (k \in DOMAIN a /\ b[k] = a[k]) \/ \E i \in DOMAIN s : b[k] = s[i]
  <2>1. /\ b \in Seq(Asks) /\ Len(b) = Len(a) + Len(s) /\ Len(a) \in Nat /\ Len(s) \in Nat
        /\ \A i \in 1..(Len(a) + Len(s)) : b[i] = IF i <= Len(a) THEN a[i] ELSE s[i - Len(a)]
    BY ConcatProperties
  <2> HIDE DEF b
  <2>2. ASSUME NEW k \in 1..(Len(a) + Len(s))
        PROVE  (k \in DOMAIN a /\ b[k] = a[k]) \/ \E i \in DOMAIN s : b[k] = s[i]
    <3>1. CASE k <= Len(a)
      BY <2>1, <3>1
    <3>2. CASE ~(k <= Len(a))
      <4>1. k - Len(a) \in 1..Len(s) /\ b[k] = s[k - Len(a)]
        BY <2>1, <3>2
      <4> QED BY <4>1
    <3> QED BY <3>1, <3>2
  <2>3. DOMAIN b = 1..(Len(a) + Len(s))
    BY <2>1
  <2> QED BY <2>2, <2>3
<1> HIDE DEF b
<1>2. LowAsked(b) \subseteq LowAsked(a)
  BY <1>1 DEF LowAsked, Harmless
<1>4. Gets(a) => Gets(b)
  BY <1>1 DEF Gets, Harmless
<1> QED BY <1>2, <1>4 DEF Eases, b

(* An older page is asked for.                                             *)
LEMMA LowAsks ==
  ASSUME NEW a \in Seq(Asks), NEW e, e.t = "page", e.mode = "before", Getting(e)
  PROVE  /\ LowAsked(Append(a, e)) \subseteq LowAsked(a) \cup {e.id}
         /\ Gets(a) => Gets(Append(a, e))
<1> DEFINE b == Append(a, e)
<1>1. \A k \in DOMAIN b : (k \in DOMAIN a /\ b[k] = a[k]) \/ b[k] = e
  BY AppendEach
<1> HIDE DEF b
<1>2. LowAsked(b) \subseteq LowAsked(a) \cup {e.id}
  BY <1>1 DEF LowAsked
<1>4. Gets(a) => Gets(b)
  BY <1>1 DEF Gets
<1> QED BY <1>2, <1>4 DEF b

(* The packets of a queue that gets one more, or loses one.                *)
LEMMA LaneMore ==
  ASSUME NEW P, NEW f \in Seq(P), NEW p
  PROVE  /\ \A r \in LowIn(Append(f, p)) :
              r \in LowIn(f) \/ (p.t = "page" /\ p.mode = "before" /\ p.cur = r)
         /\ BackIn(Append(f, p)) => BackIn(f) \/ p.t = "auth"
         /\ BackIn(f) => BackIn(Append(f, p))
<1> DEFINE g == Append(f, p)
<1>1. \A k \in DOMAIN g : (k \in DOMAIN f /\ g[k] = f[k]) \/ g[k] = p
  BY AppendEach
<1>0. \A k \in DOMAIN f : k \in DOMAIN g /\ g[k] = f[k]
  BY AppendEach
<1> HIDE DEF g
<1>5. BackIn(f) => BackIn(g)
  BY <1>0 DEF BackIn
<1>2. \A r \in LowIn(g) :
         r \in LowIn(f) \/ (p.t = "page" /\ p.mode = "before" /\ p.cur = r)
  BY <1>1 DEF LowIn
<1>4. BackIn(g) => BackIn(f) \/ p.t = "auth"
  BY <1>1 DEF BackIn
<1> QED BY <1>2, <1>4, <1>5 DEF g

LEMMA LaneLess ==
  ASSUME NEW P, NEW f \in Seq(P), f # <<>>
  PROVE  /\ LowIn(Tail(f)) \subseteq LowIn(f)
         /\ BackIn(Tail(f)) => BackIn(f)
         /\ Head(f).t = "page" /\ Head(f).mode = "before" /\ Head(f).cur \in Nat =>
               Head(f).cur \in LowIn(f)
         /\ Head(f).t = "auth" => BackIn(f)
<1> DEFINE g == Tail(f)
           p == Head(f)
<1>1. /\ \A k \in DOMAIN g : \E i \in DOMAIN f : g[k] = f[i]
      /\ 1 \in DOMAIN f /\ p = f[1]
  BY TailEach
<1> HIDE DEF g, p
<1>2. LowIn(g) \subseteq LowIn(f)
  BY <1>1 DEF LowIn
<1>4. BackIn(g) => BackIn(f)
  BY <1>1 DEF BackIn
<1>5. p.t = "page" /\ p.mode = "before" /\ p.cur \in Nat => p.cur \in LowIn(f)
  BY <1>1 DEF LowIn
<1>7. p.t = "auth" => BackIn(f)
  BY <1>1 DEF BackIn
<1> QED BY <1>2, <1>4, <1>5, <1>7 DEF g, p

LEMMA LaneNone == LowIn(<<>>) = {} /\ ~BackIn(<<>>)
<1>1. DOMAIN <<>> = {}
  OBVIOUS
<1> QED BY <1>1 DEF LowIn, BackIn

-----------------------------------------------------------------------------
(* A mutator that leaves the slice and the older pages alone.              *)
Keeps(c, d) ==
  /\ d.rows = c.rows /\ d.held \subseteq c.held /\ d.newer = c.newer
  /\ d.deleting = c.deleting /\ d.older = c.older /\ (c.cached => d.cached)
Stays(c, d) == Keeps(c, d) /\ Eases(c.asks, d.asks)

LEMMA StaysOn ==
  /\ \A c : Stays(c, c)
  /\ \A c, d, e : Stays(c, d) /\ Stays(d, e) => Stays(c, e)
<1>1. \A c : Stays(c, c)
  BY EasesSelf DEF Stays, Keeps
<1>2. ASSUME NEW c, NEW d, NEW e, Stays(c, d), Stays(d, e) PROVE Stays(c, e)
  <2>1. Eases(c.asks, e.asks)
    BY <1>2, EasesSelf DEF Stays
  <2>2. Keeps(c, e)
    BY <1>2 DEF Stays, Keeps
  <2> QED BY <2>1, <2>2 DEF Stays
<1> QED BY <1>1, <1>2

LEMMA StaysReady ==
  ASSUME NEW c, NEW d, Stays(c, d), NEW j, NEW w
  PROVE  /\ Ready(c, j, w) => Ready(d, j, w)
         /\ \A h, away : Seated(c, h, away) => Seated(d, h, away)
         /\ \A u : Placed(c, j, w, u) => Placed(d, j, w, u)
<1>1. Keeps(c, d) /\ LowAsked(d.asks) \subseteq LowAsked(c.asks) /\ (Gets(c.asks) => Gets(d.asks))
  BY DEF Stays, Eases
<1>2. Lows(d, j, w) \subseteq Lows(c, j, w)
  BY <1>1 DEF Lows
<1>3. Ready(c, j, w) => Ready(d, j, w)
  BY <1>1, <1>2 DEF Ready, Keeps
<1>4. \A h, away : Seated(c, h, away) => Seated(d, h, away)
  BY <1>1 DEF Seated, Keeps
<1>5. \A u : Placed(c, j, w, u) => Placed(d, j, w, u)
  BY <1>1, <1>2 DEF Placed, Keeps
<1> QED BY <1>3, <1>4, <1>5

(* Nothing is asked for.                                                   *)
LEMMA StaysAside ==
  ASSUME NEW c, NEW d, Keeps(c, d), d.asks = c.asks
  PROVE  Stays(c, d)
BY EasesSelf DEF Stays

(* A request that is not for rows below the slice.                         *)
LEMMA StaysTrack ==
  ASSUME NEW c, Sound(c), NEW r, Harmless(r), NEW w
  PROVE  Stays(c, Track(c, r, w))
<1> DEFINE d == Track(c, r, w)
<1>1. Keeps(c, d) /\ d.asks = Append(c.asks, r)
  BY DEF Track, Sound, Clients, Keeps
<1> HIDE DEF d
<1>2. c.asks \in Seq(Asks)
  BY DEF Sound, Clients
<1>3. Eases(c.asks, d.asks)
  BY <1>1, <1>2, EasesMore
<1>4. Stays(c, d)
  BY <1>1, <1>3 DEF Stays
<1> QED BY <1>4 DEF d

LEMMA WithdrawStays ==
  ASSUME NEW c, Sound(c), NEW n
  PROVE  Stays(c, Withdraw(c, n))
<1> DEFINE d == Withdraw(c, n)
<1>1. Keeps(c, d) /\ d.asks = c.asks
  BY DEF Withdraw, WithoutBubbles, Sound, Clients, Keeps
<1> HIDE DEF d
<1>2. Stays(c, d)
  BY <1>1, StaysAside
<1> QED BY <1>2 DEF d

LEMMA StageStays ==
  ASSUME NEW c, Sound(c), NEW n, NEW s
  PROVE  Stays(c, [c EXCEPT !.check[n] = s])
<1> DEFINE d == [c EXCEPT !.check[n] = s]
<1>1. Keeps(c, d) /\ d.asks = c.asks
  BY DEF Sound, Clients, Keeps
<1> HIDE DEF d
<1>2. Stays(c, d)
  BY <1>1, StaysAside
<1> QED BY <1>2 DEF d

LEMMA TotalNat == Total \in Nat
<1>1. IsFiniteSet(Sends) /\ OldRows \in Nat /\ MaxPosts \in Nat
  BY BoundsAssumption
<1>2. Cardinality(Sends) \in Nat
  BY <1>1, FS_CardinalityType
<1> QED BY <1>1, <1>2 DEF Total

(* A check asks for no fewer rows than are needed.                         *)
LEMMA CheckHarmless ==
  ASSUME Enough, NEW n \in Sends, NEW from \in Nat, NEW page \in 1..CheckPages
  PROVE  Harmless(Request(SinceMode(from), from, CheckLimit))
<1>1. /\ Request(SinceMode(from), from, CheckLimit).t = "page"
      /\ Request(SinceMode(from), from, CheckLimit).mode \in {"latest", "after"}
      /\ Request(SinceMode(from), from, CheckLimit).limit = CheckLimit
  BY CheckAsks
<1>2. CheckLimit # 0 /\ Sends # {}
  BY BoundsAssumption
<1> QED BY <1>1, <1>2 DEF Harmless, Getting, Enough, Whole

LEMMA AskSinceStays ==
  ASSUME Enough, NEW c, Sound(c), NEW n \in Sends, c.check[n] # "new", NEW from \in Nat,
         NEW page \in 1..CheckPages
  PROVE  Stays(c, AskSince(c, n, from, page))
<1> DEFINE d == [c EXCEPT !.check[n] = "asking"]
           r == Request(SinceMode(from), from, CheckLimit)
           w == CheckOn(n, from, page)
<1>1. Stays(c, d) /\ Sound(d)
  BY StageStays, CheckTo DEF To
<1>2. AskSince(c, n, from, page) = Track(d, r, w)
  BY DEF AskSince
<1>3. Harmless(r)
  BY CheckHarmless
<1> HIDE DEF d, r, w
<1>4. Stays(d, Track(d, r, w))
  BY <1>1, <1>3, StaysTrack
<1> QED BY <1>1, <1>2, <1>4, StaysOn

LEMMA CheckGoesOnStays ==
  ASSUME Enough, NEW c, Sound(c), NEW w \in Waits, w.by = "check", WaitOK(c, w),
         NEW reply \in Replies
  PROVE  Stays(c, CheckGoesOn(c, w, reply))
<1>1. w.arg \in Sends /\ c.check[w.arg] # "new" /\ reply.newest \in Nat
  BY DEF WaitOK, Replies
<1>2. w.page < CheckPages => w.page + 1 \in 1..CheckPages
  BY FirstPage DEF Waits
<1> QED BY <1>1, <1>2, StageStays, AskSinceStays, WithdrawStays DEF CheckGoesOn

(* The load of the newest page ends: what waited to be released is gone.   *)
LEMMA ResyncOverStays ==
  ASSUME NEW c, Sound(c)
  PROVE  Stays(c, ResyncOver(c))
<1> DEFINE e == [c EXCEPT !.resync = FALSE]
           s == SetResyncing(e, FALSE)
<1>1. e \in Clients(last) /\ Keeps(c, e) /\ e.asks = c.asks
  BY DEF Sound, Clients, Keeps
<1> HIDE DEF e
<1>2. Keeps(e, s) /\ s.asks = e.asks
  BY <1>1 DEF SetResyncing, Clients, Keeps
<1> HIDE DEF s
<1>3. Stays(c, e) /\ Stays(e, s)
  BY <1>1, <1>2, StaysAside
<1>4. ResyncOver(c) = s \/ ResyncOver(c) = c
  BY DEF ResyncOver, s, e
<1> QED BY <1>3, <1>4, StaysOn

LEMMA LoadEndsStays ==
  ASSUME NEW c, Sound(c)
  PROVE  Stays(c, LoadEnds(c)) /\ Sound(LoadEnds(c))
<1> DEFINE d == [c EXCEPT !.load = "idle", !.tries = 0, !.loading = FALSE]
<1>1. d \in Clients(last) /\ Keeps(c, d) /\ d.asks = c.asks /\ d.waits = c.waits /\ d.check = c.check
  BY DEF Sound, Clients, Keeps
<1>2. LoadEnds(c) = ResyncOver(d)
  BY DEF LoadEnds
<1> HIDE DEF d
<1>3. Sound(d) /\ Stays(c, d)
  BY <1>1, StaysAside DEF Sound, WaitsOK, WaitOK
<1>4. Stays(d, ResyncOver(d))
  BY <1>3, ResyncOverStays
<1>5. Sound(LoadEnds(c))
  BY LoadEndsTo DEF To
<1> QED BY <1>2, <1>3, <1>4, <1>5, StaysOn

(* The newest page is asked for.                                           *)
LEMMA AskLatestStays ==
  ASSUME Enough, NEW c, Sound(c)
  PROVE  Stays(c, Ask(c, "latest", 0, PageLimit, "latest", 0))
<1> DEFINE r == Request("latest", 0, PageLimit)
           w == WaitOn("latest", 0, "latest", 0)
<1>1. Harmless(r)
  BY BoundsAssumption DEF Request, Harmless, Getting, Enough, Whole
<1>2. Ask(c, "latest", 0, PageLimit, "latest", 0) = Track(c, r, w)
  BY DEF Ask
<1> HIDE DEF r, w
<1> QED BY <1>1, <1>2, StaysTrack

LEMMA LoadLatestStays ==
  ASSUME Enough, NEW c, Sound(c)
  PROVE  Stays(c, LoadLatest(c))
<1> DEFINE b == [c EXCEPT !.loading = TRUE, !.load = "asked"]
           a == Ask(b, "latest", 0, PageLimit, "latest", 0)
           e == LoadEnds(c)
           f == [e EXCEPT !.stuck = TRUE]
<1>1. \/ LoadLatest(c) = c \/ LoadLatest(c) = ResyncOver(c)
      \/ LoadLatest(c) = f \/ LoadLatest(c) = a
  BY DEF LoadLatest
<1>2. b \in Clients(last) /\ Keeps(c, b) /\ b.asks = c.asks /\ b.waits = c.waits /\ b.check = c.check
  BY DEF Sound, Clients, Keeps
<1> HIDE DEF b
<1>3. Sound(b) /\ Stays(c, b)
  BY <1>2, StaysAside DEF Sound, WaitsOK, WaitOK
<1>4. Stays(b, a)
  BY <1>3, AskLatestStays
<1> HIDE DEF a
<1>5. Stays(c, e) /\ Sound(e)
  BY LoadEndsStays
<1> HIDE DEF e
<1>6. Keeps(e, f) /\ f.asks = e.asks
  BY <1>5 DEF Sound, Clients, Keeps
<1> HIDE DEF f
<1>7. Stays(e, f)
  BY <1>6, StaysAside
<1> QED BY <1>1, <1>3, <1>4, <1>5, <1>7, ResyncOverStays, StaysOn

LEMMA ContinueStays ==
  ASSUME Enough, NEW c, Sound(c), NEW w \in Waits, WaitOK(c, w), NEW reply \in Replies
  PROVE  Stays(c, Continue(c, w, reply))
<1> DEFINE Near(d) == Keeps(c, d) /\ d.asks = c.asks
<1>0. /\ Near([c EXCEPT !.lastBefore = 0]) /\ Near([c EXCEPT !.lastAfter = 0])
      /\ Near([c EXCEPT !.jump = 0, !.loading = FALSE]) /\ Near([c EXCEPT !.load = "delay"])
  BY DEF Sound, Clients, Keeps
<1>1. ASSUME NEW d, Near(d) PROVE Stays(c, d)
  BY <1>1, StaysAside
<1> HIDE DEF Near
<1>2. Stays(c, c)
  BY StaysOn
<1>3. w.by \in {"latest", "older", "newer", "jump", "check"}
  BY DEF Waits
<1>4. CASE w.by = "latest"
  BY <1>4, <1>0, <1>1, LoadEndsStays DEF Continue
<1>5. CASE w.by = "older"
  BY <1>5, <1>0, <1>1, <1>2 DEF Continue
<1>6. CASE w.by = "newer"
  BY <1>6, <1>0, <1>1, <1>2 DEF Continue
<1>7. CASE w.by = "jump"
  BY <1>7, <1>0, <1>1, <1>2 DEF Continue
<1>8. CASE w.by = "check"
  BY <1>8, CheckGoesOnStays DEF Continue
<1> QED BY <1>3, <1>4, <1>5, <1>6, <1>7, <1>8

LEMMA JumpLandsStays ==
  ASSUME NEW c, Sound(c)
  PROVE  Stays(c, JumpLands(c))
<1> DEFINE d == [c EXCEPT !.jump = 0, !.bottom = FALSE]
<1>1. Keeps(c, d) /\ d.asks = c.asks
  BY DEF Sound, Clients, Keeps
<1>2. JumpLands(c) \in {c, d}
  BY DEF JumpLands
<1> HIDE DEF d
<1>3. Stays(c, d)
  BY <1>1, StaysAside
<1> QED BY <1>2, <1>3, StaysOn

LEMMA CheckServerStays ==
  ASSUME Enough, NEW c, Sound(c), NEW n \in Sends, c.check[n] # "new"
  PROVE  Stays(c, CheckServer(c, n))
<1>1. c.after[n] \in Nat
  BY DEF Sound, Clients
<1> QED BY <1>1, FirstPage, AskSinceStays, StageStays DEF CheckServer

(* A wait ends.                                                            *)
LEMMA WaitOut ==
  ASSUME NEW c, Sound(c), NEW i \in DOMAIN c.waits
  PROVE  LET d == [c EXCEPT !.waits = RemoveAt(c.waits, i)] IN
         /\ Sound(d) /\ c.waits[i] \in Waits /\ WaitOK(d, c.waits[i]) /\ Stays(c, d)
<1> DEFINE d == [c EXCEPT !.waits = RemoveAt(c.waits, i)]
<1>1. c.waits \in Seq(Waits)
  BY DEF Sound, Clients
<1>2. /\ RemoveAt(c.waits, i) \in Seq(Waits)
      /\ \A k \in DOMAIN RemoveAt(c.waits, i) :
            \E j \in DOMAIN c.waits : RemoveAt(c.waits, i)[k] = c.waits[j]
  BY <1>1, RemovedEach
<1>3. d \in Clients(last)
  BY <1>2 DEF Sound, Clients
<1>4. /\ Keeps(c, d) /\ d.asks = c.asks
      /\ d.waits = RemoveAt(c.waits, i) /\ d.check = c.check
  BY DEF Sound, Clients, Keeps
<1> HIDE DEF d
<1>5. WaitsOK(d)
  BY <1>2, <1>4 DEF Sound, WaitsOK, WaitOK
<1>6. c.waits[i] \in Waits /\ WaitOK(d, c.waits[i])
  BY <1>1, <1>4 DEF Sound, WaitsOK, WaitOK
<1>7. Stays(c, d)
  BY <1>4, StaysAside
<1> QED BY <1>3, <1>5, <1>6, <1>7 DEF Sound, d

LEMMA DoneStays ==
  ASSUME Enough, NEW c, Sound(c), NEW i \in DOMAIN c.waits, NEW reply \in Replies
  PROVE  Stays(c, Continue([c EXCEPT !.waits = RemoveAt(c.waits, i)], c.waits[i], reply))
<1> DEFINE d == [c EXCEPT !.waits = RemoveAt(c.waits, i)]
           w == c.waits[i]
<1>1. Sound(d) /\ w \in Waits /\ WaitOK(d, w) /\ Stays(c, d)
  BY WaitOut
<1> HIDE DEF d, w
<1>2. Stays(d, Continue(d, w, reply))
  BY <1>1, ContinueStays
<1>3. Stays(c, Continue(d, w, reply))
  BY <1>1, <1>2, StaysOn
<1> QED BY <1>3 DEF d, w

(* The wait that a page settles, if any.                                   *)
LEMMA SettleStays ==
  ASSUME Enough, NEW c, Sound(c), NEW p \in Packets(last), last \in Nat
  PROVE  Stays(c, Settle(c, p))
<1> DEFINE Test(w) == IF p.mode \in {"latest", "before"} THEN w.mode = "before"
                      ELSE w.mode = p.mode /\ w.cur = p.cur
           I == {j \in 1..Len(c.waits) : Test(c.waits[j])}
           i == IF I # {} THEN Min(I) ELSE 0
           reply == [answered |-> TRUE, newest |-> Newest(p.rows), newer |-> p.newer]
<1>1. Settle(c, p) = IF i = 0 THEN c
        ELSE Continue([c EXCEPT !.waits = RemoveAt(c.waits, i)], c.waits[i], reply)
  <2>1. SelectInSeq(c.waits, LAMBDA w :
             IF p.mode \in {"latest", "before"} THEN w.mode = "before"
                                                ELSE w.mode = p.mode /\ w.cur = p.cur) = i
    BY DEF SelectInSeq
  <2> QED BY <2>1 DEF Settle
<1>2. reply \in Replies
  <2>1. p.rows \in SUBSET (1..last)
    BY DEF Packets, Row
  <2>2. Newest(p.rows) \in 0..last
    BY <2>1, NewestIs
  <2>3. p.newer \in BOOLEAN /\ Newest(p.rows) \in Nat
    <3>1. p.newer \in BOOLEAN
      BY DEF Packets
    <3>2. \A x \in 0..last : x \in Nat
      OBVIOUS
    <3> QED BY <2>2, <3>1, <3>2
  <2> QED BY <2>3 DEF Replies
<1>3. i \in {0} \cup I
  <2>1. c.waits \in Seq(Waits) /\ I \in SUBSET (1..Len(c.waits))
    BY DEF Sound, Clients
  <2> HIDE DEF I
  <2>2. (IF I # {} THEN Min(I) ELSE 0) \in {0} \cup I
    BY <2>1, FirstOf
  <2> QED BY <2>2
<1>4. i = 0 \/ i \in DOMAIN c.waits
  <2>1. \A x \in I : x \in DOMAIN c.waits
    OBVIOUS
  <2> HIDE DEF i, I, Test
  <2> QED BY <1>3, <2>1
<1> HIDE DEF i, reply, Test
<1>5. CASE i = 0
  BY <1>1, <1>5, StaysOn
<1>6. CASE i \in DOMAIN c.waits
  BY <1>1, <1>2, <1>5, <1>6, DoneStays, StaysOn
<1> QED BY <1>4, <1>5, <1>6

-----------------------------------------------------------------------------
(* A page lands.                                                           *)

(* What a merge leaves alone.                                              *)
Merges(c, d) ==
  d.deleting = c.deleting /\ d.asks = c.asks

(* What is held is in the slice when the newest row is.                    *)
LEMMA ReleasesNothing ==
  ASSUME NEW e \in Clients(last), NEW h \in Nat, e.rows \subseteq 1..h, e.held \subseteq 1..h,
         h # 0 => h \in e.rows
  PROVE  LET d == ReleaseHeld(e) IN
         /\ Merges(e, d) /\ d.rows = e.rows /\ d.held = {} /\ d.newer = e.newer
         /\ d.cached = e.cached /\ d.older = e.older
<1> DEFINE rows == e.rows
           held == e.held
<1>1. rows \in SUBSET (1..h) /\ held \in SUBSET (1..h) /\ (h # 0 => h \in rows)
  OBVIOUS
<1> HIDE DEF rows, held
<1>2. \A x \in held : ~(x > Newest(rows))
  <2>1. \A x \in rows : x <= Newest(rows)
    BY <1>1, NewestIs
  <2>2. Newest(rows) \in Nat
    <3>1. Newest(rows) \in 0..h
      BY <1>1, NewestIs
    <3> QED BY <3>1
  <2>3. ASSUME NEW x \in held PROVE x \in Nat /\ x <= h /\ h \in rows /\ h <= Newest(rows)
    <3>1. x \in 1..h
      BY <1>1
    <3>2. h \in rows
      BY <1>1, <3>1
    <3> QED BY <2>1, <3>1, <3>2
  <2> QED BY <2>2, <2>3
<1>3. ApplyHeld(rows, held) = rows
  BY <1>2 DEF ApplyHeld
<1> DEFINE d == ReleaseHeld(e)
<1>4. d.rows = ApplyHeld(rows, held)
  BY DEF ReleaseHeld, WithoutBubbles, Clients, rows, held
<1>5. /\ d.held = {} /\ d.newer = e.newer /\ d.cached = e.cached /\ d.older = e.older
      /\ Merges(e, d)
  BY DEF ReleaseHeld, WithoutBubbles, Clients, Merges
<1> QED BY <1>3, <1>4, <1>5 DEF rows

LEMMA NewestSits ==
  ASSUME NEW c, Sound(c), NEW p \in Packets(last), NEW h \in Nat, NEW away, Seated(c, h, away),
         ~away, p.t = "page", p.mode = "latest", PageFits(p, h)
  PROVE  LET d == PrependHistory(c, p) IN
         /\ Merges(c, d) /\ Seated(d, h, away) /\ ~d.newer
         /\ ~c.newer => c.rows \subseteq d.rows
         /\ d.older => p.more \/ c.older
<1> DEFINE m == MergeOlder(c.rows, p.rows, TRUE)
           older == IF m.headExtended THEN p.more ELSE c.older
           base == WithoutBubbles(c, Settled(c, p.rows))
           e == [base EXCEPT !.rows = m.rows, !.cached = TRUE, !.older = older, !.newer = FALSE]
           rows == c.rows
           page == p.rows
<1>1. /\ rows \in SUBSET (1..h) /\ page \in SUBSET (1..h) /\ Solid(rows) /\ Solid(page)
      /\ h # 0 => h \in page
      /\ c.held \subseteq 1..h /\ c.deleting = {}
      /\ ~c.newer /\ rows # {} => h \in rows
  BY DEF Seated, PageFits
<1>2. /\ m.reachedNewest /\ m.rows \in SUBSET (1..h) /\ Solid(m.rows)
      /\ h # 0 => h \in m.rows
      /\ (rows # {} => h \in rows) \/ page = {} \/ 1 \in page => rows \subseteq m.rows
  <2> HIDE DEF rows, page
  <2> DEFINE n == MergeLatest(rows, page)
  <2>1. n = MergeLatest(rows, page)
    OBVIOUS
  <2>2. m = n
    BY DEF rows, page, MergeLatest
  <2> HIDE DEF n, m
  <2>3. /\ n.reachedNewest /\ n.rows \in SUBSET (1..h) /\ Solid(n.rows)
        /\ h # 0 => h \in n.rows
        /\ (rows # {} => h \in rows) \/ page = {} \/ 1 \in page => rows \subseteq n.rows
    BY <1>1, <2>1, NewestLands
  <2> QED BY <2>2, <2>3
<1>3. PrependHistory(c, p) = IF c.resyncing THEN ReleaseHeld(e) ELSE e
  <2>1. p.rows \ c.deleting = p.rows
    BY <1>1
  <2>2. base.older = c.older
    BY DEF WithoutBubbles, Sound, Clients
  <2>3. MergeOlder(c.rows, p.rows \ c.deleting, p.mode = "latest") = m
    <3>1. (p.mode = "latest") = TRUE
      OBVIOUS
    <3> HIDE DEF m
    <3> QED BY <2>1, <3>1 DEF m
  <2> HIDE DEF m
  <2> QED BY <1>2, <2>2, <2>3 DEF PrependHistory
<1> HIDE DEF m
<1>4. e \in Clients(last)
  <2>1. m.rows \in SUBSET Row(last)
    <3>1. p.rows \in SUBSET Row(last) /\ c.rows \in SUBSET Row(last)
      BY DEF Packets, Sound, Clients
    <3>2. m.rows \subseteq rows \cup page
      <4> HIDE DEF rows, page
      <4>1. MergeOlder(rows, page, TRUE).rows \subseteq rows \cup page
        <5> DEFINE tt == TRUE
        <5>1. tt \in BOOLEAN
          OBVIOUS
        <5> HIDE DEF tt
        <5>2. MergeOlder(rows, page, tt).rows \subseteq rows \cup page
          BY <5>1, MergesFromPage
        <5> QED BY <5>2 DEF tt
      <4> QED BY <4>1 DEF m, rows, page
    <3> QED BY <3>1, <3>2
  <2>2. [n \in Sends |-> IF n \in Settled(c, p.rows) THEN "none" ELSE c.bubble[n]]
          \in [Sends -> {"none", "pending", "sent"}]
    BY DEF Sound, Clients
  <2>3. older \in BOOLEAN
    BY DEF Sound, Clients, Packets
  <2> HIDE DEF older
  <2> QED BY <2>1, <2>2, <2>3, ZenonT(60) DEF WithoutBubbles, Sound, Clients
<1>10. older => p.more \/ c.older
  OBVIOUS
<1> HIDE DEF older
<1>5. /\ e.rows = m.rows /\ e.held = c.held /\ e.newer = FALSE /\ e.cached = TRUE /\ Merges(c, e)
      /\ e.older = older
  BY DEF WithoutBubbles, Sound, Clients, Merges
<1> HIDE DEF e
<1>6. LET d == ReleaseHeld(e) IN
        /\ Merges(e, d) /\ d.rows = e.rows /\ d.held = {} /\ d.newer = e.newer
        /\ d.cached = e.cached /\ d.older = e.older
  BY <1>1, <1>2, <1>4, <1>5, ReleasesNothing
<1> DEFINE d == PrependHistory(c, p)
<1>7. /\ d.rows = m.rows /\ d.held \subseteq c.held /\ ~d.newer /\ d.cached /\ Merges(c, d)
      /\ d.older = older
  BY <1>3, <1>5, <1>6 DEF Merges
<1> HIDE DEF d
<1>8. Seated(d, h, away)
  <2>1. d.rows # {} => h \in d.rows
    <3>1. d.rows # {} => h # 0
      BY <1>2, <1>7
    <3> QED BY <1>2, <1>7, <3>1
  <2> QED BY <1>1, <1>2, <1>7, <2>1 DEF Seated, Merges
<1>9. ~c.newer => c.rows \subseteq d.rows
  BY <1>1, <1>2, <1>7
<1> QED BY <1>7, <1>8, <1>9, <1>10 DEF d

LEMMA OlderSits ==
  ASSUME NEW c, Sound(c), NEW p \in Packets(last), NEW h \in Nat, NEW away, Seated(c, h, away),
         p.t = "page", p.mode = "before", PageFits(p, h), p.cur \in c.rows
  PROVE  LET d == PrependHistory(c, p) IN
         /\ Merges(c, d) /\ Seated(d, h, away) /\ d.newer = c.newer /\ c.rows \subseteq d.rows
         /\ d.older => p.more \/ c.older
<1> DEFINE m == MergeOlder(c.rows, p.rows, FALSE)
           older == IF m.headExtended THEN p.more ELSE c.older
           base == WithoutBubbles(c, Settled(c, p.rows))
           e == [base EXCEPT !.rows = m.rows, !.cached = TRUE, !.older = older, !.newer = c.newer]
           rows == c.rows
           page == p.rows
           cur == p.cur
<1>1. /\ rows \in SUBSET (1..h) /\ page \in SUBSET (1..h) /\ Solid(rows) /\ Solid(page)
      /\ cur \in rows /\ \A r \in page : r < cur /\ cur - 1 \in page
      /\ c.deleting = {}
  BY DEF Seated, PageFits
<1>2. ~m.reachedNewest /\ m.rows = rows \cup page /\ Solid(m.rows)
  <2> HIDE DEF rows, page, cur
  <2> DEFINE n == MergeBefore(rows, page)
  <2>1. n = MergeBefore(rows, page)
    OBVIOUS
  <2>2. m = n
    BY DEF rows, page, MergeBefore
  <2> HIDE DEF n, m, e, base, older
  <2>3. /\ h \in Nat /\ rows \in SUBSET (1..h) /\ page \in SUBSET (1..h)
        /\ Solid(rows) /\ Solid(page) /\ cur \in rows
    BY <1>1
  <2>4. \A r \in page : r < cur /\ cur - 1 \in page
    BY <1>1
  <2>5. ~n.reachedNewest /\ n.rows = rows \cup page /\ Solid(n.rows)
    BY ONLY <2>1, <2>3, <2>4, OlderLands
  <2> QED BY <2>2, <2>5
<1>3. PrependHistory(c, p) = e
  <2>1. p.rows \ c.deleting = p.rows
    BY <1>1
  <2>2. base.older = c.older /\ base.newer = c.newer
    BY DEF WithoutBubbles, Sound, Clients
  <2>3. MergeOlder(c.rows, p.rows \ c.deleting, p.mode = "latest") = m
    <3>1. (p.mode = "latest") = FALSE
      OBVIOUS
    <3> HIDE DEF m
    <3> QED BY <2>1, <3>1 DEF m
  <2> HIDE DEF m
  <2> QED BY <1>2, <2>2, <2>3 DEF PrependHistory
<1>10. older => p.more \/ c.older
  OBVIOUS
<1> HIDE DEF m, older
<1>5. /\ e.rows = m.rows /\ e.held = c.held /\ e.newer = c.newer /\ e.cached = TRUE /\ Merges(c, e)
      /\ e.older = older
  BY DEF WithoutBubbles, Sound, Clients, Merges
<1> HIDE DEF e
<1>6. Seated(e, h, away)
  <2>1. rows # {}
    BY <1>1
  <2> QED BY <1>1, <1>2, <1>5, <2>1 DEF Seated, Merges
<1> QED BY <1>2, <1>3, <1>5, <1>6, <1>10

LEMMA NewerSits ==
  ASSUME NEW c, Sound(c), NEW p \in Packets(last), NEW h \in Nat, NEW away, Seated(c, h, away),
         p.t = "page", p.mode = "after", PageFits(p, h), ~away
  PROVE  LET d == AppendNewer(c, p) IN
         /\ Merges(c, d) /\ Seated(d, h, away) /\ (d.newer => c.newer) /\ c.rows \subseteq d.rows
         /\ d.older = c.older
<1> DEFINE m == MergeNewer(c.rows, p.rows, p.cur)
           base == WithoutBubbles(c, Settled(c, p.rows))
           some == c.cached \/ m.applied
           more == IF m.applied THEN c.newer /\ p.newer ELSE c.newer
           e == [base EXCEPT !.rows = m.rows, !.cached = some, !.newer = more]
           rows == c.rows
           page == p.rows
           cur == p.cur
           newer == p.newer
<1>1. /\ rows \in SUBSET (1..h) /\ page \in SUBSET (1..h) /\ Solid(rows) /\ Solid(page)
      /\ cur \in Nat /\ newer \in BOOLEAN /\ \A r \in page : cur < r /\ cur + 1 \in page
      /\ ~newer /\ cur < h => h \in page
      /\ c.deleting = {} /\ c.held \subseteq 1..h /\ (rows # {} => c.cached)
      /\ ~c.newer /\ rows # {} => h \in rows
  BY DEF Seated, PageFits, Packets
<1>2. /\ rows \subseteq m.rows /\ m.rows \in SUBSET (1..h) /\ Solid(m.rows)
      /\ m.applied => rows # {} /\ (~newer => h \in m.rows)
      /\ m.applied \in BOOLEAN /\ (~m.applied => m.rows = rows)
  <2> HIDE DEF rows, page, cur, newer
  <2> DEFINE n == MergeNewer(rows, page, cur)
  <2>1. n = MergeNewer(rows, page, cur)
    OBVIOUS
  <2>2. m = n
    BY DEF rows, page, cur
  <2> HIDE DEF n, m
  <2> QED BY <1>1, <2>1, <2>2, NewerLands
<1>3. AppendNewer(c, p) = IF c.resyncing /\ m.applied /\ c.newer /\ ~p.newer
                          THEN ReleaseHeld(e) ELSE e
  <2>1. p.rows \ c.deleting = p.rows
    BY <1>1
  <2>2. base.cached = c.cached /\ base.newer = c.newer
    BY DEF WithoutBubbles, Sound, Clients
  <2> HIDE DEF m, base
  <2> QED BY <2>1, <2>2 DEF AppendNewer, m, base
<1> HIDE DEF m
<1>4. e \in Clients(last)
  <2>1. m.rows \in SUBSET Row(last)
    <3>1. p.rows \in SUBSET Row(last) /\ c.rows \in SUBSET Row(last)
      BY DEF Packets, Sound, Clients
    <3>2. m.rows \subseteq rows \cup page
      BY MergesFromPage DEF m
    <3> QED BY <3>1, <3>2
  <2>2. [n \in Sends |-> IF n \in Settled(c, p.rows) THEN "none" ELSE c.bubble[n]]
          \in [Sends -> {"none", "pending", "sent"}]
    BY DEF Sound, Clients
  <2>3. some \in BOOLEAN /\ more \in BOOLEAN
    BY <1>2 DEF Sound, Clients, Packets
  <2> HIDE DEF some, more
  <2> QED BY <2>1, <2>2, <2>3, ZenonT(60) DEF WithoutBubbles, Sound, Clients
<1>5. /\ (some <=> c.cached \/ m.applied)
      /\ (more <=> IF m.applied THEN c.newer /\ p.newer ELSE c.newer)
  BY <1>2 DEF Sound, Clients, Packets
<1> HIDE DEF some, more
<1>6. /\ e.rows = m.rows /\ e.held = c.held /\ e.newer = more /\ e.cached = some /\ Merges(c, e)
      /\ e.older = c.older
  BY DEF WithoutBubbles, Sound, Clients, Merges
<1> HIDE DEF e
<1>7. m.applied /\ ~p.newer =>
        LET d == ReleaseHeld(e) IN
        /\ Merges(e, d) /\ d.rows = e.rows /\ d.held = {} /\ d.newer = e.newer
        /\ d.cached = e.cached /\ d.older = e.older
  BY <1>1, <1>2, <1>4, <1>6, ReleasesNothing
<1> DEFINE d == AppendNewer(c, p)
<1>8. /\ d.rows = m.rows /\ d.held \subseteq c.held /\ d.newer = more /\ d.cached = some
      /\ Merges(c, d) /\ d.older = c.older
  BY <1>3, <1>6, <1>7 DEF Merges
<1> HIDE DEF d
<1>9. d.newer => c.newer
  BY <1>5, <1>8
<1>10. d.rows # {} => d.cached
  BY <1>1, <1>2, <1>5, <1>8
<1>11. ~d.newer /\ d.rows # {} => h \in d.rows
  <2>1. CASE m.applied /\ ~p.newer
    BY <1>2, <1>8, <2>1
  <2>2. CASE m.applied /\ p.newer
    BY <1>1, <1>2, <1>5, <1>8, <2>2
  <2>3. CASE ~m.applied
    BY <1>1, <1>2, <1>5, <1>8, <2>3
  <2> QED BY <2>1, <2>2, <2>3
<1>12. Seated(d, h, away)
  BY <1>1, <1>2, <1>8, <1>10, <1>11 DEF Seated, Merges
<1> QED BY <1>2, <1>8, <1>9, <1>12 DEF d

-----------------------------------------------------------------------------
(* A packet of the worker, and what holds after it.                        *)
LEMMA OnHistoryLands ==
  ASSUME Enough, NEW c, Sound(c), NEW p \in Packets(last), last \in Nat, NEW h \in Nat, NEW away,
         stored \in [Sends -> 0..last],
         p.t = "page", p.mode \in Modes, PageFits(p, h), Seated(c, h, away), ~away,
         p.mode = "before" => p.cur \in c.rows
  PROVE  LET d == OnHistory(c, p) IN
         /\ Seated(d, h, away) /\ Eases(c.asks, d.asks) /\ (d.newer => c.newer)
         /\ ~c.newer \/ p.mode # "latest" => c.rows \subseteq d.rows
         /\ d.older => p.more \/ c.older
<1> DEFINE merged == CASE p.mode = "around" -> SetChannelWindow(c, p)
                       [] p.mode = "after"  -> AppendNewer(c, p)
                       [] OTHER             -> PrependHistory(c, p)
           fetched == merged.fetched \/ p.mode # "after"
           noted == [merged EXCEPT !.loading = FALSE, !.fetched = fetched]
           settled == Settle(noted, p)
           d == JumpLands(settled)
<1>1. p.mode \in {"latest", "before", "after"}
  BY DEF PageFits, Modes
<1>2. Sound(merged)
  <2>1. CASE p.mode = "after"
    BY <2>1, AppendNewerTo DEF To
  <2>2. CASE p.mode # "after"
    BY <1>1, <2>2, PrependHistoryTo DEF To
  <2> QED BY <2>1, <2>2
<1>3. /\ Merges(c, merged) /\ Seated(merged, h, away) /\ (merged.newer => c.newer)
      /\ ~c.newer \/ p.mode # "latest" => c.rows \subseteq merged.rows
      /\ merged.older => p.more \/ c.older
  <2>1. CASE p.mode = "after"
    BY <2>1, NewerSits
  <2>2. CASE p.mode = "latest"
    BY <2>2, NewestSits
  <2>3. CASE p.mode = "before"
    BY <2>3, OlderSits
  <2> QED BY <1>1, <2>1, <2>2, <2>3
<1>4. OnHistory(c, p) = d
  BY DEF OnHistory
<1>5. fetched \in BOOLEAN
  OBVIOUS
<1> HIDE DEF merged, fetched
<1>6. noted \in Clients(last)
  BY <1>2, <1>5 DEF Sound, Clients
<1>7. Keeps(merged, noted) /\ noted.asks = merged.asks
      /\ noted.check = merged.check /\ noted.waits = merged.waits
  BY <1>2 DEF Sound, Clients, Keeps
<1> HIDE DEF noted
<1>8. Sound(noted)
  BY <1>2, <1>6, <1>7 DEF Sound, WaitsOK, WaitOK
<1>9. Stays(merged, noted)
  BY <1>7, StaysAside
<1>10. Sound(settled) /\ Stays(noted, settled)
  BY <1>8, SettleTo, SettleStays DEF To
<1> HIDE DEF settled
<1>13. Stays(settled, d)
  BY <1>10, JumpLandsStays
<1> HIDE DEF d
<1>14. Stays(merged, d)
  BY <1>9, <1>10, <1>13, StaysOn
<1>15. Seated(d, h, away)
  BY <1>3, <1>14, StaysReady
<1>16. /\ Eases(c.asks, d.asks) /\ d.rows = merged.rows /\ d.newer = merged.newer
       /\ d.older = merged.older
  BY <1>3, <1>14 DEF Merges, Stays, Keeps
<1> QED BY <1>3, <1>4, <1>15, <1>16

(* A row of the server.  No slice in the background is cut.                *)
LEMMA NoOverflow ==
  ASSUME Roomy, NEW k \in Nat, k <= Total, NEW rows \in SUBSET (1..k), NEW B \in SUBSET Sends
  PROVE  /\ Cardinality(rows) + Cardinality(B) <= ListCap
         /\ Cardinality(rows) + Cardinality(B) <= BackgroundCap
<1>1. IsFiniteSet(1..k) /\ Cardinality(1..k) = k
  BY FS_Interval
<1>2. Cardinality(rows) <= k /\ Cardinality(rows) \in Nat
  BY <1>1, FS_Subset, FS_CardinalityType
<1>3. IsFiniteSet(Sends)
  BY BoundsAssumption
<1>4. /\ Cardinality(B) <= Cardinality(Sends) /\ Cardinality(B) \in Nat
      /\ Cardinality(Sends) \in Nat
  BY <1>3, FS_Subset, FS_CardinalityType
<1>5. ListCap \in Nat /\ BackgroundCap \in Nat /\ OldRows \in Nat /\ MaxPosts \in Nat
  BY BoundsAssumption
<1>6. Total \in Nat
  BY <1>4, <1>5 DEF Total
<1>7. Total + Cardinality(Sends) <= ListCap /\ Total + Cardinality(Sends) <= BackgroundCap
  BY DEF Roomy
<1> QED BY <1>2, <1>4, <1>5, <1>6, <1>7

LEMMA AddMessageSits ==
  ASSUME Roomy, NEW c, Sound(c), NEW h \in Nat, NEW n, Seated(c, h, FALSE),
         last \in Nat, last <= Total, h + 1 <= last
  PROVE  LET d == AddMessage(c, h + 1, n) IN
         /\ Seated(d, h + 1, FALSE) /\ Merges(c, d) /\ d.newer = c.newer /\ c.rows \subseteq d.rows
         /\ d.older = c.older
<1> DEFINE id == h + 1
           merged == [WithoutBubbles(c, {n}) EXCEPT !.rows = @ \cup {id}, !.cached = TRUE]
           over == Cardinality(merged.rows) + Cardinality(Bubbles(merged)) > BackgroundCap
           l == HoldLive(c, id, n)
<1>1. id \in Nat /\ id \in 1..last /\ 1..h \subseteq 1..id /\ id \in 1..id
  OBVIOUS
<1>2. /\ merged.rows = c.rows \cup {id} /\ merged.held = c.held /\ merged.cached
      /\ merged.newer = c.newer /\ Merges(c, merged)
      /\ merged.older = c.older
  BY DEF WithoutBubbles, Sound, Clients, Merges
<1>3. ~over
  <2> HIDE DEF merged
  <2>1. merged.rows \in SUBSET (1..last)
    BY <1>1, <1>2 DEF Sound, Clients, Row
  <2>2. Bubbles(merged) \in SUBSET Sends
    BY DEF Bubbles
  <2> DEFINE R == merged.rows
             B == Bubbles(merged)
  <2>3. R \in SUBSET (1..last) /\ B \in SUBSET Sends
    BY <2>1, <2>2
  <2> HIDE DEF R, B
  <2>4. Cardinality(R) + Cardinality(B) <= BackgroundCap
    BY <2>3, NoOverflow
  <2>5. Cardinality(R) \in Nat /\ Cardinality(B) \in Nat
    <3>1. IsFiniteSet(1..last) /\ IsFiniteSet(Sends)
      BY FS_Interval, BoundsAssumption
    <3> QED BY <2>3, <3>1, FS_Subset, FS_CardinalityType
  <2>6. BackgroundCap \in Nat
    BY BoundsAssumption
  <2>7. ~(Cardinality(R) + Cardinality(B) > BackgroundCap)
    BY <2>4, <2>5, <2>6
  <2> QED BY <2>7 DEF R, B
<1>4. AddMessage(c, id, n) =
        IF c.newer THEN IF c.resyncing THEN l ELSE c
        ELSE IF c.shown THEN merged
        ELSE IF ~c.cached /\ ~c.loading THEN c
        ELSE merged
  <2>1. AddMessage(c, id, n) =
        IF c.newer THEN IF c.resyncing THEN l ELSE c
        ELSE IF c.shown THEN merged
        ELSE IF ~c.cached /\ ~c.loading THEN c
        ELSE IF ~over THEN merged
        ELSE IF c.saved = "up" /\ Bubbles(merged) = {} THEN [c EXCEPT !.newer = TRUE]
        ELSE [merged EXCEPT
                !.rows = KeepNewest(merged.rows, BackgroundCap - Cardinality(Bubbles(merged))),
                !.older = TRUE]
    BY DEF AddMessage
  <2> HIDE DEF merged, over, l
  <2> QED BY <1>3, <2>1
<1> HIDE DEF merged, over
<1>5. /\ l.rows = c.rows /\ l.held \subseteq c.held \cup {id} /\ l.newer = c.newer
      /\ l.cached = c.cached /\ Merges(c, l) /\ l.older = c.older
  BY DEF HoldLive, Sound, Clients, Merges
<1> HIDE DEF l
<1>6. /\ c.rows \subseteq 1..h /\ c.held \subseteq 1..h /\ Solid(c.rows) /\ c.deleting = {}
      /\ (c.rows # {} => c.cached) /\ (~c.newer /\ c.rows # {} => h \in c.rows)
  BY DEF Seated
<1>7. CASE c.newer
  <2>1. Seated(c, id, FALSE) /\ Seated(l, id, FALSE)
    BY <1>1, <1>5, <1>6, <1>7 DEF Seated, Merges
  <2>2. Merges(c, c)
    BY DEF Merges
  <2> QED BY <1>4, <1>5, <1>7, <2>1, <2>2
<1>8. CASE ~c.newer
  <2>1. Seated(merged, id, FALSE)
    <3>1. Solid(c.rows \cup {id})
      <4> DEFINE S == c.rows
      <4>1. S \subseteq 1..h /\ Solid(S) /\ (S # {} => h \in S)
        BY <1>6, <1>8
      <4> HIDE DEF S
      <4>2. ASSUME NEW a \in S \cup {id}, NEW b \in S \cup {id}, NEW r \in Nat, a < r, r < b
            PROVE  r \in S \cup {id}
        <5>1. CASE b \in S
          <6>1. a \in S
            BY <4>1, <4>2, <5>1, <1>1
          <6> QED BY <4>1, <4>2, <5>1, <6>1 DEF Solid
        <5>2. CASE b = id
          <6>1. a \in S /\ a \in Nat
            BY <4>1, <4>2, <5>2, <1>1
          <6>2. h \in S /\ r <= h
            BY <4>1, <4>2, <5>2, <6>1, <1>1
          <6>3. r = h \/ r < h
            BY <6>2
          <6> QED BY <4>1, <4>2, <6>1, <6>2, <6>3 DEF Solid
        <5> QED BY <4>2, <5>1, <5>2
      <4> QED BY <4>2 DEF Solid, S
    <3> QED BY <1>1, <1>2, <1>6, <3>1 DEF Seated, Merges
  <2>2. ~c.cached => Seated(c, id, FALSE)
    BY <1>1, <1>6 DEF Seated
  <2>3. Merges(c, c)
    BY DEF Merges
  <2> QED BY <1>2, <1>4, <1>8, <2>1, <2>2, <2>3
<1> QED BY <1>7, <1>8 DEF id

-----------------------------------------------------------------------------
(* The connection is lost, and comes back.                                 *)
LEMMA AbandonStays ==
  ASSUME NEW c, Sound(c)
  PROVE  Stays(c, Abandon(c))
<1> DEFINE By(k) == {c.waits[i].arg : i \in {j \in DOMAIN c.waits : c.waits[j].by = k}}
           unsure == {n \in By("check") : c.bubble[n] = "pending"}
           base == WithoutBubbles(c, unsure)
           checks == [n \in Sends |-> IF n \in By("check") THEN "off" ELSE base.check[n]]
           loading == base.loading /\ ~(c.jump \in By("jump"))
           before == IF base.lastBefore \in By("older") THEN 0 ELSE base.lastBefore
           after == IF base.lastAfter \in By("newer") THEN 0 ELSE base.lastAfter
           jump == IF base.jump \in By("jump") THEN 0 ELSE base.jump
           ended == [base EXCEPT
                       !.waits = <<>>, !.check = checks,
                       !.withdrawn = @ \cup unsure,
                       !.lastBefore = before, !.lastAfter = after,
                       !.loading = loading, !.jump = jump]
           late == [ended EXCEPT !.load = "delay"]
           idle == [ended EXCEPT !.load = "idle", !.tries = 0, !.loading = FALSE]
           off == [idle EXCEPT !.resync = FALSE]
           done == SetResyncing(off, FALSE)
<1>1. \/ Abandon(c) = ended \/ Abandon(c) = late \/ Abandon(c) = idle \/ Abandon(c) = done
  BY DEF Abandon, LoadEnds, ResyncOver
<1> HIDE DEF By, unsure
<1>2. /\ base = [c EXCEPT !.bubble = base.bubble]
      /\ DOMAIN base = DOMAIN c
  BY DEF WithoutBubbles, Sound, Clients
<1> DEFINE Near(d) == Keeps(c, d) /\ d.asks = c.asks
                        /\ {"rows", "held", "newer", "deleting", "older", "cached", "asks", "load",
                            "tries", "loading", "resync", "resyncing", "lapsed"} \subseteq DOMAIN d
<1>3. Near(base)
  <2>1. {"rows", "held", "newer", "deleting", "older", "cached", "asks", "load", "tries",
         "loading", "resync", "resyncing", "lapsed"} \subseteq DOMAIN c
    BY DEF Sound, Clients
  <2>2. Keeps(c, base) /\ base.asks = c.asks
    BY DEF WithoutBubbles, Sound, Clients, Keeps
  <2> QED BY <1>2, <2>1, <2>2
<1> HIDE DEF base, checks, loading, before, after, jump
<1>4. Near(ended)
  BY <1>3 DEF Keeps
<1> HIDE DEF ended
<1>5. Near(late) /\ Near(idle)
  BY <1>4 DEF Keeps
<1> HIDE DEF late, idle
<1>6. Near(off)
  BY <1>5 DEF Keeps
<1> HIDE DEF off
<1>7. Keeps(c, done) /\ done.asks = c.asks
  <2>1. c.newer \in BOOLEAN
    BY DEF Sound, Clients
  <2>2. /\ done.rows = off.rows /\ done.held = {} /\ done.deleting = off.deleting
        /\ done.older = off.older /\ done.cached = off.cached /\ done.asks = off.asks
    BY <1>6 DEF SetResyncing
  <2>3. done.newer <=> off.newer
    BY <1>6 DEF SetResyncing
  <2>4. done.newer \in BOOLEAN
    BY <1>6 DEF SetResyncing
  <2> HIDE DEF done
  <2>5. off.newer \in BOOLEAN
    BY <1>6, <2>1 DEF Keeps
  <2>6. done.newer = off.newer
    BY <2>3, <2>4, <2>5
  <2> QED BY <1>6, <2>2, <2>6 DEF Keeps
<1> HIDE DEF done
<1> QED BY <1>1, <1>4, <1>5, <1>7, StaysAside

(* The slice of a channel that is not on screen is stale, or gone.         *)
LEMMA MarkStaleIs ==
  ASSUME NEW c, Sound(c)
  PROVE  LET d == MarkStale(c) IN
         /\ \/ d.rows = c.rows /\ d.cached = c.cached
            \/ d.rows = {}
         /\ d.held = c.held /\ d.deleting = c.deleting /\ d.asks = c.asks
         /\ d.older => c.older
         /\ ~c.shown => d.newer \/ d.rows = {}
<1> DEFINE d == [c EXCEPT !.newer = TRUE, !.loading = FALSE]
           e == Dropped(c)
<1>1. /\ d.rows = c.rows /\ d.cached = c.cached /\ d.held = c.held
      /\ d.deleting = c.deleting /\ d.asks = c.asks /\ d.newer /\ d.older = c.older
  BY DEF Sound, Clients
<1>2. /\ e.rows = {} /\ e.held = c.held /\ e.deleting = c.deleting /\ e.asks = c.asks
      /\ ~e.older
  BY DEF Dropped, WithoutBubbles, Sound, Clients
<1>3. \/ MarkStale(c) = c /\ c.shown
      \/ MarkStale(c) = d
      \/ MarkStale(c) = e
  BY DEF MarkStale
<1> HIDE DEF d, e
<1> QED BY <1>1, <1>2, <1>3

(* The checks that waited ask.                                             *)
LEMMA ResumeChecksStays ==
  ASSUME Enough, NEW c, Sound(c)
  PROVE  Stays(c, ResumeChecks(c))
<1> DEFINE waiting == {n \in Sends : c.check[n] = "waiting"}
           S == {n \in waiting : c.bubble[n] = "pending"}
           ns == SetToSeq(S)
           from(i) == c.after[ns[i]]
           rs == [i \in DOMAIN ns |-> Request(SinceMode(from(i)), from(i), CheckLimit)]
           ws == [i \in DOMAIN ns |-> CheckOn(ns[i], from(i), 1)]
           checks == [n \in Sends |-> IF n \notin waiting THEN c.check[n]
                                      ELSE IF c.bubble[n] = "pending" THEN "asking" ELSE "off"]
           d == [c EXCEPT !.check = checks, !.asks = c.asks \o rs, !.waits = c.waits \o ws]
<1>1. ResumeChecks(c) = d
  BY DEF ResumeChecks
<1>2. ns \in Seq(S)
  <2>1. IsFiniteSet(S)
    BY BoundsAssumption, FS_Subset
  <2> QED BY <2>1, SeqOfSet
<1>4. /\ \A n \in S : n \in Sends /\ n \in Nat /\ c.after[n] \in Nat
      /\ CheckLimit \in Nat
  BY BoundsAssumption DEF Sound, Clients
<1> HIDE DEF S, ns, checks
<1>5. ASSUME NEW i \in DOMAIN ns
      PROVE  rs[i] \in Asks /\ Harmless(rs[i])
  <2> DEFINE n == ns[i]
             a == c.after[n]
  <2>1. n \in Sends /\ a \in Nat
    BY <1>2, <1>4, <1>5
  <2>2. rs[i] = Request(SinceMode(a), a, CheckLimit)
    BY <1>5
  <2> HIDE DEF n, a
  <2>3. Request(SinceMode(a), a, CheckLimit) \in Asks
    BY <2>1, FirstPage, CheckAsks
  <2>4. Harmless(Request(SinceMode(a), a, CheckLimit))
    BY <2>1, FirstPage, CheckHarmless
  <2> QED BY <2>2, <2>3, <2>4
<1>6. DOMAIN ns = 1..Len(ns) /\ Len(ns) \in Nat
  BY <1>2
<1>7. rs \in Seq(Asks) /\ DOMAIN rs = DOMAIN ns
  <2>1. rs \in [1..Len(ns) -> Asks]
    BY <1>5, <1>6
  <2> HIDE DEF rs, ws
  <2> QED BY <2>1, <1>6
<1> HIDE DEF rs, ws
<1>8. c.asks \in Seq(Asks)
  BY DEF Sound, Clients
<1>9. Eases(c.asks, c.asks \o rs)
  BY <1>5, <1>7, <1>8, EasesAll
<1>12. Keeps(c, d) /\ d.asks = c.asks \o rs
  BY DEF Sound, Clients, Keeps
<1> HIDE DEF d
<1>13. Stays(c, d)
  BY <1>9, <1>12 DEF Stays
<1> QED BY <1>1, <1>13

(* The re-sync of the channel on screen: a slice that stays is behind.     *)
LEMMA ResyncIs ==
  ASSUME Enough, NEW c, Sound(c)
  PROVE  LET d == Resync(c) IN
         /\ d.rows = c.rows /\ d.held \subseteq c.held /\ d.deleting = c.deleting
         /\ (c.cached => d.cached) /\ d.older = c.older /\ (d.newer \/ d.rows = {})
         /\ Eases(c.asks, d.asks)
<1> DEFINE r == [c EXCEPT !.lastBefore = 0, !.lastAfter = 0, !.jump = 0]
           w == [r EXCEPT !.newer = TRUE]
           s == SetResyncing(r, TRUE)
           h == [s EXCEPT !.resync = TRUE]
<1> DEFINE Near(d) == /\ d.rows = c.rows /\ d.held \subseteq c.held /\ d.deleting = c.deleting
                      /\ (c.cached => d.cached) /\ d.older = c.older
                      /\ Eases(c.asks, d.asks)
<1>1. /\ r \in Clients(last) /\ r.check = c.check /\ r.waits = c.waits /\ Near(r)
      /\ r.asks = c.asks /\ r.held = c.held
  BY EasesSelf DEF Sound, Clients
<1>2. Resync(c) = IF c.rows # {} /\ c.fetched /\ (c.newer \/ ~c.bottom) THEN w
                  ELSE IF c.rows # {} THEN LoadLatest(h) ELSE LoadLatest(r)
  BY DEF Resync
<1> HIDE DEF r
<1>3. Sound(r)
  BY <1>1 DEF Sound, WaitsOK, WaitOK
<1>4. Near(w) /\ w.newer
  BY <1>1 DEF Clients
<1>5. /\ s.rows = r.rows /\ s.held = {} /\ s.deleting = r.deleting
      /\ s.cached = r.cached /\ s.older = r.older
      /\ s.waits = r.waits /\ s.asks = r.asks /\ s.newer
  BY <1>1 DEF SetResyncing, Clients
<1>6. Sound(s)
  BY <1>3, SetResyncingTo DEF To
<1> HIDE DEF w, s
<1>7. h \in Clients(last) /\ h.check = s.check /\ h.waits = s.waits /\ Near(h) /\ h.newer
  <2>1. s \in Clients(last)
    BY <1>6 DEF Sound
  <2>2. h \in Clients(last)
    BY <2>1 DEF Clients
  <2>3. /\ h.rows = s.rows /\ h.held = s.held /\ h.deleting = s.deleting
        /\ h.cached = s.cached /\ h.older = s.older /\ h.newer = s.newer
        /\ h.waits = s.waits /\ h.asks = s.asks /\ h.check = s.check
    BY <2>1 DEF Clients
  <2> HIDE DEF h
  <2> QED BY <1>1, <1>5, <2>2, <2>3
<1> HIDE DEF h
<1>8. Sound(h)
  BY <1>6, <1>7 DEF Sound, WaitsOK, WaitOK
<1>9. ASSUME NEW x, Sound(x), Near(x), x.newer \/ x.rows = {}
      PROVE  Near(LoadLatest(x)) /\ (LoadLatest(x).newer \/ LoadLatest(x).rows = {})
  <2> DEFINE d == LoadLatest(x)
  <2>1. Stays(x, d)
    BY <1>9, LoadLatestStays
  <2> HIDE DEF d
  <2> QED BY <1>9, <2>1, EasesSelf DEF Stays, Keeps, d
<1>11. CASE c.rows # {} /\ c.fetched /\ (c.newer \/ ~c.bottom)
  BY <1>2, <1>4, <1>11
<1>12. CASE ~(c.rows # {} /\ c.fetched /\ (c.newer \/ ~c.bottom)) /\ c.rows # {}
  <2>1. Resync(c) = LoadLatest(h)
    BY <1>2, <1>12
  <2> QED BY <2>1, <1>7, <1>8, <1>9
<1>13. CASE c.rows = {}
  <2>1. Resync(c) = LoadLatest(r) /\ r.rows = {}
    BY <1>1, <1>2, <1>13
  <2> QED BY <2>1, <1>1, <1>3, <1>9
<1> QED BY <1>11, <1>12, <1>13

(* Authentication leaves a slice that is behind, or none.                  *)
LEMMA OnAuthSits ==
  ASSUME Enough, NEW c, Sound(c), NEW h \in Nat, NEW v, NEW away, Seated(c, h, v)
  PROVE  LET d == OnAuth(c) IN
         /\ Seated(d, h, away) /\ Eases(c.asks, d.asks) /\ (d.older => c.older)
<1> DEFINE m == MarkStale(c)
           a == Abandon(m)
           r == ResumeChecks(a)
           s == Resync(r)
<1>1. OnAuth(c) = IF c.shown THEN s ELSE r
  BY DEF OnAuth
<1>2. Sound(m)
  BY MarkStaleTo DEF To
<1>3. /\ (m.rows = c.rows /\ m.cached = c.cached) \/ m.rows = {}
      /\ m.held = c.held /\ m.deleting = c.deleting /\ m.asks = c.asks /\ (m.older => c.older)
      /\ ~c.shown => m.newer \/ m.rows = {}
  BY MarkStaleIs
<1> HIDE DEF m
<1>4. Sound(a) /\ Stays(m, a)
  BY <1>2, AbandonTo, AbandonStays DEF To
<1> HIDE DEF a
<1>6. Sound(r) /\ Stays(a, r)
  BY <1>4, ResumeChecksTo, ResumeChecksStays DEF To
<1> HIDE DEF r
<1>7. Stays(m, r)
  BY <1>4, <1>6, StaysOn
<1>9. /\ s.rows = r.rows /\ s.held \subseteq r.held /\ s.deleting = r.deleting
      /\ (r.cached => s.cached) /\ s.older = r.older /\ (s.newer \/ s.rows = {})
      /\ Eases(r.asks, s.asks)
  BY <1>6, ResyncIs
<1> HIDE DEF s
<1>12. /\ \/ r.rows = c.rows /\ (c.cached => r.cached)
          \/ r.rows = {}
       /\ r.held \subseteq c.held /\ r.deleting = c.deleting
       /\ (~c.shown => r.newer \/ r.rows = {}) /\ (r.older => c.older)
       /\ Eases(c.asks, r.asks)
  BY <1>3, <1>7 DEF Stays, Keeps
<1>14. ASSUME NEW d, d.rows = r.rows, d.held \subseteq r.held, d.deleting = r.deleting,
              (r.cached => d.cached), d.newer \/ d.rows = {}
       PROVE  Seated(d, h, away)
  <2>1. Solid({})
    BY DEF Solid
  <2> QED BY <1>12, <1>14, <2>1 DEF Seated
<1>15. CASE c.shown
  <2>1. Seated(s, h, away)
    BY <1>9, <1>14
  <2>2. Eases(c.asks, s.asks)
    BY <1>9, <1>12, EasesSelf
  <2> QED BY <1>1, <1>9, <1>12, <1>15, <2>1, <2>2
<1>16. CASE ~c.shown
  <2>1. Seated(r, h, away)
    BY <1>12, <1>14, <1>16
  <2> QED BY <1>1, <1>12, <1>16, <2>1
<1> QED BY <1>15, <1>16

-----------------------------------------------------------------------------
(* The invariant, and the steps that are not taken.                        *)

(* The end of authentication is read before anything else.                 *)
Returns(u, j, w) ==
  BackIn(w) => /\ u /\ j = <<>> /\ Head(w).t = "auth"
               /\ \A k \in DOMAIN w : w[k].t = "auth" => k = 1

(* Nothing comes to the slice before authentication is read.               *)
Away(j, w, u) == BackIn(w) \/ (~u /\ j = <<>>)

(* The lanes take the slice to the row k that was stored last, or to the   *)
(* last row that was read before the connection was lost.                  *)
Carried(c, j, w, u, k) ==
  \E h, mid, top \in Nat :
    /\ Carries(j, h, mid) /\ Carries(w, mid, top) /\ top <= k /\ (u => top = k)
    /\ Seated(c, h, Away(j, w, u))

Sitting(c, j, w, u, k) ==
  /\ ~u => w = <<>>
  /\ Returns(u, j, w) /\ Carried(c, j, w, u, k)
  /\ Ready(c, j, w) /\ Placed(c, j, w, u)

Steady ==
  /\ log = 1..last /\ Room
  /\ Sitting(client, jobs, wire, up, last)

LEMMA LastFits ==
  ASSUME Inv, Room
  PROVE  last <= Total /\ last \in Nat
<1>1. Cardinality(StoredOfSends) <= Cardinality(Sends)
      /\ Cardinality(StoredOfSends) \in Nat /\ Cardinality(Sends) \in Nat
  <2> DEFINE T == StoredOfSends
  <2>1. T \in SUBSET Sends /\ IsFiniteSet(Sends)
    BY BoundsAssumption DEF StoredOfSends
  <2> HIDE DEF T
  <2>2. /\ Cardinality(T) <= Cardinality(Sends) /\ Cardinality(T) \in Nat
        /\ Cardinality(Sends) \in Nat
    BY <2>1, FS_Subset, FS_CardinalityType
  <2> QED BY <2>2 DEF T
<1>2. last <= OldRows + MaxPosts + Cardinality(StoredOfSends)
  BY DEF Room
<1>3. OldRows \in Nat /\ MaxPosts \in Nat
  BY BoundsAssumption
<1>4. last \in Nat
  BY DEF Inv, TypeOK
<1> QED BY <1>1, <1>2, <1>3, <1>4 DEF Total

LEMMA StaysSitting ==
  ASSUME NEW c, NEW d, Stays(c, d), NEW j, NEW w, NEW u, NEW k, Sitting(c, j, w, u, k)
  PROVE  Sitting(d, j, w, u, k)
<1>1. /\ Ready(c, j, w) => Ready(d, j, w)
      /\ \A h, away : Seated(c, h, away) => Seated(d, h, away)
      /\ Placed(c, j, w, u) => Placed(d, j, w, u)
  BY StaysReady
<1>2. Carried(d, j, w, u, k)
  BY <1>1 DEF Sitting, Carried
<1> QED BY <1>1, <1>2 DEF Sitting

LEMMA RendererSteady ==
  ASSUME Steady, NEW d, Renderer(d), Sitting(d, jobs, wire, up, last)
  PROVE  Steady'
<1>1. Room'
  BY DEF Steady, Room, StoredOfSends, Renderer
<1>2. Sitting(client', jobs', wire', up', last')
  BY DEF Renderer
<1> QED BY <1>1, <1>2 DEF Steady, Renderer

LEMMA StaysSteady ==
  ASSUME Steady, NEW d, Renderer(d), Stays(client, d)
  PROVE  Steady'
<1>1. Sitting(d, jobs, wire, up, last)
  BY StaysSitting DEF Steady
<1> QED BY <1>1, RendererSteady

LEMMA NotTaken ==
  ASSUME Undisturbed, Inv, Steady
  PROVE  /\ ~ServeDelete /\ ~JumpToPresent
         /\ \A id : ~ServerDelete(id) /\ ~DeleteMine(id) /\ ~JumpTo(id) /\ ~DeleteTimeout(id)
         /\ \A keep : ~TrimTail(keep) /\ ~TrimHead(keep)
         /\ Calm => ~Drop /\ ~Evict
<1>1. /\ spent.deletes \in Nat /\ spent.jumps \in Nat /\ spent.evicts \in Nat
      /\ spent.drops \in Nat
  BY DEF Inv, TypeOK, Spent
<1>2. /\ ~(spent.deletes < MaxDeletes) /\ ~(spent.jumps < MaxJumps)
      /\ Calm => ~(spent.evicts < MaxEvicts) /\ ~(spent.drops < MaxDrops)
  BY <1>1 DEF Undisturbed, Calm
<1>3. Calm => ~Drop /\ ~Evict
  BY <1>2 DEF Drop, Evict
<1>4. /\ ~JumpToPresent
      /\ \A id : ~ServerDelete(id) /\ ~DeleteMine(id) /\ ~JumpTo(id)
  BY <1>2 DEF JumpToPresent, ServerDelete, DeleteMine, JumpTo
<1>5. PICK h \in Nat : Seated(client, h, Away(jobs, wire, up))
  BY DEF Steady, Sitting, Carried
<1>6. \A id : ~DeleteTimeout(id)
  BY <1>5 DEF Seated, DeleteTimeout
<1>7. ~ServeDelete
  <2>1. client.asks # <<>> => Getting(Head(client.asks))
    <3>1. client.asks \in Seq(Asks)
      BY DEF Inv, TypeOK, Sound, Clients
    <3>2. client.asks # <<>> => 1 \in DOMAIN client.asks /\ Head(client.asks) = client.asks[1]
      BY <3>1, TailEach
    <3> QED BY <3>2 DEF Steady, Sitting, Ready, Gets
  <2> QED BY <2>1 DEF ServeDelete, NextAsk, Getting
<1>8. ~Overflowing
  <2> DEFINE rows == client.rows
             B == Bubbles(client)
  <2>1. rows \in SUBSET (1..last) /\ B \in SUBSET Sends /\ last \in Nat
    BY DEF Inv, TypeOK, Sound, Clients, Row, Bubbles
  <2>2. last <= Total /\ Roomy
    BY LastFits DEF Steady, Undisturbed
  <2> HIDE DEF rows, B
  <2>3. Cardinality(rows) + Cardinality(B) <= ListCap
    BY <2>1, <2>2, NoOverflow
  <2>4. Cardinality(rows) \in Nat /\ Cardinality(B) \in Nat /\ ListCap \in Nat
    <3>0. IsFiniteSet(Sends)
      BY BoundsAssumption
    <3>1. IsFiniteSet(1..last) /\ IsFiniteSet(Sends)
      BY <2>1, <3>0, FS_Interval
    <3>2. IsFiniteSet(rows) /\ IsFiniteSet(B)
      BY <2>1, <3>1, FS_Subset
    <3>3. ListCap \in Nat
      BY BoundsAssumption
    <3> QED BY <3>2, <3>3, FS_CardinalityType
  <2>5. ~(Cardinality(rows) + Cardinality(B) > ListCap)
    BY <2>3, <2>4
  <2> QED BY <2>5 DEF Overflowing, rows, B
<1> QED BY <1>3, <1>4, <1>6, <1>7, <1>8 DEF TrimTail, TrimHead

-----------------------------------------------------------------------------
(* The user and the timers.                                                *)
LEMMA AsideSteady ==
  ASSUME Inv, Steady, Scroll \/ Leave \/ \E n \in Sends : Compose(n)
  PROVE  Steady'
<1>1. client \in Clients(last)
  BY DEF Inv, TypeOK, Sound
<1>2. ASSUME NEW d, Renderer(d), Keeps(client, d), d.asks = client.asks
      PROVE  Steady'
  <2>1. Stays(client, d)
    BY <1>2, StaysAside
  <2> QED BY <1>2, <2>1, StaysSteady
<1>3. CASE Scroll
  <2> DEFINE d == [client EXCEPT !.bottom = ~client.bottom]
  <2>1. Keeps(client, d) /\ d.asks = client.asks
    BY <1>1 DEF Clients, Keeps
  <2>2. Renderer(d)
    BY <1>3 DEF Scroll
  <2> HIDE DEF d
  <2> QED BY <1>2, <2>1, <2>2
<1>4. CASE Leave
  <2> DEFINE saved == IF client.bottom THEN "bottom" ELSE "up"
             d == [client EXCEPT !.shown = FALSE, !.jump = 0, !.lastAfter = 0, !.saved = saved]
  <2>1. Keeps(client, d) /\ d.asks = client.asks
    BY <1>1 DEF Clients, Keeps
  <2>2. Renderer(d)
    BY <1>4 DEF Leave
  <2> HIDE DEF d
  <2> QED BY <1>2, <2>1, <2>2
<1>5. ASSUME NEW n \in Sends, Compose(n) PROVE Steady'
  <2> DEFINE after == Newest(client.rows)
             d == [client EXCEPT !.bubble[n] = "pending", !.check[n] = "queued",
                                 !.after[n] = after, !.cached = TRUE]
  <2>1. Keeps(client, d) /\ d.asks = client.asks
    BY <1>1 DEF Clients, Keeps
  <2>2. Renderer(d)
    BY <1>5 DEF Compose
  <2> HIDE DEF d
  <2> QED BY <1>2, <2>1, <2>2
<1> QED BY <1>3, <1>4, <1>5

LEMMA SendsSteady ==
  ASSUME Enough, Inv, Steady, NEW n \in Sends, Transmit(n) \/ EchoTimer(n)
  PROVE  Steady'
<1>1. client \in Clients(last) /\ Sound(client) /\ client.asks \in Seq(Asks)
  BY DEF Inv, TypeOK, Sound, Clients
<1>3. CASE Transmit(n) /\ up
  <2> DEFINE a == [t |-> "send", id |-> n]
             d == [client EXCEPT !.check[n] = "armed", !.asks = Append(client.asks, a)]
  <2>1. Renderer(d)
    BY <1>3 DEF Transmit
  <2>2. Harmless(a)
    BY DEF Harmless, Getting
  <2>3. Keeps(client, d) /\ d.asks = Append(client.asks, a)
    BY <1>1 DEF Clients, Keeps
  <2> HIDE DEF d, a
  <2>4. Eases(client.asks, Append(client.asks, a))
    BY <1>1, <2>2, EasesMore
  <2>5. Stays(client, d)
    BY <2>3, <2>4 DEF Stays
  <2> QED BY <2>1, <2>5, StaysSteady
<1>4. CASE Transmit(n) /\ ~up
  <2> DEFINE d == Withdraw(client, n)
  <2>1. Renderer(d)
    BY <1>4 DEF Transmit
  <2>2. Stays(client, d)
    BY <1>1, WithdrawStays
  <2> HIDE DEF d
  <2> QED BY <2>1, <2>2, StaysSteady
<1>5. CASE EchoTimer(n)
  <2> DEFINE Stage(s) == [client EXCEPT !.check[n] = s]
  <2>1. \A s : Stays(client, Stage(s))
    BY <1>1, StageStays
  <2>2. CASE client.bubble[n] = "pending" /\ ~up
    <3>1. Renderer(Stage("waiting"))
      BY <1>5, <2>2 DEF EchoTimer
    <3> HIDE DEF Stage
    <3> QED BY <2>1, <3>1, StaysSteady
  <2>3. CASE ~(client.bubble[n] = "pending" /\ ~up)
    <3> DEFINE d == CheckServer(client, n)
    <3>1. Renderer(d) /\ client.check[n] # "new"
      BY <1>5, <2>3 DEF EchoTimer
    <3>2. Stays(client, d)
      BY <1>1, <3>1, CheckServerStays
    <3> HIDE DEF d
    <3> QED BY <3>1, <3>2, StaysSteady
  <2> QED BY <2>2, <2>3
<1> QED BY <1>3, <1>4, <1>5

LEMMA LoadNewerSteady ==
  ASSUME Enough, Inv, Steady, LoadNewer
  PROVE  Steady'
<1>1. client \in Clients(last) /\ last \in Nat /\ client.rows \in SUBSET (1..last)
  BY DEF Inv, TypeOK, Sound, Clients, Row
<1> DEFINE o == Newest(client.rows)
           d == [client EXCEPT !.lastAfter = o]
           r == Request("after", o, PageLimit)
           w == WaitOn("after", o, "newer", o)
           e == Track(d, r, w)
<1>2. Renderer(e)
  BY DEF LoadNewer, MayAsk, Ask
<1>3. o \in Nat
  <2>1. o \in 0..last
    BY <1>1, NewestIs
  <2> QED BY <1>1, <2>1
<1>4. Harmless(r)
  BY BoundsAssumption DEF Harmless, Getting, Request, Enough, Whole
<1> HIDE DEF o, r, w
<1>5. Aside(client, d)
  BY <1>1, <1>3 DEF Aside, Clients
<1>6. Keeps(client, d) /\ d.asks = client.asks
  BY <1>1 DEF Clients, Keeps
<1> HIDE DEF d
<1>7. Stays(client, d) /\ Stays(d, e)
  <2>1. Sound(d)
    BY <1>5, AsideTo
  <2> QED BY <1>4, <1>6, <2>1, StaysAside, StaysTrack
<1>8. Stays(client, e)
  BY <1>7, StaysOn
<1> HIDE DEF e
<1> QED BY <1>2, <1>8, StaysSteady

(* An older page is asked for where no slice is dropped.                   *)
LEMMA LoadOlderSteady ==
  ASSUME Inv, Steady, LoadOlder
  PROVE  Steady'
<1>1. client \in Clients(last) /\ last \in Nat /\ client.rows \in SUBSET (1..last)
  BY DEF Inv, TypeOK, Sound, Clients, Row
<1> DEFINE o == Oldest(client.rows)
           d == [client EXCEPT !.lastBefore = o]
           r == Request("before", o, PageLimit)
           w == WaitOn("before", o, "older", o)
           e == Track(d, r, w)
<1>2. Renderer(e) /\ client.rows # {} /\ client.older
  BY DEF LoadOlder, MayAsk, Ask
<1>3. o \in client.rows /\ o \in Nat
  <2>1. o \in client.rows
    BY <1>1, <1>2, OldestIs
  <2> QED BY <1>1, <2>1
<1>11. Sitting(client, jobs, wire, up, last)
  BY DEF Steady
<1>12. Calm
  BY <1>2, <1>11 DEF Sitting, Placed
<1>4. r.t = "page" /\ r.mode = "before" /\ r.id = o /\ Getting(r)
  BY <1>12, BoundsAssumption DEF Getting, Request
<1> HIDE DEF o, r, w
<1>5. Aside(client, d)
  BY <1>1, <1>3 DEF Aside, Clients
<1>6. Keeps(client, d) /\ d.asks = client.asks
  BY <1>1 DEF Clients, Keeps
<1>7. Sound(d)
  BY <1>5, AsideTo
<1> HIDE DEF d
<1>8. Keeps(d, e) /\ e.asks = Append(d.asks, r)
  BY <1>7 DEF Track, Sound, Clients, Keeps
<1> HIDE DEF e
<1>9. /\ LowAsked(e.asks) \subseteq LowAsked(client.asks) \cup {o}
      /\ Gets(client.asks) => Gets(e.asks)
  <2>1. d.asks \in Seq(Asks)
    BY <1>7 DEF Sound, Clients
  <2>2. /\ LowAsked(Append(d.asks, r)) \subseteq LowAsked(d.asks) \cup {r.id}
        /\ Gets(d.asks) => Gets(Append(d.asks, r))
    BY <1>4, <2>1, LowAsks
  <2> QED BY <1>4, <1>6, <1>8, <2>2
<1>10. Keeps(client, e)
  BY <1>6, <1>8 DEF Keeps
<1>13. Ready(e, jobs, wire)
  <2>1. Ready(client, jobs, wire)
    BY <1>11 DEF Sitting
  <2> QED BY <1>3, <1>9, <1>10, <2>1 DEF Ready, Lows, Keeps
<1>14. Placed(e, jobs, wire, up)
  BY <1>10, <1>11, <1>12 DEF Sitting, Placed, Keeps
<1>15. Carried(e, jobs, wire, up, last)
  <2>1. \A h, away : Seated(client, h, away) => Seated(e, h, away)
    BY <1>10 DEF Seated, Keeps
  <2> QED BY <1>11, <2>1 DEF Sitting, Carried
<1>16. Sitting(e, jobs, wire, up, last)
  BY <1>11, <1>13, <1>14, <1>15 DEF Sitting
<1> QED BY <1>2, <1>16, RendererSteady

LEMMA VisitSteady ==
  ASSUME Enough, Inv, Steady, Visit \/ RetryPressed
  PROVE  Steady'
<1>1. client \in Clients(last) /\ Sound(client)
  BY DEF Inv, TypeOK, Sound
<1>3. CASE Visit
  <2> DEFINE bottom == client.saved # "up" \/ client.rows = {}
             d == [client EXCEPT !.shown = TRUE, !.bottom = bottom]
             e == LoadLatest(d)
  <2>1. Renderer(IF d.fetched THEN d ELSE e)
    BY <1>3 DEF Visit
  <2>2. Aside(client, d)
    BY <1>1 DEF Aside, Clients
  <2>3. Keeps(client, d) /\ d.asks = client.asks
    BY <1>1 DEF Clients, Keeps
  <2> HIDE DEF d
  <2>4. Sound(d) /\ Stays(client, d)
    BY <2>2, <2>3, AsideTo, StaysAside
  <2>5. Stays(d, e)
    BY <2>4, LoadLatestStays
  <2> HIDE DEF e
  <2>6. Stays(client, e)
    BY <2>4, <2>5, StaysOn
  <2>7. CASE d.fetched
    BY <2>1, <2>4, <2>7, StaysSteady
  <2>8. CASE ~d.fetched
    BY <2>1, <2>6, <2>8, StaysSteady
  <2> QED BY <2>7, <2>8
<1>4. CASE RetryPressed
  <2> DEFINE e == LoadLatest(client)
  <2>1. Renderer(e)
    BY <1>4 DEF RetryPressed
  <2>2. Stays(client, e)
    BY <1>1, LoadLatestStays
  <2> HIDE DEF e
  <2> QED BY <2>1, <2>2, StaysSteady
<1> QED BY <1>3, <1>4

LEMMA RetryLoadSteady ==
  ASSUME Enough, Inv, Steady, RetryLoad
  PROVE  Steady'
<1> DEFINE tries == client.tries + 1
           b == [client EXCEPT !.tries = tries, !.load = "asked"]
           a == Ask(b, "latest", 0, PageLimit, "latest", 0)
           e == LoadEnds(client)
<1>1. client \in Clients(last) /\ Sound(client) /\ tries \in Nat
  BY DEF Inv, TypeOK, Sound, Clients
<1>2. Renderer(IF up THEN a ELSE e)
  BY DEF RetryLoad
<1> HIDE DEF tries
<1>3. Aside(client, b)
  BY <1>1 DEF Aside, Clients
<1>4. Keeps(client, b) /\ b.asks = client.asks
  BY <1>1 DEF Clients, Keeps
<1>5. Sound(b) /\ Stays(client, b)
  BY <1>3, <1>4, AsideTo, StaysAside
<1> HIDE DEF b
<1>6. Stays(b, a)
  BY <1>5, AskLatestStays
<1> HIDE DEF a
<1>7. Stays(client, a)
  BY <1>5, <1>6, StaysOn
<1>8. Stays(client, e)
  BY <1>1, LoadEndsStays
<1> HIDE DEF e
<1> QED BY <1>2, <1>7, <1>8, StaysSteady

(* A wait ends without its page.                                           *)
LEMMA ExpireSteady ==
  ASSUME Enough, Inv, Steady, NEW i \in DOMAIN client.waits, Expire(i)
  PROVE  Steady'
<1> DEFINE e == Continue([client EXCEPT !.waits = RemoveAt(client.waits, i)], client.waits[i],
                         NoReply)
<1>1. Sound(client)
  BY DEF Inv, TypeOK
<1>2. Renderer(e)
  BY DEF Expire
<1>3. NoReply \in Replies
  BY DEF NoReply, Replies
<1>4. Stays(client, e)
  BY <1>1, <1>3, DoneStays
<1> HIDE DEF e
<1> QED BY <1>2, <1>4, StaysSteady

LEMMA WaitsSteady ==
  ASSUME Enough, Inv, Steady, LostReply \/ \E i \in DOMAIN client.waits : ReplyTimeout(i)
  PROVE  Steady'
<1>1. CASE LostReply
  <2>1. client.waits \in Seq(Waits) /\ client.waits # <<>> /\ Expire(1)
    BY <1>1 DEF Inv, TypeOK, Sound, Clients, LostReply
  <2>2. 1 \in DOMAIN client.waits
    BY <2>1, TailEach
  <2> QED BY <2>1, <2>2, ExpireSteady
<1>2. CASE \E i \in DOMAIN client.waits : ReplyTimeout(i)
  BY <1>2, ExpireSteady DEF ReplyTimeout
<1> QED BY <1>1, <1>2

(* Ten other channels push the slice out.                                  *)
LEMMA EvictSteady ==
  ASSUME Undisturbed, Inv, Steady, Evict
  PROVE  Steady'
<1> DEFINE d == Dropped(client)
<1>1. client \in Clients(last)
  BY DEF Inv, TypeOK, Sound
<1>2. Renderer(d)
  BY DEF Evict
<1>3. /\ d.rows = {} /\ d.held = client.held /\ d.deleting = client.deleting
      /\ d.asks = client.asks /\ ~d.older /\ ~d.newer
  BY <1>1 DEF Dropped, WithoutBubbles, Clients
<1> HIDE DEF d
<1>4. Sitting(client, jobs, wire, up, last)
  BY DEF Steady
<1>5. ~Calm
  BY NotTaken
<1>6. Lows(d, jobs, wire) = {} /\ Gets(d.asks)
  BY <1>3, <1>4, <1>5 DEF Sitting, Placed, Ready, Lows
<1>7. Ready(d, jobs, wire) /\ Placed(d, jobs, wire, up)
  BY <1>3, <1>5, <1>6 DEF Ready, Placed
<1>8. Carried(d, jobs, wire, up, last)
  <2>1. Solid({})
    BY DEF Solid
  <2>2. \A h, away : Seated(client, h, away) => Seated(d, h, away)
    BY <1>3, <2>1 DEF Seated
  <2> QED BY <1>4, <2>2 DEF Sitting, Carried
<1>9. Sitting(d, jobs, wire, up, last)
  BY <1>4, <1>7, <1>8 DEF Sitting
<1> QED BY <1>2, <1>9, RendererSteady

-----------------------------------------------------------------------------
(* The connection is lost, and comes back.                                 *)
LEMMA DropSteady ==
  ASSUME Undisturbed, Inv, Steady, Drop
  PROVE  Steady'
<1> DEFINE c == [client EXCEPT !.asks = <<>>]
           d == Abandon(c)
<1>1. client \in Clients(last) /\ Sound(client) /\ last \in Nat
      /\ jobs \in Seq(Packets(last)) /\ wire \in Seq(Packets(last))
  BY DEF Inv, TypeOK, Sound
<1>2. ~Calm
  BY NotTaken
<1>3. /\ up /\ up' = FALSE /\ wire' = <<>> /\ client' = d
      /\ UNCHANGED <<log, last, stored, jobs>>
  BY DEF Drop
<1>4. Sitting(client, jobs, wire, up, last)
  BY DEF Steady
<1>6. /\ c \in Clients(last) /\ c.check = client.check /\ c.waits = client.waits
      /\ Keeps(client, c) /\ c.asks = <<>>
  <2>1. <<>> \in Seq(Asks)
    OBVIOUS
  <2>2. c \in Clients(last)
    BY <1>1, <2>1 DEF Clients
  <2>3. /\ c.check = client.check /\ c.waits = client.waits
        /\ Keeps(client, c) /\ c.asks = <<>>
    BY <1>1 DEF Clients, Keeps
  <2> QED BY <2>2, <2>3
<1> HIDE DEF c
<1>7. Sound(c)
  BY <1>1, <1>6 DEF Sound, WaitsOK, WaitOK
<1>8. Stays(client, c)
  BY <1>6, EasesSelf DEF Stays
<1>9. Stays(client, d)
  BY <1>7, <1>8, AbandonStays, StaysOn
<1> HIDE DEF d
<1>10. Sitting(d, jobs, wire, up, last)
  BY <1>4, <1>9, StaysSitting
<1>11. LowIn(<<>>) = {} /\ ~BackIn(<<>>)
  BY LaneNone
<1>12. Lows(d, jobs, <<>>) \subseteq Lows(d, jobs, wire)
  BY <1>11 DEF Lows
<1>13. Ready(d, jobs, <<>>) /\ Placed(d, jobs, <<>>, FALSE)
  BY <1>2, <1>10, <1>12 DEF Sitting, Ready, Placed
<1>15. Carried(d, jobs, <<>>, FALSE, last)
  <2>1. PICK h \in Nat, mid \in Nat, top \in Nat :
          /\ Carries(jobs, h, mid) /\ Carries(wire, mid, top) /\ top <= last
          /\ Seated(d, h, Away(jobs, wire, up))
    BY <1>10 DEF Sitting, Carried
  <2>2. mid <= top
    BY <1>1, <2>1, CarriesUp
  <2>3. mid <= last
    BY <1>1, <2>1, <2>2
  <2>4. Carries(<<>>, mid, mid)
    BY CarriesNone
  <2>5. Away(jobs, wire, up) => Away(jobs, <<>>, FALSE)
    BY <1>3, <1>4 DEF Away, Sitting, Returns
  <2>6. Seated(d, h, Away(jobs, <<>>, FALSE))
    BY <2>1, <2>5 DEF Seated
  <2> QED BY <2>1, <2>3, <2>4, <2>6 DEF Carried
<1>16. Sitting(d, jobs, <<>>, FALSE, last)
  BY <1>11, <1>13, <1>15 DEF Sitting, Returns
<1>17. Sitting(client', jobs', wire', up', last')
  BY <1>3, <1>16
<1>18. Room'
  BY <1>3 DEF Steady, Room, StoredOfSends
<1> QED BY <1>3, <1>17, <1>18 DEF Steady

LEMMA ReconnectSteady ==
  ASSUME Undisturbed, Inv, Steady, Reconnect
  PROVE  Steady'
<1> DEFINE p == Packet("auth")
           w == <<p>>
<1>1. client \in Clients(last) /\ last \in Nat
  BY DEF Inv, TypeOK, Sound
<1>3. ~up /\ Sitting(client, jobs, wire, up, last)
  BY DEF Steady, Reconnect
<1>0. ~Calm
  BY <1>3 DEF Sitting, Placed
<1>2. /\ jobs = <<>> /\ wire = <<>> /\ up' = TRUE /\ wire' = w
      /\ UNCHANGED <<log, last, stored, jobs, client, spent>>
  BY <1>0, <1>3 DEF Reconnect, Undisturbed, Sitting
<1>4. p.t = "auth"
  BY DEF Packet
<1> HIDE DEF p
<1>5. w = Append(<<>>, p) /\ <<>> \in Seq({p}) /\ Head(w) = p /\ DOMAIN w = {1} /\ w[1] = p
  OBVIOUS
<1> HIDE DEF w
<1>6. LowIn(<<>>) = {} /\ LowIn(w) = {} /\ BackIn(w)
  <2>1. LowIn(<<>>) = {}
    BY LaneNone
  <2>2. LowIn(w) = {} /\ BackIn(w)
    BY <1>4, <1>5 DEF LowIn, BackIn
  <2> QED BY <2>1, <2>2
<1>7. Lows(client, jobs, w) = Lows(client, jobs, wire)
  BY <1>2, <1>6 DEF Lows
<1>8. Ready(client, jobs, w) /\ Placed(client, jobs, w, TRUE)
  BY <1>0, <1>3, <1>7 DEF Sitting, Ready, Placed
<1>10. Carried(client, jobs, w, TRUE, last)
  <2>1. PICK h \in Nat, mid \in Nat, top \in Nat :
          /\ Carries(jobs, h, mid) /\ Carries(wire, mid, top) /\ top <= last
          /\ Seated(client, h, Away(jobs, wire, up))
    BY <1>3 DEF Sitting, Carried
  <2>2. h <= last
    <3>1. h = mid /\ mid = top
      BY <1>2, <2>1, CarriesNone
    <3> QED BY <2>1, <3>1
  <2>3. Carries(<<>>, last, last)
    BY <1>1, CarriesNone
  <2>4. Moves(p, last, last)
    BY <1>4 DEF Moves
  <2>5. Carries(w, last, last)
    BY <1>1, <1>5, <2>3, <2>4, CarriesMore
  <2>6. Seated(client, last, Away(jobs, w, TRUE))
    <3>1. 1..h \subseteq 1..last
      BY <1>1, <2>2
    <3>2. client.rows \subseteq 1..last /\ client.held \subseteq 1..last
      BY <2>1, <3>1 DEF Seated
    <3>3. Away(jobs, w, TRUE)
      BY <1>6 DEF Away
    <3> QED BY <2>1, <3>2, <3>3 DEF Seated
  <2>7. Carries(jobs, last, last)
    BY <1>2, <2>3
  <2>8. last <= last /\ (TRUE => last = last)
    BY <1>1
  <2> HIDE DEF w
  <2> QED BY <1>1, <2>5, <2>6, <2>7, <2>8 DEF Carried
<1>11. Returns(TRUE, jobs, w)
  BY <1>2, <1>4, <1>5 DEF Returns
<1>12. Sitting(client, jobs, w, TRUE, last)
  BY <1>8, <1>10, <1>11 DEF Sitting
<1>13. Sitting(client', jobs', wire', up', last')
  BY <1>2, <1>12
<1>14. Room'
  BY <1>2 DEF Steady, Room, StoredOfSends
<1> QED BY <1>2, <1>13, <1>14 DEF Steady

-----------------------------------------------------------------------------
(* The server's steps.                                                     *)

(* What a step of the server pushes goes on from the last row.             *)
LEMMA PushedSteady ==
  ASSUME Inv, Steady, NEW p, Push(<<p>>), p.t # "auth", UNCHANGED <<up, jobs>>,
         Stays(client, client'),
         last' \in Nat, last <= last', log' = 1..last', Room', Moves(p, last, last'),
         p.t = "page" /\ p.mode = "before" => p.cur \in LowAsked(client.asks)
  PROVE  Steady'
<1> DEFINE d == client'
           w == Append(wire, p)
           k == last'
<1>1. last \in Nat /\ wire \in Seq(Packets(last))
  BY DEF Inv, TypeOK
<1>2. Sitting(client, jobs, wire, up, last)
  BY DEF Steady
<1>3. PICK h \in Nat, mid \in Nat, top \in Nat :
        /\ Carries(jobs, h, mid) /\ Carries(wire, mid, top) /\ top <= last
        /\ (up => top = last) /\ Seated(client, h, Away(jobs, wire, up))
  BY <1>2 DEF Sitting, Carried
<1>4. ASSUME Sitting(client, jobs, wire', up, k) PROVE Steady'
  <2>1. Sitting(d, jobs, wire', up, k)
    BY <1>4, StaysSitting
  <2>2. Sitting(client', jobs', wire', up', last')
    BY <2>1
  <2> QED BY <2>2 DEF Steady
<1>5. CASE ~up
  <2>1. wire' = wire
    BY <1>5 DEF Push
  <2>2. top <= k
    BY <1>1, <1>3
  <2>3. Carried(client, jobs, wire, up, k)
    BY <1>3, <1>5, <2>2 DEF Carried
  <2>4. Sitting(client, jobs, wire, up, k)
    BY <1>2, <2>3 DEF Sitting
  <2> QED BY <1>4, <2>1, <2>4
<1>6. CASE up
  <2>1. wire' = w
    BY <1>1, <1>6 DEF Push
  <2>2. /\ \A r \in LowIn(w) : r \in LowIn(wire) \/ (p.t = "page" /\ p.mode = "before" /\ p.cur = r)
        /\ BackIn(w) <=> BackIn(wire)
    BY <1>1, LaneMore
  <2>3. Returns(up, jobs, w)
    <3> SUFFICES ASSUME BackIn(w)
                 PROVE  /\ up /\ jobs = <<>> /\ Head(w).t = "auth"
                        /\ \A i \in DOMAIN w : w[i].t = "auth" => i = 1
      BY DEF Returns
    <3>1. /\ up /\ jobs = <<>> /\ Head(wire).t = "auth"
          /\ \A i \in DOMAIN wire : wire[i].t = "auth" => i = 1
      BY <1>2, <2>2 DEF Sitting, Returns
    <3>2. wire # <<>>
      <4>1. DOMAIN <<>> = {}
        OBVIOUS
      <4> QED BY <2>2, <4>1 DEF BackIn
    <3>3. Head(w) = Head(wire)
      BY <1>1, <3>2
    <3>4. \A i \in DOMAIN w : (i \in DOMAIN wire /\ w[i] = wire[i]) \/ w[i] = p
      BY <1>1, AppendEach
    <3> HIDE DEF w
    <3> QED BY <3>1, <3>3, <3>4
  <2>4. Carries(w, mid, k)
    <3>1. Carries(wire, mid, last)
      BY <1>3, <1>6
    <3> QED BY <1>1, <3>1, CarriesMore
  <2> HIDE DEF w
  <2>5. Lows(client, jobs, w) \subseteq Lows(client, jobs, wire)
    BY <2>2 DEF Lows
  <2>6. Ready(client, jobs, w) /\ Placed(client, jobs, w, up)
    BY <1>2, <2>2, <2>5 DEF Sitting, Ready, Placed
  <2>7. Seated(client, h, Away(jobs, w, up))
    <3>1. Away(jobs, wire, up) => Away(jobs, w, up)
      BY <2>2 DEF Away
    <3> QED BY <1>3, <3>1 DEF Seated
  <2>8. Carried(client, jobs, w, up, k)
    BY <1>3, <2>4, <2>7 DEF Carried
  <2>9. Sitting(client, jobs, w, up, k)
    BY <1>6, <2>3, <2>6, <2>8 DEF Sitting
  <2> QED BY <1>4, <2>1, <2>9
<1> QED BY <1>5, <1>6

LEMMA PostSteady ==
  ASSUME Inv, Steady, Post
  PROVE  Steady'
<1> DEFINE id == last + 1
           p == [Packet("msg") EXCEPT !.id = id]
<1>1. /\ last' = last + 1 /\ log' = log \cup {last + 1} /\ Push(<<p>>)
      /\ UNCHANGED <<stored, up, jobs, client, spent>>
      /\ last < OldRows + MaxPosts + Cardinality(StoredOfSends)
  BY DEF Post
<1>2. p.t = "msg" /\ p.id = id
  BY DEF Packet
<1> HIDE DEF p
<1>3. last \in Nat /\ last' \in Nat /\ last <= last' /\ log' = 1..last'
  <2>1. last \in Nat /\ log = 1..last
    BY DEF Inv, TypeOK, Steady
  <2> QED BY <1>1, <2>1
<1>4. Room'
  BY <1>1, RoomKept DEF Steady
<1>5. Moves(p, last, last')
  BY <1>1, <1>2 DEF Moves
<1>7. Stays(client, client')
  BY <1>1, StaysOn
<1> QED BY <1>1, <1>2, <1>3, <1>4, <1>5, <1>7, PushedSteady

(* A request is read.                                                      *)
LEMMA ServedStays ==
  ASSUME Inv, Served, client.asks # <<>>
  PROVE  Stays(client, client')
<1>1. client \in Clients(last) /\ client.asks \in Seq(Asks)
  BY DEF Inv, TypeOK, Sound, Clients
<1>2. Eases(client.asks, Tail(client.asks))
  BY <1>1, EasesTail
<1> DEFINE d == client'
<1>3. Keeps(client, d) /\ d.asks = Tail(client.asks)
  BY <1>1 DEF Served, Clients, Keeps
<1> HIDE DEF d
<1>4. Stays(client, d)
  BY <1>2, <1>3 DEF Stays
<1> QED BY <1>4 DEF d

LEMMA StoreSendSteady ==
  ASSUME Inv, Steady, StoreSend
  PROVE  Steady'
<1> DEFINE n == Head(client.asks).id
           id == last + 1
           p == [Packet("msg") EXCEPT !.id = id, !.send = n]
<1>1. /\ Served /\ last' = last + 1 /\ log' = log \cup {last + 1} /\ Push(<<p>>)
      /\ stored' = [stored EXCEPT ![n] = last + 1] /\ UNCHANGED <<up, jobs, spent>> /\ up
  BY DEF StoreSend, NextAsk
<1>2. last \in Nat /\ stored \in [Sends -> 0..last] /\ log = 1..last
  BY DEF Inv, TypeOK, Steady
<1>3. client.asks # <<>> /\ Head(client.asks).t = "send" /\ n \in Sends /\ stored[n] = 0
  BY HeadAsk DEF StoreSend
<1>4. stored' = [m \in Sends |-> IF m = n THEN last' ELSE stored[m]]
  BY <1>1, <1>2, <1>3
<1>5. p.t = "msg" /\ p.id = id
  BY DEF Packet
<1> HIDE DEF p, n
<1>6. Room'
  BY <1>1, <1>3, <1>4, RoomKept DEF Steady
<1>7. last' \in Nat /\ last <= last' /\ log' = 1..last'
  BY <1>1, <1>2
<1>8. Moves(p, last, last')
  BY <1>1, <1>5 DEF Moves
<1>10. Stays(client, client')
  BY <1>1, <1>3, ServedStays
<1> QED BY <1>1, <1>5, <1>6, <1>7, <1>8, <1>10, PushedSteady

LEMMA RefuseSendSteady ==
  ASSUME Inv, Steady, RefuseSend
  PROVE  Steady'
<1> DEFINE n == Head(client.asks).id
           p == [Packet("rejected") EXCEPT !.send = n]
<1>1. /\ Served /\ Push(<<p>>) /\ UNCHANGED <<log, last, stored, up, jobs>> /\ up
      /\ client.asks # <<>>
  BY DEF RefuseSend, NextAsk
<1>2. last \in Nat /\ log = 1..last
  BY DEF Inv, TypeOK, Steady
<1>3. p.t = "rejected"
  BY DEF Packet
<1> HIDE DEF p
<1>4. Room'
  BY <1>1, RoomKept DEF Steady
<1>5. last' \in Nat /\ last <= last' /\ log' = 1..last'
  BY <1>1, <1>2
<1>6. Moves(p, last, last')
  BY <1>1, <1>3 DEF Moves
<1>8. Stays(client, client')
  BY <1>1, ServedStays
<1> QED BY <1>1, <1>3, <1>4, <1>5, <1>6, <1>8, PushedSteady

(* The rows of a page: all of those asked for, from one end on.            *)
LEMMA NewestKept ==
  ASSUME NEW k \in Nat, NEW S \in SUBSET (1..k), NEW c \in Nat
  PROVE  /\ KeepNewest(S, c) \subseteq S
         /\ \A a \in KeepNewest(S, c), b \in S : a <= b => b \in KeepNewest(S, c)
<1>1. KeepNewest(S, c) \subseteq S
  BY DEF KeepNewest
<1> SUFFICES ASSUME NEW a \in KeepNewest(S, c), NEW b \in S, a <= b
             PROVE  b \in KeepNewest(S, c)
  BY <1>1
<1> DEFINE A == {x \in S : x > a}
           B == {x \in S : x > b}
<1>2. Cardinality(A) < c
  BY DEF KeepNewest
<1>3. B \subseteq A /\ IsFiniteSet(A)
  <2>1. \A x \in S : x \in Nat
    OBVIOUS
  <2>2. a \in Nat /\ b \in Nat
    BY <1>1, <2>1
  <2>3. B \subseteq A
    <3>1. \A x \in S : x > b => x > a
      BY <2>1, <2>2
    <3> QED BY <3>1
  <2>4. IsFiniteSet(1..k) /\ A \subseteq 1..k
    <3>1. A \subseteq 1..k
      OBVIOUS
    <3> HIDE DEF A
    <3> QED BY <3>1, FS_Interval
  <2> HIDE DEF A, B
  <2> QED BY <2>3, <2>4, FS_Subset
<1> HIDE DEF A
<1>4. Cardinality(B) < c
  <2> HIDE DEF B
  <2>1. Cardinality(B) <= Cardinality(A) /\ IsFiniteSet(B)
    BY <1>3, FS_Subset
  <2>2. Cardinality(B) \in Nat /\ Cardinality(A) \in Nat
    BY <1>3, <2>1, FS_CardinalityType
  <2> QED BY <1>2, <2>1, <2>2
<1> QED BY <1>4 DEF KeepNewest

LEMMA OldestKept ==
  ASSUME NEW k \in Nat, NEW S \in SUBSET (1..k), NEW c \in Nat
  PROVE  /\ KeepOldest(S, c) \subseteq S
         /\ \A a \in KeepOldest(S, c), b \in S : b <= a => b \in KeepOldest(S, c)
<1>1. KeepOldest(S, c) \subseteq S
  BY DEF KeepOldest
<1> SUFFICES ASSUME NEW a \in KeepOldest(S, c), NEW b \in S, b <= a
             PROVE  b \in KeepOldest(S, c)
  BY <1>1
<1> DEFINE A == {x \in S : x < a}
           B == {x \in S : x < b}
<1>2. Cardinality(A) < c
  BY DEF KeepOldest
<1>3. B \subseteq A /\ IsFiniteSet(A)
  <2>1. \A x \in S : x \in Nat
    OBVIOUS
  <2>2. a \in Nat /\ b \in Nat
    BY <1>1, <2>1
  <2>3. B \subseteq A
    <3>1. \A x \in S : x < b => x < a
      BY <2>1, <2>2
    <3> QED BY <3>1
  <2>4. IsFiniteSet(1..k) /\ A \subseteq 1..k
    <3>1. A \subseteq 1..k
      OBVIOUS
    <3> HIDE DEF A
    <3> QED BY <3>1, FS_Interval
  <2> HIDE DEF A, B
  <2> QED BY <2>3, <2>4, FS_Subset
<1> HIDE DEF A
<1>4. Cardinality(B) < c
  <2> HIDE DEF B
  <2>1. Cardinality(B) <= Cardinality(A) /\ IsFiniteSet(B)
    BY <1>3, FS_Subset
  <2>2. Cardinality(B) \in Nat /\ Cardinality(A) \in Nat
    BY <1>3, <2>1, FS_CardinalityType
  <2> QED BY <1>2, <2>1, <2>2
<1> QED BY <1>4 DEF KeepOldest

LEMMA SolidPart ==
  ASSUME NEW S, Solid(S), NEW K \in SUBSET S, \A x \in S : x \in Nat,
         \/ \A a \in K, b \in S : a <= b => b \in K
         \/ \A a \in K, b \in S : b <= a => b \in K
  PROVE  Solid(K)
<1> SUFFICES ASSUME NEW a \in K, NEW b \in K, NEW r \in Nat, a < r, r < b PROVE r \in K
  BY DEF Solid
<1>1. r \in S
  BY DEF Solid
<1>2. a <= r /\ r <= b
  <2>1. a \in Nat /\ b \in Nat
    OBVIOUS
  <2> QED BY <2>1
<1> QED BY <1>1, <1>2

(* A page fits what its reader has read when it comes.                     *)
LEMMA PageForFits ==
  ASSUME last \in Nat, log = 1..last, NEW a \in Asks, a.t = "page", a.mode \in Modes,
         Getting(a), a.mode = "before" => a.id <= last, last <= Total
  PROVE  LET p == PageFor(a) IN
         /\ p.t = "page" /\ p.mode = a.mode /\ p.cur = a.id
         /\ PageFits(p, last)
<1> DEFINE p == PageFor(a)
           S == IF a.mode = "latest" THEN 1..last ELSE {r \in 1..last : r < a.id}
           T == {r \in 1..last : r > a.id}
           c == a.limit
<1>1. /\ a.id \in Nat /\ c \in Nat /\ c # 0 /\ a.mode # "around" /\ (Calm \/ Total <= c)
  BY DEF Asks, Getting
<1>2. KeepNewest({}, c) = {} /\ KeepOldest({}, c) = {}
  BY DEF KeepNewest, KeepOldest
<1>3. p.t = "page" /\ p.mode = a.mode /\ p.cur = a.id
  BY DEF PageFor, Packet
<1>4. a.mode \in {"latest", "before"} => p.rows = KeepNewest(S, c)
  <2>1. a.mode \in {"latest", "before"} => p.rows = KeepNewest(S, c) \cup KeepOldest({}, c)
    BY DEF PageFor, Packet
  <2> QED BY <1>2, <2>1
<1>5. a.mode = "after" => p.rows = KeepOldest(T, c) /\ p.newer = (Cardinality(T) > c)
  <2>1. a.mode = "after" => /\ p.rows = KeepNewest({}, c) \cup KeepOldest(T, c)
                            /\ p.newer = (Cardinality(T) > c)
    BY DEF PageFor, Packet
  <2> QED BY <1>2, <2>1
<1>17. p.more = (Cardinality(IF a.mode = "after" THEN {} ELSE S) > c)
  <2>1. a.mode \in {"latest", "before", "after"}
    BY <1>1 DEF Modes
  <2> QED BY <2>1 DEF PageFor, Packet
<1>6. /\ S \in SUBSET (1..last) /\ T \in SUBSET (1..last) /\ Solid(S) /\ Solid(T)
  <2>1. \A r \in Nat, x \in 1..last, y \in 1..last : x < r /\ r < y => r \in 1..last
    OBVIOUS
  <2>2. S \in SUBSET (1..last) /\ T \in SUBSET (1..last)
    OBVIOUS
  <2>3. Solid(1..last)
    BY <2>1 DEF Solid
  <2>4. Solid({r \in 1..last : r < a.id})
    BY <1>1 DEF Solid
  <2>5. Solid(T)
    BY <1>1 DEF Solid
  <2> QED BY <2>2, <2>3, <2>4, <2>5
<1>7. \A x \in 1..last : x \in Nat
  OBVIOUS
<1> HIDE DEF p, S, T, c
<1>8. /\ KeepNewest(S, c) \subseteq S
      /\ \A x \in KeepNewest(S, c), y \in S : x <= y => y \in KeepNewest(S, c)
  BY <1>1, <1>6, NewestKept
<1>9. /\ KeepOldest(T, c) \subseteq T
      /\ \A x \in KeepOldest(T, c), y \in T : y <= x => y \in KeepOldest(T, c)
  BY <1>1, <1>6, OldestKept
<1>10. Solid(KeepNewest(S, c)) /\ Solid(KeepOldest(T, c))
  <2>1. (\A x \in S : x \in Nat) /\ \A x \in T : x \in Nat
    BY <1>6, <1>7
  <2>2. KeepNewest(S, c) \in SUBSET S /\ KeepOldest(T, c) \in SUBSET T
    BY <1>8, <1>9
  <2>3. Solid(KeepNewest(S, c))
    BY <1>6, <1>8, <2>1, <2>2, SolidPart
  <2>4. Solid(KeepOldest(T, c))
    BY <1>6, <1>9, <2>1, <2>2, SolidPart
  <2> QED BY <2>3, <2>4
<1>11. p.rows \subseteq 1..last /\ Solid(p.rows)
  BY <1>1, <1>4, <1>5, <1>6, <1>8, <1>9, <1>10 DEF Modes
<1>12. p.mode = "latest" /\ last # 0 => last \in p.rows
  <2> SUFFICES ASSUME p.mode = "latest", last # 0 PROVE last \in p.rows
    OBVIOUS
  <2>1. S = 1..last /\ p.rows = KeepNewest(S, c)
    BY <1>3, <1>4 DEF S
  <2>2. last \in S /\ last - last < c /\ c \in Nat
    BY <1>1, <2>1
  <2>3. last \in KeepNewest(S, c)
    BY ONLY last \in Nat, <1>6, <2>2, NewestRowsHold
  <2> QED BY <2>1, <2>3
<1>13. p.mode = "before" => \A r \in p.rows : r < p.cur /\ p.cur - 1 \in p.rows
  <2> SUFFICES ASSUME p.mode = "before", NEW r \in p.rows
               PROVE  r < a.id /\ a.id - 1 \in p.rows
    BY <1>3
  <2>1. S = {x \in 1..last : x < a.id} /\ p.rows = KeepNewest(S, c) /\ a.id <= last
    BY <1>3, <1>4 DEF S
  <2>2. r \in S /\ r \in Nat /\ r < a.id
    BY <1>6, <1>7, <1>8, <2>1
  <2>3. a.id - 1 \in S /\ r <= a.id - 1
    <3>1. r \in 1..last
      BY <1>6, <2>2
    <3> QED BY <1>1, <2>1, <2>2, <3>1
  <2> QED BY <1>8, <2>1, <2>2, <2>3
<1>14. p.mode = "after" => \A r \in p.rows : p.cur < r /\ p.cur + 1 \in p.rows
  <2> SUFFICES ASSUME p.mode = "after", NEW r \in p.rows
               PROVE  a.id < r /\ a.id + 1 \in p.rows
    BY <1>3
  <2>1. T = {x \in 1..last : x > a.id} /\ p.rows = KeepOldest(T, c)
    BY <1>3, <1>5 DEF T
  <2>2. r \in T /\ r \in Nat /\ r > a.id /\ r \in 1..last
    BY <1>6, <1>7, <1>9, <2>1
  <2>3. a.id + 1 \in T /\ a.id + 1 <= r
    BY <1>1, <2>1, <2>2
  <2> QED BY <1>1, <1>9, <2>1, <2>2, <2>3
<1>15. p.mode = "after" /\ ~p.newer /\ p.cur < last => last \in p.rows
  <2> SUFFICES ASSUME p.mode = "after", ~p.newer, a.id < last, last \notin p.rows PROVE FALSE
    BY <1>3
  <2>1. T = {x \in 1..last : x > a.id} /\ p.rows = KeepOldest(T, c)
        /\ ~(Cardinality(T) > c)
    BY <1>3, <1>5 DEF T
  <2>2. last \in T /\ \A x \in T : x > a.id
    BY <1>1, <2>1
  <2>3. c \in Nat \ {0}
    BY <1>1
  <2>4. Cardinality(T) > c
    <3>1. last \notin KeepOldest(T, c)
      BY <2>1
    <3> QED BY <1>1, <1>6, <2>2, <2>3, <3>1, OldestRowsEnd
  <2> QED BY <2>1, <2>4
<1>18. Calm \/ ~p.more
  <2> DEFINE U == IF a.mode = "after" THEN {} ELSE S
  <2>1. U \in SUBSET (1..last)
    BY <1>6
  <2>2. p.more = (Cardinality(U) > c)
    BY <1>17
  <2> HIDE DEF U
  <2>3. IsFiniteSet(1..last) /\ Cardinality(1..last) = last
    BY FS_Interval
  <2>4. Cardinality(U) <= last /\ Cardinality(U) \in Nat
    BY <2>1, <2>3, FS_Subset, FS_CardinalityType
  <2>5. Calm \/ ~(Cardinality(U) > c)
    <3>1. Total \in Nat /\ last <= Total /\ c \in Nat /\ (Calm \/ Total <= c)
      BY <1>1, TotalNat
    <3> HIDE DEF c
    <3> QED BY <2>4, <3>1
  <2> QED BY <2>2, <2>5
<1>16. PageFits(p, last)
  BY <1>1, <1>3, <1>11, <1>12, <1>13, <1>14, <1>15, <1>18 DEF PageFits
<1> QED BY <1>3, <1>16 DEF p

LEMMA ServePageSteady ==
  ASSUME Inv, Steady, ServePage
  PROVE  Steady'
<1> DEFINE a == Head(client.asks)
           p == PageFor(a)
<1>1. /\ Served /\ Push(<<p>>) /\ UNCHANGED <<log, last, stored, up, jobs, spent>> /\ up
  BY DEF ServePage, NextAsk
<1>2. /\ client.asks # <<>> /\ a \in Asks /\ a.t = "page"
      /\ client.asks[1] = a /\ 1 \in DOMAIN client.asks
  BY HeadAsk DEF ServePage
<1>3. last \in Nat /\ log = 1..last /\ client.rows \subseteq 1..last /\ last <= Total
  BY LastFits DEF Inv, TypeOK, Steady, Sound, Clients, Row
<1>4. Ready(client, jobs, wire)
  BY DEF Steady, Sitting
<1> HIDE DEF a
<1>5. a.mode \in Modes /\ a.id \in Nat /\ a.limit \in Nat
  BY <1>2 DEF Asks
<1>6. Getting(a)
  BY <1>2, <1>4 DEF Ready, Gets
<1>8. a.mode = "before" => a.id \in LowAsked(client.asks) /\ a.id <= last
  <2> SUFFICES ASSUME a.mode = "before" PROVE a.id \in LowAsked(client.asks) /\ a.id <= last
    OBVIOUS
  <2>1. a.id \in LowAsked(client.asks)
    BY <1>2, <1>5 DEF LowAsked
  <2>2. a.id \in 1..last
    BY <1>3, <1>4, <2>1 DEF Ready, Lows
  <2> QED BY <1>3, <2>1, <2>2
<1>9. p.t = "page" /\ p.mode = a.mode /\ p.cur = a.id /\ PageFits(p, last)
  BY <1>2, <1>3, <1>5, <1>6, <1>8, PageForFits
<1> HIDE DEF p
<1>11. Room'
  BY <1>1, RoomKept DEF Steady
<1>12. last' \in Nat /\ last <= last' /\ log' = 1..last'
  BY <1>1, <1>3
<1>13. Moves(p, last, last')
  BY <1>1, <1>9 DEF Moves
<1>14. Stays(client, client')
  BY <1>1, <1>2, ServedStays
<1>15. p.t # "auth" /\ (p.t = "page" /\ p.mode = "before" => p.cur \in LowAsked(client.asks))
  BY <1>8, <1>9
<1> QED BY <1>1, <1>11, <1>12, <1>13, <1>14, <1>15, PushedSteady

-----------------------------------------------------------------------------
(* A packet is read, and handed on, or skipped.                            *)
LEMMA HeadOfWire ==
  ASSUME Inv, Steady, wire # <<>>
  PROVE  /\ up /\ client \in Clients(last) /\ Sound(client) /\ last \in Nat
         /\ jobs \in Seq(Packets(last)) /\ wire \in Seq(Packets(last))
         /\ Head(wire) \in Packets(last) /\ Tail(wire) \in Seq(Packets(last))
         /\ LowIn(Tail(wire)) \subseteq LowIn(wire) /\ (BackIn(Tail(wire)) => BackIn(wire))
         /\ Head(wire).t = "page" /\ Head(wire).mode = "before" => Head(wire).cur \in LowIn(wire)
         /\ (Head(wire).t = "auth" <=> BackIn(wire)) /\ ~BackIn(Tail(wire))
         /\ Head(wire).t = "auth" => jobs = <<>>
         /\ \E h, mid, c \in Nat :
              /\ Carries(jobs, h, mid) /\ Carries(Tail(wire), c, last)
              /\ Moves(Head(wire), mid, c) /\ Seated(client, h, BackIn(wire))
<1> DEFINE p == Head(wire)
           r == Tail(wire)
<1>1. /\ client \in Clients(last) /\ Sound(client) /\ last \in Nat
      /\ jobs \in Seq(Packets(last)) /\ wire \in Seq(Packets(last))
  BY DEF Inv, TypeOK, Sound
<1>2. Sitting(client, jobs, wire, up, last) /\ up
  BY DEF Steady, Sitting
<1>3. PICK h \in Nat, mid \in Nat : /\ Carries(jobs, h, mid) /\ Carries(wire, mid, last)
                                    /\ Seated(client, h, Away(jobs, wire, up))
  BY <1>2 DEF Sitting, Carried
<1>4. PICK c \in Nat : Moves(p, mid, c) /\ Carries(r, c, last)
  BY <1>1, <1>3, CarriesNext
<1>5. p \in Packets(last) /\ r \in Seq(Packets(last)) /\ p.cur \in Nat
  <2>1. p \in Packets(last) /\ r \in Seq(Packets(last))
    BY <1>1
  <2> HIDE DEF p, r
  <2> QED BY <2>1 DEF Packets
<1>6. /\ LowIn(r) \subseteq LowIn(wire) /\ (BackIn(r) => BackIn(wire))
      /\ p.t = "page" /\ p.mode = "before" => p.cur \in LowIn(wire)
      /\ p.t = "auth" => BackIn(wire)
  BY <1>1, <1>5, LaneLess
<1>7. BackIn(wire) => /\ p.t = "auth" /\ jobs = <<>>
                      /\ \A k \in DOMAIN wire : wire[k].t = "auth" => k = 1
  BY <1>2 DEF Sitting, Returns
<1>8. ~BackIn(r)
  <2>1. \A k \in DOMAIN r : k + 1 \in DOMAIN wire /\ k + 1 # 1 /\ r[k] = wire[k + 1]
    BY <1>1, TailEach
  <2> HIDE DEF r
  <2> QED BY <1>6, <1>7, <2>1 DEF BackIn
<1>9. Away(jobs, wire, up) = BackIn(wire)
  BY <1>2 DEF Away, BackIn
<1>10. Seated(client, h, BackIn(wire))
  BY <1>3, <1>9
<1> HIDE DEF p, r
<1>11. \E h1, mid1, c1 \in Nat :
         /\ Carries(jobs, h1, mid1) /\ Carries(r, c1, last)
         /\ Moves(p, mid1, c1) /\ Seated(client, h1, BackIn(wire))
  BY <1>3, <1>4, <1>10
<1> QED BY <1>1, <1>2, <1>5, <1>6, <1>7, <1>8, <1>11 DEF p, r

(* The packets behind it, and a slice that goes on from it.                *)
LEMMA ReadOn ==
  ASSUME Inv, Steady, wire # <<>>, wire' = Tail(wire), UNCHANGED <<log, last, stored, up>>,
         NEW h \in Nat, NEW mid \in Nat, Carries(jobs', h, mid), Carries(Tail(wire), mid, last),
         Seated(client', h, FALSE), Ready(client', jobs', Tail(wire)),
         Placed(client', jobs', Tail(wire), up)
  PROVE  Steady'
<1> DEFINE r == Tail(wire)
           d == client'
           j == jobs'
<1>1. up /\ ~BackIn(r) /\ last \in Nat
  BY HeadOfWire
<1>2. wire' = r
  OBVIOUS
<1> HIDE DEF r
<1>3. Seated(d, h, Away(j, r, up))
  <2>1. ~Away(j, r, up)
    BY <1>1 DEF Away
  <2> QED BY <2>1 DEF Seated
<1>4. Carried(d, j, r, up, last)
  <2>1. Carries(j, h, mid) /\ Carries(r, mid, last)
    BY DEF r
  <2>2. last <= last /\ (up => last = last)
    BY <1>1
  <2> HIDE DEF d, j
  <2> QED BY <1>1, <1>3, <2>1, <2>2 DEF Carried
<1>5. Sitting(d, j, r, up, last)
  BY <1>1, <1>4 DEF Sitting, Returns, r
<1>6. Sitting(client', jobs', wire', up', last')
  BY <1>2, <1>5
<1>7. Room'
  BY DEF Steady, Room, StoredOfSends
<1> QED BY <1>6, <1>7 DEF Steady

LEMMA ReadSteady ==
  ASSUME Undisturbed, Inv, Steady, Read
  PROVE  Steady'
<1> DEFINE p == Head(wire)
           r == Tail(wire)
<1>1. wire # <<>> /\ wire' = Tail(wire) /\ UNCHANGED <<log, last, stored, up, spent>>
  BY DEF Read
<1>2. /\ up /\ client \in Clients(last) /\ Sound(client) /\ last \in Nat
      /\ jobs \in Seq(Packets(last)) /\ wire \in Seq(Packets(last))
      /\ p \in Packets(last) /\ r \in Seq(Packets(last))
      /\ LowIn(r) \subseteq LowIn(wire) /\ (BackIn(r) => BackIn(wire))
      /\ p.t = "page" /\ p.mode = "before" => p.cur \in LowIn(wire)
      /\ (p.t = "auth" <=> BackIn(wire)) /\ ~BackIn(r)
      /\ p.t = "auth" => jobs = <<>>
  BY <1>1, HeadOfWire
<1>3. PICK h \in Nat, mid \in Nat, c \in Nat :
         /\ Carries(jobs, h, mid) /\ Carries(r, c, last)
         /\ Moves(p, mid, c) /\ Seated(client, h, BackIn(wire))
  BY <1>1, HeadOfWire
<1>4. p.t \in {"msg", "page", "auth", "rejected"} /\ (p.t \notin {"msg", "page"} => c = mid)
  BY <1>3 DEF Moves
<1>5. Ready(client, jobs, wire) /\ Placed(client, jobs, wire, up)
  BY DEF Steady, Sitting
<1> HIDE DEF p, r
<1>6. ASSUME NEW i \in Nat, Carries(jobs', h, i), Carries(r, i, last),
             Seated(client', h, FALSE), Ready(client', jobs', r), Placed(client', jobs', r, up)
      PROVE  Steady'
  BY <1>1, <1>6, ReadOn DEF r
<1>11. CASE p.t \in {"msg", "page"}
  <2> DEFINE j == Append(jobs, p)
  <2>1. jobs' = j /\ client' = client
    BY <1>11 DEF Read, p
  <2>2. ~BackIn(wire)
    BY <1>2, <1>11
  <2>3. Carries(j, h, c)
    BY <1>2, <1>3, CarriesMore
  <2>4. \A x \in LowIn(j) : x \in LowIn(jobs) \/ (p.t = "page" /\ p.mode = "before" /\ p.cur = x)
    BY <1>2, LaneMore
  <2> HIDE DEF j
  <2>5. LowIn(j) \subseteq LowIn(jobs) \cup LowIn(wire)
    BY <1>2, <2>4
  <2>6. Lows(client, j, r) \subseteq Lows(client, jobs, wire)
    BY <1>2, <2>5 DEF Lows
  <2>7. Ready(client, j, r) /\ Placed(client, j, r, up)
    BY <1>2, <1>5, <2>6 DEF Ready, Placed
  <2>8. Seated(client, h, FALSE)
    BY <1>3, <2>2 DEF Seated
  <2> QED BY <1>3, <1>6, <2>1, <2>3, <2>7, <2>8
<1>7. Lows(client, jobs, r) \subseteq Lows(client, jobs, wire)
  BY <1>2 DEF Lows
<1>8. Ready(client, jobs, r) /\ Placed(client, jobs, r, up)
  BY <1>2, <1>5, <1>7 DEF Ready, Placed
<1>12. CASE p.t = "rejected"
  <2>1. jobs' = jobs /\ client' = OnDirect(client, p)
    BY <1>12 DEF Read, p
  <2>2. client' = Withdraw(client, p.send) \/ client' = client
    BY <1>12, <2>1 DEF OnDirect
  <2>3. Stays(client, client')
    BY <1>2, <2>2, WithdrawStays, StaysOn
  <2>4. Seated(client, h, FALSE)
    BY <1>2, <1>3, <1>12 DEF Seated
  <2>5. Seated(client', h, FALSE) /\ Ready(client', jobs, r) /\ Placed(client', jobs, r, up)
    BY <1>8, <2>3, <2>4, StaysReady
  <2>6. Carries(r, mid, last)
    BY <1>3, <1>4, <1>12
  <2> QED BY <1>3, <1>6, <2>1, <2>5, <2>6
<1>13. CASE p.t = "auth"
  <2> DEFINE d == OnAuth(client)
  <2>1. jobs' = jobs /\ client' = d
    BY <1>13 DEF Read, OnDirect, p
  <2>2. BackIn(wire) /\ ~Calm /\ Enough
    BY <1>2, <1>5, <1>13 DEF Placed, Undisturbed, Enough
  <2>3. Seated(d, h, FALSE) /\ Eases(client.asks, d.asks) /\ (d.older => client.older)
    BY <1>2, <1>3, <2>2, OnAuthSits
  <2> HIDE DEF d
  <2>4. ~client.older /\ Lows(client, jobs, r) = {} /\ Gets(client.asks)
    BY <1>8, <2>2 DEF Ready, Placed
  <2>5. Lows(d, jobs, r) = {} /\ Gets(d.asks)
    BY <2>3, <2>4 DEF Lows, Eases
  <2>6. Ready(d, jobs, r) /\ Placed(d, jobs, r, up)
    BY <2>2, <2>3, <2>4, <2>5 DEF Ready, Placed
  <2>7. Carries(r, mid, last)
    BY <1>3, <1>4, <1>13
  <2> QED BY <1>3, <1>6, <2>1, <2>3, <2>6, <2>7
<1> QED BY <1>4, <1>11, <1>12, <1>13

LEMMA SkipFrameSteady ==
  ASSUME Inv, Steady, SkipFrame
  PROVE  Steady'
<1> DEFINE p == Head(wire)
           r == Tail(wire)
<1>1. /\ wire # <<>> /\ p.t = "page" /\ wire' = Tail(wire)
      /\ UNCHANGED <<log, last, stored, up, jobs, client>>
  BY DEF SkipFrame
<1>2. up /\ LowIn(r) \subseteq LowIn(wire) /\ ~BackIn(r) /\ (p.t = "auth" <=> BackIn(wire))
  BY <1>1, HeadOfWire
<1>3. PICK h \in Nat, mid \in Nat, c \in Nat :
         /\ Carries(jobs, h, mid) /\ Carries(r, c, last)
         /\ Moves(p, mid, c) /\ Seated(client, h, BackIn(wire))
  BY <1>1, HeadOfWire
<1>4. Ready(client, jobs, wire) /\ Placed(client, jobs, wire, up)
  BY DEF Steady, Sitting
<1>5. c = mid /\ ~BackIn(wire)
  BY <1>1, <1>2, <1>3 DEF Moves
<1> HIDE DEF p, r
<1>7. Lows(client, jobs, r) \subseteq Lows(client, jobs, wire)
  BY <1>2 DEF Lows
<1>8. Ready(client, jobs, r) /\ Placed(client, jobs, r, up)
  BY <1>2, <1>4, <1>7 DEF Ready, Placed
<1>9. Seated(client, h, FALSE)
  BY <1>3, <1>5 DEF Seated
<1>10. /\ Carries(jobs', h, mid) /\ Carries(Tail(wire), mid, last)
       /\ Seated(client', h, FALSE) /\ Ready(client', jobs', Tail(wire))
       /\ Placed(client', jobs', Tail(wire), up)
  BY <1>1, <1>3, <1>5, <1>8, <1>9 DEF r
<1> QED BY <1>1, <1>10, ReadOn

(* The worker hands on a message, or a page.                               *)
LEMMA WorkSteady ==
  ASSUME Undisturbed, Inv, Steady, ForWorker, Work
  PROVE  Steady'
<1> DEFINE p == Head(jobs)
           i == Tail(jobs)
           k == last
           away == Away(jobs, wire, up)
<1>1. /\ client \in Clients(last) /\ Sound(client) /\ last \in Nat /\ Enough /\ Roomy
      /\ jobs \in Seq(Packets(last)) /\ wire \in Seq(Packets(last))
      /\ stored \in [Sends -> 0..last]
  BY DEF Inv, TypeOK, Sound, Undisturbed, Enough
<1>2. jobs # <<>> /\ jobs' = i /\ UNCHANGED <<log, last, stored, up, wire, spent>>
  BY DEF Work
<1>3. /\ Sitting(client, jobs, wire, up, last) /\ Ready(client, jobs, wire)
      /\ Placed(client, jobs, wire, up) /\ ~BackIn(wire) /\ ~away
  BY <1>2 DEF Steady, Sitting, Returns, Away
<1>4. PICK h \in Nat, mid \in Nat, top \in Nat :
        /\ Carries(jobs, h, mid) /\ Carries(wire, mid, top) /\ top <= k
        /\ (up => top = k) /\ Seated(client, h, away)
  BY <1>3 DEF Sitting, Carried
<1>5. PICK c \in Nat : Moves(p, h, c) /\ Carries(i, c, mid)
  BY <1>1, <1>2, <1>4, CarriesNext
<1>6. /\ LowIn(i) \subseteq LowIn(jobs)
      /\ p.t = "page" /\ p.mode = "before" /\ p.cur \in Nat => p.cur \in LowIn(jobs)
  BY <1>1, <1>2, LaneLess
<1>7. p \in Packets(last) /\ i \in Seq(Packets(last)) /\ PacketOK(p, last) /\ p.t \in {"msg", "page"}
  <2>1. 1 \in DOMAIN jobs /\ p = jobs[1]
    BY <1>1, <1>2, TailEach
  <2>2. p \in Packets(last) /\ i \in Seq(Packets(last))
    BY <1>1, <1>2
  <2> HIDE DEF p, i
  <2> QED BY <2>1, <2>2 DEF Inv, TypeOK, ForWorker
<1>8. c <= mid /\ mid <= top
  <2> HIDE DEF i
  <2> QED BY <1>1, <1>4, <1>5, <1>7, CarriesUp
<1> HIDE DEF away
<1>9. ASSUME NEW d, client' = d, Carries(i, c, mid), Seated(d, c, away),
             Ready(d, i, wire), Placed(d, i, wire, up)
      PROVE  Steady'
  <2> HIDE DEF i, p
  <2>1. Seated(d, c, Away(i, wire, up))
    BY <1>3, <1>9 DEF Seated
  <2>2. Carried(d, i, wire, up, k)
    BY <1>4, <1>5, <2>1 DEF Carried
  <2>3. Sitting(d, i, wire, up, k)
    BY <1>3, <1>9, <2>2 DEF Sitting, Returns
  <2>4. Sitting(client', jobs', wire', up', last')
    BY <1>2, <1>9, <2>3
  <2>5. Room'
    BY <1>2 DEF Steady, Room, StoredOfSends
  <2> QED BY <1>2, <2>4, <2>5 DEF Steady
<1>10. CASE p.t = "msg"
  <2>1. client' = AddMessage(client, p.id, p.send)
    BY <1>10 DEF Work
  <2>2. c = h + 1 /\ p.id = h + 1 /\ h + 1 <= last /\ last <= Total
    <3>1. last <= Total
      BY LastFits DEF Steady
    <3> QED BY <1>1, <1>4, <1>5, <1>8, <1>10, <3>1 DEF Moves, k
  <2> DEFINE d == AddMessage(client, h + 1, p.send)
  <2>3. client' = d
    BY <2>1, <2>2
  <2> HIDE DEF p, i, k
  <2>4. /\ Seated(d, h + 1, away) /\ Merges(client, d) /\ d.newer = client.newer
        /\ client.rows \subseteq d.rows /\ d.older = client.older
    <3> DEFINE n == p.send
    <3> HIDE DEF n
    <3>1. /\ Roomy /\ Sound(client) /\ h \in Nat /\ Seated(client, h, FALSE)
          /\ last \in Nat /\ last <= Total /\ h + 1 <= last
      BY <1>1, <1>3, <1>4, <2>2 DEF Seated
    <3>2. LET e == AddMessage(client, h + 1, n) IN
          /\ Seated(e, h + 1, FALSE) /\ Merges(client, e) /\ e.newer = client.newer
          /\ client.rows \subseteq e.rows /\ e.older = client.older
      BY ONLY <3>1, AddMessageSits
    <3>3. Seated(d, h + 1, away)
      BY <3>2 DEF n, Seated
    <3> QED BY <3>2, <3>3 DEF n
  <2> HIDE DEF d
  <2>5. Lows(d, i, wire) \subseteq Lows(client, jobs, wire)
    BY <1>6, <2>4 DEF Merges, Lows
  <2>6. Ready(d, i, wire) /\ Placed(d, i, wire, up)
    BY <1>3, <2>4, <2>5 DEF Ready, Placed, Merges
  <2> QED BY <1>5, <1>9, <2>2, <2>3, <2>4, <2>6
<1>11. CASE p.t = "page"
  <2> DEFINE d == OnHistory(client, p)
  <2>1. client' = d
    BY <1>11 DEF Work
  <2>2. c = h /\ PageFits(p, h)
    BY <1>5, <1>11 DEF Moves
  <2> HIDE DEF p, i, k
  <2>3. p.mode \in Modes /\ (Calm \/ ~p.more)
    BY <1>7, <1>11, <2>2 DEF PacketOK, PageFits
  <2>4. p.mode = "before" => p.cur \in client.rows
    <3>1. p.cur \in Nat
      BY <1>7 DEF Packets
    <3> QED BY <1>3, <1>6, <1>11, <3>1 DEF Ready, Lows
  <2>6. /\ Seated(d, h, away) /\ Eases(client.asks, d.asks) /\ (d.newer => client.newer)
        /\ ~client.newer \/ p.mode # "latest" => client.rows \subseteq d.rows
        /\ d.older => p.more \/ client.older
    BY <1>1, <1>3, <1>4, <1>7, <1>11, <2>2, <2>3, <2>4, OnHistoryLands
  <2> HIDE DEF d
  <2>7. Lows(d, i, wire) \subseteq Lows(client, jobs, wire) /\ Gets(d.asks)
    BY <1>3, <1>6, <2>6 DEF Lows, Eases, Ready
  <2>8. CASE Calm
    BY <1>3, <1>5, <1>9, <2>1, <2>2, <2>6, <2>7, <2>8 DEF Ready, Placed
  <2>9. CASE ~Calm
    BY <1>3, <1>5, <1>9, <2>1, <2>2, <2>3, <2>6, <2>7, <2>9 DEF Ready, Placed
  <2> QED BY <2>8, <2>9
<1> QED BY <1>7, <1>10, <1>11

(* The first state, and every step.                                        *)
LEMMA InitSteady == Init => Steady
<1> SUFFICES ASSUME Init PROVE Steady
  OBVIOUS
<1>1. /\ jobs = <<>> /\ wire = <<>> /\ up /\ last = OldRows /\ log = 1..last
      /\ client.asks = <<>> /\ client.rows = {} /\ client.held = {}
      /\ client.deleting = {} /\ ~client.newer /\ ~client.older
  BY DEF Init
<1>2. OldRows \in Nat
  BY BoundsAssumption
<1>3. Room
  BY InitTold DEF Told
<1>4. LowIn(<<>>) = {} /\ ~BackIn(<<>>)
  BY LaneNone
<1>5. LowAsked(<<>>) = {} /\ Gets(<<>>)
  <2>1. DOMAIN <<>> = {}
    OBVIOUS
  <2> QED BY <2>1 DEF LowAsked, Gets
<1>7. Seated(client, OldRows, Away(jobs, wire, up))
  BY <1>1 DEF Seated, Solid
<1>8. Carried(client, jobs, wire, up, last)
  <2>1. Carries(jobs, OldRows, OldRows) /\ Carries(wire, OldRows, OldRows)
    BY <1>1, <1>2, CarriesNone
  <2>2. OldRows <= last /\ (up => OldRows = last)
    BY <1>1, <1>2
  <2> QED BY <1>2, <1>7, <2>1, <2>2 DEF Carried
<1>9. Ready(client, jobs, wire) /\ Placed(client, jobs, wire, up)
  BY <1>1, <1>4, <1>5 DEF Ready, Placed, Lows
<1>11. Returns(up, jobs, wire)
  BY <1>1, <1>4 DEF Returns
<1>12. Sitting(client, jobs, wire, up, last)
  BY <1>1, <1>8, <1>9, <1>11 DEF Sitting
<1> QED BY <1>1, <1>3, <1>12 DEF Steady

LEMMA SameSteady ==
  ASSUME Steady, UNCHANGED vars
  PROVE  Steady'
<1>1. UNCHANGED <<log, last, stored, up, wire, jobs, client, spent>>
  BY DEF vars
<1>2. Sitting(client', jobs', wire', up', last')
  BY <1>1 DEF Steady
<1>3. Room'
  BY <1>1 DEF Steady, Room, StoredOfSends
<1> QED BY <1>1, <1>2, <1>3 DEF Steady

LEMMA NextSteady ==
  ASSUME Undisturbed, Inv, ForWorker, Steady, [Next]_vars
  PROVE  Steady'
<1>0. Enough
  BY DEF Undisturbed, Enough
<1>1. /\ ~ServeDelete /\ ~JumpToPresent
      /\ \A id : ~ServerDelete(id) /\ ~DeleteMine(id) /\ ~JumpTo(id) /\ ~DeleteTimeout(id)
      /\ \A keep : ~TrimTail(keep) /\ ~TrimHead(keep)
  BY NotTaken
<1>2. CASE Post
  BY <1>2, PostSteady
<1>3. CASE Serve
  BY <1>1, <1>3, StoreSendSteady, RefuseSendSteady, ServePageSteady DEF Serve
<1>4. CASE Transport
  BY <1>4, ReadSteady, WorkSteady, SkipFrameSteady, DropSteady, ReconnectSteady DEF Transport
<1>5. CASE User
  BY <1>0, <1>1, <1>5, AsideSteady, VisitSteady, EvictSteady, LoadOlderSteady, LoadNewerSteady
     DEF User
<1>6. CASE Timers
  BY <1>0, <1>1, <1>6, RetryLoadSteady, WaitsSteady, SendsSteady DEF Timers
<1>7. CASE UNCHANGED vars
  BY <1>7, SameSteady
<1> QED BY <1>1, <1>2, <1>3, <1>4, <1>5, <1>6, <1>7 DEF Next

LEMMA SpecSteady == ASSUME Undisturbed PROVE Spec => []Steady
<1>1. Inv /\ ForWorker /\ [Next]_vars => ForWorker'
  BY ForWorkerKept
<1>3. Inv /\ ForWorker /\ Steady /\ [Next]_vars => Steady'
  BY NextSteady
<1>4. Init => Steady /\ ForWorker
  BY InitSteady, InitTold
<1> QED BY <1>1, <1>3, <1>4, SpecInv, PTL DEF Spec

(* Live rows, and pages of the newest, of older and of newer rows, come in *)
(* while messages are posted and sent, pages are lost and waits run out,   *)
(* the channel is left, pushed out and visited again, and the connection   *)
(* is lost and comes back, however often and at whatever moment: the slice *)
(* never has a hole.  Where it may be dropped or fall behind, the channel  *)
(* fits into a page, and none older is ever asked for; where it may not,   *)
(* the channel is of any length.  Without either, an older page lands      *)
(* below a slice it does not meet (mergeStoredPage, holdLive, addMessage). *)
THEOREM NoHoles == ASSUME Undisturbed PROVE Spec => []Contiguous
<1>1. Inv /\ Steady => Contiguous
  <2> SUFFICES ASSUME Inv, Steady, NEW r \in Hidden(client.rows, log) PROVE FALSE
    BY DEF Contiguous
  <2>1. client.rows \in SUBSET (1..last) /\ last \in Nat
    BY DEF Inv, TypeOK, Sound, Clients, Row
  <2>2. Solid(client.rows) /\ log = 1..last
    BY DEF Steady, Sitting, Carried, Seated
  <2> QED BY <2>1, <2>2 DEF Hidden, Solid
<1> QED BY <1>1, SpecInv, SpecSteady, PTL

(* A slice that says it is at the present is: once                         *)
(* community_auth_responded was handed over, each stored row above the     *)
(* oldest it holds is in it, or among the messages on their way to it, on  *)
(* screen and in the background, before a connection is lost and after it  *)
(* is back (hasMoreAfter, markServerStale, setResyncing).                  *)
THEOREM PresentIsPresent == ASSUME Undisturbed PROVE Spec => []AtPresent
<1>1. Inv /\ Steady => AtPresent
  <2> SUFFICES ASSUME Inv, Steady, InStep, client.fetched, ~client.newer, client.rows # {},
                      NEW r \in log, r > Oldest(client.rows), r \notin client.rows
               PROVE  InFlight(r)
    BY DEF AtPresent
  <2>1. /\ client.rows \in SUBSET (1..last) /\ last \in Nat
        /\ jobs \in Seq(Packets(last)) /\ wire \in Seq(Packets(last))
    BY DEF Inv, TypeOK, Sound, Clients, Row
  <2>2. log = 1..last /\ Sitting(client, jobs, wire, up, last)
    BY DEF Steady
  <2>3. PICK h \in Nat, mid \in Nat, top \in Nat :
          /\ Carries(jobs, h, mid) /\ Carries(wire, mid, top) /\ top <= last
          /\ (up => top = last) /\ Seated(client, h, Away(jobs, wire, up))
    BY <2>2 DEF Sitting, Carried
  <2>4. up /\ ~BackIn(wire) /\ ~Away(jobs, wire, up)
    BY DEF InStep, BackIn, Away
  <2>5. Solid(client.rows) /\ h \in client.rows /\ top = last
    BY <2>3, <2>4 DEF Seated
  <2> DEFINE rows == client.rows
             lo == Oldest(rows)
  <2>6. r \in Nat /\ r <= last
    BY <2>1, <2>2
  <2>7. lo \in rows
    BY <2>1, OldestIs
  <2> HIDE DEF lo
  <2>8. h < r
    <3>1. \A x \in rows : x \in Nat
      BY <2>1
    <3>2. lo < r /\ lo \in Nat
      BY <2>6, <2>7, <3>1 DEF lo
    <3>3. ~(r <= h)
      BY <2>5, <2>6, <2>7, <3>1, <3>2, SolidHas
    <3> QED BY <2>6, <3>3
  <2>9. r <= mid \/ mid < r
    BY <2>6
  <2>10. CASE r <= mid
    <3>1. \E k \in DOMAIN jobs : jobs[k].t = "msg" /\ jobs[k].id = r
      BY <2>1, <2>3, <2>6, <2>8, <2>10, CarriesRow
    <3> QED BY <3>1 DEF InFlight
  <2>11. CASE mid < r
    <3>1. Carries(wire, mid, last) /\ r \in Nat /\ r <= last
      BY <2>3, <2>5, <2>6
    <3>2. \E k \in DOMAIN wire : wire[k].t = "msg" /\ wire[k].id = r
      BY <2>1, <3>1, <2>11, CarriesRow
    <3> QED BY <3>2 DEF InFlight
  <2> QED BY <2>9, <2>10, <2>11
<1> QED BY <1>1, SpecInv, SpecSteady, PTL
=============================================================================
