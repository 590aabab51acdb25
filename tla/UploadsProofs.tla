---------------------------- MODULE UploadsProofs ----------------------------
(***************************************************************************)
(* Proofs about Uploads, for any number of uploads, blocks, retries and    *)
(* faults: a ready attachment is whole and what was acknowledged is stored.*)
(*                                                                         *)
(* Files are prefixes and a writer is never ahead of the file it has open  *)
(* (Grounds); a handler between two changes has a state of its own (Begun);*)
(* of what is under way for an upload one thing at most is what the client *)
(* waits for (Spoken); and that one carries the acknowledged blocks (Kept).*)
(***************************************************************************)
EXTENDS Uploads, TLAPS

Rows == {"none", "uploading", "ready", "bound", "purged", "removed", "swept"}
Waits == {"init", "patch", "complete"}
Ats == {"queued", "init", "next", "patch", "complete", "ready", "failed", "sent"}
Files == (SUBSET Block) \cup {Absent}
Asks == [op : Waits, from : 0 .. Size, heard : BOOLEAN]
Writers == [got : 0 .. Size, put : 0 .. Size, to : 0 .. Size,
            onto : {"part", "file", "gone"}, heard : BOOLEAN]
Clients == [at : Ats, offset : 0 .. Size, tries : Nat]
Doings == [op : {"init", "complete", "sweep"} \cup Removals, on : Uploads]

TypeOK ==
  /\ row \in [Uploads -> Rows]
  /\ part \in [Uploads -> Files] /\ file \in [Uploads -> Files]
  /\ idle \subseteq Uploads /\ old \subseteq Uploads /\ torn \subseteq Uploads
  /\ writers \in [Uploads -> SUBSET Writers] /\ asks \in [Uploads -> SUBSET Asks]
  /\ reply \in [Uploads -> {"none", "ok", "error", "gone"}]
  /\ client \in [Uploads -> Clients]
  /\ doing \in {Nothing} \cup Doings /\ faults \in Nat

Doing(op, u) == doing = [op |-> op, on |-> u]

\* f is a prefix of the blocks.
Prefix(f) == f = Absent \/ \E n \in 0 .. Size : f = 0 .. n - 1

\* The file has the blocks before n.
Has(f, n) == \A b \in Block : b < n => b \in f

\* What a writer has open holds what it has written.
Behind(u, w) ==
  /\ w.put <= w.got /\ w.got <= w.to
  /\ w.onto = "part" => part[u] # Absent /\ Has(part[u], w.put)
  /\ w.onto = "file" => file[u] # Absent /\ Has(file[u], w.put)

Grounds(u) ==
  /\ Prefix(part[u]) /\ Prefix(file[u])
  /\ \A w \in writers[u] : Behind(u, w)
  /\ row[u] = "none" \/ Doing("init", u) => writers[u] = {}
  /\ row[u] = "uploading" /\ ~Doing("complete", u) =>
       \A w \in writers[u] : w.onto # "file"

Begun(u) ==
  /\ Doing("init", u) => row[u] = "uploading"
  /\ Doing("complete", u) =>
       /\ row[u] = "uploading" /\ file[u] = Block /\ part[u] = Absent
       /\ client[u].at \in {"complete", "failed"} /\ reply[u] = "none"
  /\ Doing("abort", u) => row[u] = "removed"
  /\ Doing("remove", u) \/ Doing("prune", u) => row[u] = "removed" \/ (row[u] \in Live /\ u \in torn)
  /\ Doing("purge", u) => row[u] = "purged"

Whole(u) == row[u] \in {"ready", "bound"} /\ ~Sweeping(u) => file[u] = Block

\* The one thing the client waits for.
Waited(u) ==
  /\ reply[u] # "none" =>
       Awaits(u) /\ \A x \in asks[u] \cup writers[u] : ~x.heard
  /\ \A a \in asks[u] : a.heard =>
       /\ client[u].at = a.op /\ (a.op = "patch" => a.from = client[u].offset)
       /\ \A x \in (asks[u] \ {a}) \cup writers[u] : ~x.heard
  /\ \A w \in writers[u] : w.heard =>
       /\ client[u].at = "patch" /\ w.to = UpTo(client[u].offset)
       /\ \A x \in asks[u] \cup (writers[u] \ {w}) : ~x.heard

\* Only a PATCH is repeated.
Once(u) ==
  \A a \in asks[u] : a.op # "patch" =>
    /\ client[u].at = a.op \/ client[u].at = "failed"
    /\ reply[u] = "none"
    /\ \A b \in asks[u] : b.op = a.op => b = a

Early(u) ==
  /\ client[u].at \in {"queued", "init"} => client[u].offset = 0
  /\ row[u] = "none" => client[u].at \in {"queued", "init", "failed"} /\ reply[u] # "ok"
  /\ client[u].at = "queued" => asks[u] = {}

Spoken(u) == Waited(u) /\ Once(u) /\ Early(u)

Alive(u) == row[u] = "uploading" /\ ~Sweeping(u)

\* Where the acknowledged blocks are.
Kept(u) ==
  Alive(u) =>
    /\ client[u].at \in {"next", "patch", "complete"} => Has(Held(u), client[u].offset)
    /\ client[u].at = "patch" /\ reply[u] = "ok" => Has(Held(u), UpTo(client[u].offset))
    /\ client[u].at \in {"next", "patch"} \/ (client[u].at = "init" /\ reply[u] = "ok")
         => part[u] # Absent
    /\ client[u].at = "complete" /\ part[u] = Absent /\ ~Doing("complete", u)
         => \A a \in asks[u] : a.op # "patch"
    /\ \A w \in writers[u] : w.heard => w.onto = "part"

UploadOK(u) == Grounds(u) /\ Begun(u) /\ Whole(u) /\ Spoken(u) /\ Kept(u)
IInv == TypeOK /\ \A u \in Uploads : UploadOK(u)

-----------------------------------------------------------------------------
(* Data.                                                                   *)

USE UploadsAssumption

Ops == {"init", "complete", "sweep"} \cup Removals

LEMMA Numbers ==
  /\ Size \in Nat \ {0} /\ Chunk \in Nat \ {0} /\ {} # Absent
  /\ \A n \in 0 .. Size : 0 .. n - 1 # Absent /\ 0 .. n - 1 \subseteq Block
  /\ Block = 0 .. Size - 1 /\ Block # Absent
BY DEF Block

LEMMA UpToType ==
  ASSUME NEW n \in 0 .. Size
  PROVE  UpTo(n) \in 0 .. Size /\ n <= UpTo(n)
BY DEF UpTo

LEMMA NothingIsDone ==
  ASSUME doing = Nothing, NEW u PROVE \A op \in Ops : ~Doing(op, u)
BY DEF Doing, Nothing, Ops, Removals

LEMMA NothingWillBeDone ==
  ASSUME doing' = Nothing, NEW u PROVE \A op \in Ops : ~Doing(op, u)'
BY DEF Doing, Nothing, Ops, Removals

\* A prefix that ends at n has all blocks before n.
LEMMA EndsAtIsAll ==
  ASSUME NEW f, Prefix(f), NEW n \in 0 .. Size, EndsAt(f, n)
  PROVE  Content(f) = 0 .. n - 1
<1>1. CASE f = Absent
  <2>1. Content(f) = {} BY <1>1 DEF Content
  <2>2. n = 0 BY <2>1 DEF EndsAt
  <2> QED BY <2>1, <2>2
<1>2. CASE f # Absent
  <2>1. PICK m \in 0 .. Size : f = 0 .. m - 1 BY <1>2 DEF Prefix
  <2>2. Content(f) = 0 .. m - 1 BY <1>2, <2>1 DEF Content
  <2>3. m <= n
    <3>1. CASE m > 0
      <4>1. m - 1 \in Content(f) BY <3>1, <2>2
      <4> QED BY <4>1 DEF EndsAt
    <3>2. CASE m = 0 BY <3>2
    <3> QED BY <3>1, <3>2
  <2>4. n <= m
    <3>1. CASE n > 0
      <4>1. n - 1 \in Content(f) BY <3>1 DEF EndsAt
      <4> QED BY <4>1, <2>2
    <3>2. CASE n = 0 BY <3>2
    <3> QED BY <3>1, <3>2
  <2> QED BY <2>2, <2>3, <2>4
<1> QED BY <1>1, <1>2

\* What is written behind what is there keeps a prefix a prefix.
LEMMA PutKeepsPrefix ==
  ASSUME NEW f \in Files, Prefix(f), f # Absent, NEW p \in 0 .. Size, NEW n \in 0 .. Size,
         p <= n, Has(f, p)
  PROVE  LET g == f \cup (p .. n - 1)
         IN  Prefix(g) /\ g \in SUBSET Block /\ g # Absent /\ Has(g, n) /\ f \subseteq g
<1> DEFINE g == f \cup (p .. n - 1)
<1> HIDE DEF g
<1>1. PICK m \in 0 .. Size : f = 0 .. m - 1 BY DEF Prefix
<1>2. p <= m
  <2>1. CASE p > 0
    <3>1. p - 1 \in Block BY <2>1 DEF Block
    <3>2. p - 1 \in f BY <2>1, <3>1 DEF Has
    <3> QED BY <3>2, <1>1
  <2>2. CASE p = 0 BY <2>2
  <2> QED BY <2>1, <2>2
<1>3. g = 0 .. (IF m < n THEN n ELSE m) - 1 BY <1>1, <1>2 DEF g
<1>4. PICK k \in 0 .. Size : k >= n /\ g = 0 .. k - 1
  <2>1. CASE m < n BY <1>3, <2>1
  <2>2. CASE ~(m < n) BY <1>3, <2>2
  <2> QED BY <2>1, <2>2
<1>5. Prefix(g) BY <1>4 DEF Prefix
<1>6. g \in SUBSET Block /\ g # Absent BY <1>4, Numbers
<1>7. Has(g, n) BY <1>4 DEF Has, Block
<1>8. f \subseteq g BY DEF g
<1> QED BY <1>5, <1>6, <1>7, <1>8 DEF g

-----------------------------------------------------------------------------
(* A step of one upload leaves the others alone.                           *)

Same(v) ==
  /\ row'[v] = row[v] /\ part'[v] = part[v] /\ file'[v] = file[v]
  /\ writers'[v] = writers[v] /\ asks'[v] = asks[v] /\ reply'[v] = reply[v]
  /\ client'[v] = client[v] /\ (v \in torn' <=> v \in torn)
  /\ \A op \in Ops : Doing(op, v)' <=> Doing(op, v)

LEMMA SameIsOK ==
  ASSUME NEW v, UploadOK(v), Same(v) PROVE UploadOK(v)'
<1>1. Grounds(v)' BY DEF UploadOK, Grounds, Same, Behind, Ops, Prefix, Has
<1>2. Begun(v)' BY DEF UploadOK, Begun, Same, Ops, Removals
<1>3. Sweeping(v)' <=> Sweeping(v) BY DEF Sweeping, Same, Ops, Doing
<1>4. Whole(v)' BY <1>3 DEF UploadOK, Whole, Same
<1>5. Spoken(v)' BY DEF UploadOK, Spoken, Waited, Once, Early, Same, Awaits
<1>6. Kept(v)'
  <2>1. Held(v)' = Held(v) BY DEF Held, Same
  <2> QED BY <2>1, <1>3 DEF UploadOK, Kept, Same, Alive, Ops
<1> QED BY <1>1, <1>2, <1>4, <1>5, <1>6 DEF UploadOK

LEMMA TheRest ==
  ASSUME IInv, NEW u \in Uploads, TypeOK', UploadOK(u)', \A v \in Uploads \ {u} : Same(v)
  PROVE  IInv'
<1>1. \A v \in Uploads \ {u} : UploadOK(v)' BY SameIsOK DEF IInv
<1> QED BY <1>1 DEF IInv

LEMMA Types ==
  ASSUME IInv, NEW u \in Uploads
  PROVE  /\ row[u] \in Rows /\ part[u] \in Files /\ file[u] \in Files
         /\ writers[u] \subseteq Writers /\ asks[u] \subseteq Asks /\ client[u] \in Clients
         /\ reply[u] \in {"none", "ok", "error", "gone"}
         /\ UploadOK(u)
BY DEF IInv, TypeOK

-----------------------------------------------------------------------------
(* The client.  Row, files and writers stay as they are.                   *)

Untouched(u) ==
  /\ row'[u] = row[u] /\ part' = part /\ file' = file
  /\ \A op \in Ops : Doing(op, u)' <=> Doing(op, u)
  /\ (u \in torn)' <=> u \in torn

LEMMA GroundsStay ==
  ASSUME NEW u, Grounds(u), Untouched(u), writers'[u] = writers[u] PROVE Grounds(u)'
BY DEF Grounds, Untouched, Behind, Ops, Prefix, Has

LEMMA SweepingStays ==
  ASSUME NEW u, Untouched(u)
  PROVE  Sweeping(u)' = Sweeping(u) /\ Alive(u)' = Alive(u) /\ Held(u)' = Held(u)
BY DEF Untouched, Sweeping, Ops, Doing, Alive, Held

LEMMA WholeStays ==
  ASSUME NEW u, Whole(u), Untouched(u) PROVE Whole(u)'
BY SweepingStays DEF Whole, Untouched

LEMMA BegunStays ==
  ASSUME NEW u, Begun(u), Untouched(u),
         Doing("complete", u) => client'[u].at \in {"complete", "failed"} /\ reply'[u] = "none"
  PROVE  Begun(u)'
BY DEF Begun, Untouched, Ops, Removals

\* Nobody is heard where nothing is waited for.
LEMMA NobodyHeard ==
  ASSUME NEW u, Waited(u), ~Awaits(u), asks[u] \subseteq Asks
  PROVE  /\ reply[u] = "none"
         /\ \A a \in asks[u] : ~a.heard
         /\ \A w \in writers[u] : ~w.heard
<1>1. \A a \in asks[u] : a.op \in Waits BY DEF Asks
<1> QED BY <1>1 DEF Waited, Awaits, Waits

LEMMA RequestTypes ==
  ASSUME IInv, NEW u \in Uploads, NEW op \in Waits, NEW from \in 0 .. Size, Requests(u, op, from)
  PROVE  client' \in [Uploads -> Clients] /\ asks' \in [Uploads -> SUBSET Asks]
<1>1. Ask(op, from) \in Asks BY DEF Ask, Asks
<1>2. asks \in [Uploads -> SUBSET Asks] /\ client \in [Uploads -> Clients] BY DEF IInv, TypeOK
<1>3. [client[u] EXCEPT !.at = op] \in Clients BY <1>2 DEF Clients, Waits, Ats
<1> QED BY <1>1, <1>2, <1>3 DEF Requests, Goes

LEMMA RequestSpoken ==
  ASSUME NEW u, Waited(u), Once(u), client[u].at \in {"queued", "next"}, asks[u] \subseteq Asks,
         client[u] \in Clients, NEW op \in Waits, NEW from \in 0 .. Size,
         op = "patch" => from = client[u].offset,
         client'[u] = [client[u] EXCEPT !.at = op], asks'[u] = asks[u] \cup {Ask(op, from)},
         writers'[u] = writers[u], reply'[u] = reply[u]
  PROVE  Waited(u)' /\ Once(u)'
<1> DEFINE n == Ask(op, from)
<1>1. n.op = op /\ n.from = from /\ n.heard = TRUE BY DEF Ask
<1> HIDE DEF n
<1>2. client'[u].at = op /\ client'[u].offset = client[u].offset BY DEF Clients
<1>3. /\ reply[u] = "none"
      /\ \A a \in asks[u] : ~a.heard
      /\ \A w \in writers[u] : ~w.heard
  BY NobodyHeard DEF Awaits
<1>4. asks'[u] = asks[u] \cup {n} BY DEF n
<1>5. Waited(u)'
  <2>1. \A x \in asks'[u] \ {n} : ~x.heard BY <1>3, <1>4
  <2>2. \A a \in asks'[u] : a.heard => a = n BY <2>1
  <2>3. ASSUME NEW a \in asks'[u], a.heard
        PROVE  /\ client'[u].at = a.op /\ (a.op = "patch" => a.from = client'[u].offset)
               /\ \A x \in (asks'[u] \ {a}) \cup writers'[u] : ~x.heard
    <3>1. a = n BY <2>2, <2>3
    <3> QED BY <3>1, <1>1, <1>2, <1>3, <2>1
  <2>4. \A w \in writers'[u] : ~w.heard BY <1>3
  <2>5. reply'[u] = "none" BY <1>3
  <2> QED BY <2>3, <2>4, <2>5 DEF Waited
<1>6. Once(u)'
  <2>1. \A a \in asks[u] : a.op = "patch" BY DEF Once, Asks, Waits
  <2> QED BY <2>1, <1>1, <1>2, <1>3, <1>4 DEF Once
<1> QED BY <1>5, <1>6

LEMMA StartsOK ==
  ASSUME IInv, NEW u \in Uploads, Starts(u) PROVE IInv'
<1> USE Types, SweepingStays DEF UploadOK
<1>1. /\ client[u].at = "queued" /\ client'[u] = [client[u] EXCEPT !.at = "init"]
      /\ asks'[u] = asks[u] \cup {Ask("init", 0)} /\ writers'[u] = writers[u] /\ reply'[u] = reply[u]
  BY DEF IInv, TypeOK, Starts, Requests, Goes
<1>2. TypeOK'
  <2>1. 0 \in 0 .. Size BY Numbers DEF Clients
  <2>2. client' \in [Uploads -> Clients] /\ asks' \in [Uploads -> SUBSET Asks]
    BY <2>1, RequestTypes DEF Starts, Waits
  <2> QED BY <2>2 DEF IInv, TypeOK, Starts, disk, clock
<1>3. \A v \in Uploads \ {u} : Same(v)
  BY DEF IInv, TypeOK, Starts, Requests, Goes, disk, clock, Same, Doing
<1>4. Untouched(u) BY DEF Starts, disk, Untouched, Doing
<1>5. Grounds(u)' BY <1>1, <1>4, GroundsStay
<1>6. Begun(u)' BY <1>1, <1>4, BegunStays DEF Begun
<1>7. Whole(u)' BY <1>4, WholeStays
<1>8. Spoken(u)'
  <2>1. 0 \in 0 .. Size BY Numbers DEF Clients
  <2>2. Waited(u)' /\ Once(u)' BY <1>1, <2>1, RequestSpoken DEF Spoken, Waits
  <2>3. Early(u)' BY <1>1, <1>4 DEF Spoken, Waited, Early, Awaits, Clients, Untouched
  <2> QED BY <2>2, <2>3 DEF Spoken
<1>9. Kept(u)' BY <1>1, <1>4 DEF Kept, Spoken, Waited, Once, Early, Awaits, Ask, Clients, Untouched, Ops
<1> QED BY <1>2, <1>3, <1>5, <1>6, <1>7, <1>8, <1>9, TheRest

LEMMA SendsChunkOK ==
  ASSUME IInv, NEW u \in Uploads, SendsChunk(u) PROVE IInv'
<1> USE Types, SweepingStays DEF UploadOK
<1>1. /\ client[u].at = "next" /\ client'[u] = [client[u] EXCEPT !.at = "patch"]
      /\ asks'[u] = asks[u] \cup {Ask("patch", client[u].offset)}
      /\ writers'[u] = writers[u] /\ reply'[u] = reply[u]
  BY DEF IInv, TypeOK, SendsChunk, Requests, Goes
<1>2. TypeOK'
  <2>1. client[u].offset \in 0 .. Size BY Numbers DEF Clients
  <2>2. client' \in [Uploads -> Clients] /\ asks' \in [Uploads -> SUBSET Asks]
    BY <2>1, RequestTypes DEF SendsChunk, Waits
  <2> QED BY <2>2 DEF IInv, TypeOK, SendsChunk, disk, clock
<1>3. \A v \in Uploads \ {u} : Same(v)
  BY DEF IInv, TypeOK, SendsChunk, Requests, Goes, disk, clock, Same, Doing
<1>4. Untouched(u) BY DEF SendsChunk, disk, Untouched, Doing
<1>5. Grounds(u)' BY <1>1, <1>4, GroundsStay
<1>6. Begun(u)' BY <1>1, <1>4, BegunStays DEF Begun
<1>7. Whole(u)' BY <1>4, WholeStays
<1>8. Spoken(u)'
  <2>1. client[u].offset \in 0 .. Size BY Numbers DEF Clients
  <2>2. Waited(u)' /\ Once(u)' BY <1>1, <2>1, RequestSpoken DEF Spoken, Waits
  <2>3. Early(u)' BY <1>1, <1>4 DEF Spoken, Waited, Early, Awaits, Clients, Untouched
  <2> QED BY <2>2, <2>3 DEF Spoken
<1>9. Kept(u)' BY <1>1, <1>4 DEF Kept, Spoken, Waited, Once, Early, Awaits, Ask, Clients, Untouched, Ops, Has
<1> QED BY <1>2, <1>3, <1>5, <1>6, <1>7, <1>8, <1>9, TheRest

LEMMA CompletesOK ==
  ASSUME IInv, NEW u \in Uploads, Completes(u) PROVE IInv'
<1> USE Types, SweepingStays DEF UploadOK
<1>1. /\ client[u].at = "next" /\ client'[u] = [client[u] EXCEPT !.at = "complete"]
      /\ asks'[u] = asks[u] \cup {Ask("complete", 0)}
      /\ writers'[u] = writers[u] /\ reply'[u] = reply[u]
  BY DEF IInv, TypeOK, Completes, Requests, Goes
<1>2. TypeOK'
  <2>1. 0 \in 0 .. Size BY Numbers DEF Clients
  <2>2. client' \in [Uploads -> Clients] /\ asks' \in [Uploads -> SUBSET Asks]
    BY <2>1, RequestTypes DEF Completes, Waits
  <2> QED BY <2>2 DEF IInv, TypeOK, Completes, disk, clock
<1>3. \A v \in Uploads \ {u} : Same(v)
  BY DEF IInv, TypeOK, Completes, Requests, Goes, disk, clock, Same, Doing
<1>4. Untouched(u) BY DEF Completes, disk, Untouched, Doing
<1>5. Grounds(u)' BY <1>1, <1>4, GroundsStay
<1>6. Begun(u)' BY <1>1, <1>4, BegunStays DEF Begun
<1>7. Whole(u)' BY <1>4, WholeStays
<1>8. Spoken(u)'
  <2>1. 0 \in 0 .. Size BY Numbers DEF Clients
  <2>2. Waited(u)' /\ Once(u)' BY <1>1, <2>1, RequestSpoken DEF Spoken, Waits
  <2>3. Early(u)' BY <1>1, <1>4 DEF Spoken, Waited, Early, Awaits, Clients, Untouched
  <2> QED BY <2>2, <2>3 DEF Spoken
<1>9. Kept(u)' BY <1>1, <1>4 DEF Kept, Spoken, Waited, Once, Early, Awaits, Ask, Clients, Untouched, Ops, Has
<1> QED BY <1>2, <1>3, <1>5, <1>6, <1>7, <1>8, <1>9, TheRest

LEMMA CancelsOK ==
  ASSUME IInv, NEW u \in Uploads, Cancels(u) PROVE IInv'
<1> USE Types, SweepingStays DEF UploadOK
<1>1. /\ client[u].at = "next" /\ client'[u] = [client[u] EXCEPT !.at = "failed"]
      /\ asks'[u] = asks[u] /\ writers'[u] = writers[u] /\ reply'[u] = reply[u]
  BY DEF IInv, TypeOK, Cancels, Goes
<1>2. TypeOK' BY DEF IInv, TypeOK, Cancels, Goes, disk, clock, Clients, Ats
<1>3. \A v \in Uploads \ {u} : Same(v)
  BY DEF IInv, TypeOK, Cancels, Goes, disk, clock, Same, Doing
<1>4. Untouched(u) BY DEF Cancels, disk, Untouched, Doing
<1>5. Grounds(u)' BY <1>1, <1>4, GroundsStay
<1>6. Begun(u)' BY <1>1, <1>4, BegunStays DEF Begun
<1>7. Whole(u)' BY <1>4, WholeStays
<1>8. Spoken(u)'
  <2>0. /\ reply[u] = "none"
        /\ \A a \in asks[u] : ~a.heard
        /\ \A w \in writers[u] : ~w.heard
    BY <1>1, NobodyHeard DEF Spoken, Awaits
  <2>1. Waited(u)' BY <1>1, <2>0 DEF Waited, Awaits, Clients
  <2>2. Once(u)' BY <1>1, <2>0 DEF Spoken, Once, Clients
  <2>3. Early(u)' BY <1>1, <1>4 DEF Spoken, Waited, Early, Awaits, Clients, Untouched
  <2> QED BY <2>1, <2>2, <2>3 DEF Spoken
<1>9. Kept(u)' BY <1>1, <1>4 DEF Kept, Spoken, Waited, Once, Early, Awaits, Clients, Untouched, Ops
<1> QED BY <1>2, <1>3, <1>5, <1>6, <1>7, <1>8, <1>9, TheRest

\* What an answer or a lost connection does to the client.
LEMMA RejectedTo ==
  ASSUME IInv, NEW u \in Uploads, Rejected(u)
  PROVE  /\ client' \in [Uploads -> Clients]
         /\ client'[u].offset = client[u].offset
         /\ \A v \in Uploads \ {u} : client'[v] = client[v]
         /\ \/ client'[u].at = "failed"
            \/ client[u].at = "patch" /\ client'[u].at = "next"
<1>1. client \in [Uploads -> Clients] BY DEF IInv, TypeOK
<1>2. CASE client[u].at = "patch" /\ client[u].tries < MaxRetry
  <2>1. [at |-> "next", offset |-> client[u].offset, tries |-> client[u].tries + 1] \in Clients
    BY <1>1 DEF Clients, Ats
  <2> QED BY <1>1, <1>2, <2>1 DEF Rejected
<1>3. CASE ~(client[u].at = "patch" /\ client[u].tries < MaxRetry)
  <2>1. client' = [client EXCEPT ![u].at = "failed"] BY <1>3 DEF Rejected, Goes
  <2> QED BY <1>1, <2>1 DEF Clients, Ats
<1> QED BY <1>2, <1>3

LEMMA AcceptedTo ==
  ASSUME IInv, NEW u \in Uploads, Accepted(u), Awaits(u)
  PROVE  /\ client' \in [Uploads -> Clients]
         /\ \A v \in Uploads \ {u} : client'[v] = client[v]
         /\ \/ /\ client[u].at = "init" /\ client'[u].at = "next"
               /\ client'[u].offset = client[u].offset
            \/ /\ client[u].at = "patch" /\ client'[u].at = "next"
               /\ client'[u].offset = UpTo(client[u].offset)
            \/ client[u].at = "complete" /\ client'[u].at = "ready"
<1>1. client \in [Uploads -> Clients] BY DEF IInv, TypeOK
<1>2. client[u].at \in Waits BY DEF Awaits, Waits
<1>3. CASE client[u].at = "patch"
  <2>1. client' = [client EXCEPT ![u] = [at |-> "next", offset |-> UpTo(client[u].offset), tries |-> 0]]
    BY <1>3 DEF Accepted
  <2>2. [at |-> "next", offset |-> UpTo(client[u].offset), tries |-> 0] \in Clients
    BY <1>1, UpToType DEF Clients, Ats
  <2> QED BY <1>1, <1>3, <2>1, <2>2
<1>4. CASE client[u].at = "complete"
  <2>1. client' = [client EXCEPT ![u] = [client[u] EXCEPT !.at = "ready"]] BY <1>4 DEF Accepted
  <2> QED BY <1>1, <1>4, <2>1 DEF Clients, Ats
<1>5. CASE client[u].at = "init"
  <2>1. client' = [client EXCEPT ![u] = [client[u] EXCEPT !.at = "next"]] BY <1>5 DEF Accepted
  <2> QED BY <1>1, <1>5, <2>1 DEF Clients, Ats
<1> QED BY <1>2, <1>3, <1>4, <1>5 DEF Waits

LEMMA OnReplyOK ==
  ASSUME IInv, NEW u \in Uploads, OnReply(u) PROVE IInv'
<1> USE Types, SweepingStays DEF UploadOK
<1>1. /\ reply[u] # "none" /\ reply'[u] = "none" /\ writers'[u] = writers[u] /\ asks'[u] = asks[u]
      /\ reply' \in [Uploads -> {"none", "ok", "error", "gone"}]
      /\ \A v \in Uploads \ {u} : reply'[v] = reply[v]
  BY DEF IInv, TypeOK, OnReply
<1>2. Awaits(u) /\ \A x \in asks[u] \cup writers[u] : ~x.heard BY <1>1 DEF Spoken, Waited
<1>3. /\ client' \in [Uploads -> Clients]
      /\ \A v \in Uploads \ {u} : client'[v] = client[v]
      /\ \/ client'[u].at = "failed"
         \/ /\ client[u].at = "init" /\ client'[u].at = "next"
            /\ client'[u].offset = client[u].offset /\ reply[u] = "ok"
         \/ /\ client[u].at = "patch" /\ client'[u].at = "next" /\ reply[u] = "ok"
            /\ client'[u].offset = UpTo(client[u].offset)
         \/ client[u].at = "patch" /\ client'[u].at = "next" /\ client'[u].offset = client[u].offset
         \/ client[u].at = "complete" /\ client'[u].at = "ready" /\ reply[u] = "ok"
  <2>1. CASE reply[u] = "ok" BY <1>2, <2>1, AcceptedTo DEF OnReply
  <2>2. CASE reply[u] = "gone"
    <3>1. client' = [client EXCEPT ![u].at = "failed"] BY <2>2 DEF OnReply, Goes
    <3> QED BY <3>1 DEF IInv, TypeOK, Clients, Ats
  <2>3. CASE reply[u] = "error" BY <2>3, RejectedTo DEF OnReply
  <2> QED BY <1>1, <2>1, <2>2, <2>3
<1>4. TypeOK' BY <1>1, <1>3 DEF IInv, TypeOK, OnReply, disk, clock
<1>5. \A v \in Uploads \ {u} : Same(v) BY <1>1, <1>3 DEF OnReply, disk, clock, Same, Doing
<1>6. Untouched(u) BY DEF OnReply, disk, Untouched, Doing
<1>7. Grounds(u)' BY <1>1, <1>6, GroundsStay
<1>8. Begun(u)' BY <1>1, <1>6, BegunStays DEF Begun
<1>9. Whole(u)' BY <1>6, WholeStays
<1>10. Spoken(u)'
  <2>1. Waited(u)' BY <1>1, <1>2 DEF Waited
  <2>2. Once(u)' BY <1>1 DEF Spoken, Once
  <2>3. Early(u)' BY <1>1, <1>2, <1>3, <1>6 DEF Spoken, Early, Awaits, Untouched
  <2> QED BY <2>1, <2>2, <2>3 DEF Spoken
<1>11. Kept(u)'
  <2>1. client'[u].at = "next" /\ Alive(u) =>
          Has(Held(u), client'[u].offset) /\ part[u] # Absent
    BY <1>2, <1>3 DEF Kept, Spoken, Early, Has, Block
  <2> QED BY <1>1, <1>2, <1>3, <1>6, <2>1 DEF Kept, Has, Untouched
<1> QED BY <1>4, <1>5, <1>7, <1>8, <1>9, <1>10, <1>11, TheRest

LEMMA DisconnectsOK ==
  ASSUME IInv, NEW u \in Uploads, Disconnects(u) PROVE IInv'
<1> USE Types, SweepingStays DEF UploadOK
<1> DEFINE quiet(x) == [x EXCEPT !.heard = FALSE]
<1>1. /\ Awaits(u) /\ reply'[u] = "none"
      /\ asks'[u] = Unheard(asks[u]) /\ writers'[u] = Unheard(writers[u])
  BY DEF IInv, TypeOK, Disconnects
<1>2. /\ client' \in [Uploads -> Clients]
      /\ client'[u].offset = client[u].offset
      /\ \A v \in Uploads \ {u} : client'[v] = client[v]
      /\ \/ client'[u].at = "failed"
         \/ client[u].at = "patch" /\ client'[u].at = "next"
  BY RejectedTo DEF Disconnects
<1>3. \A x \in asks'[u] : /\ ~x.heard /\ x \in Asks
                          /\ \E y \in asks[u] : x = quiet(y) /\ x.op = y.op /\ x.from = y.from
  BY <1>1 DEF Unheard, Asks
<1>4. \A x \in writers'[u] : /\ ~x.heard /\ x \in Writers
                             /\ \E y \in writers[u] : /\ x = quiet(y) /\ x.got = y.got /\ x.put = y.put
                                                      /\ x.to = y.to /\ x.onto = y.onto
  BY <1>1 DEF Unheard, Writers
<1>5. TypeOK'
  <2>1. asks' \in [Uploads -> SUBSET Asks] /\ writers' \in [Uploads -> SUBSET Writers]
    <3>1. asks'[u] \subseteq Asks /\ writers'[u] \subseteq Writers BY <1>3, <1>4
    <3> QED BY <3>1, <1>1 DEF IInv, TypeOK, Disconnects
  <2>2. faults' \in Nat BY DEF IInv, TypeOK, Disconnects, Fault
  <2> QED BY <2>1, <2>2, <1>2 DEF IInv, TypeOK, Disconnects, disk, clock
<1>6. \A v \in Uploads \ {u} : Same(v)
  BY <1>2 DEF IInv, TypeOK, Disconnects, disk, clock, Same, Doing
<1>7. Untouched(u) BY DEF Disconnects, disk, Untouched, Doing
<1>8. Grounds(u)'
  <2>1. \A x \in writers'[u] : Behind(u, x)'
    BY <1>4, <1>7 DEF Grounds, Behind, Has, Untouched
  <2>2. writers[u] = {} => writers'[u] = {} BY <1>1 DEF Unheard
  <2>3. (\A w \in writers[u] : w.onto # "file") => \A w \in writers'[u] : w.onto # "file" BY <1>4
  <2> QED BY <2>1, <2>2, <2>3, <1>7 DEF Grounds, Untouched, Prefix, Ops
<1>9. Begun(u)' BY <1>1, <1>2, <1>7, BegunStays DEF Begun
<1>10. Whole(u)' BY <1>7, WholeStays
<1>11. Spoken(u)'
  <2>1. Waited(u)' BY <1>1, <1>3, <1>4 DEF Waited
  <2>2. Once(u)'
    <3>1. ASSUME NEW a \in asks'[u], a.op # "patch"
          PROVE  client'[u].at = a.op \/ client'[u].at = "failed"
      BY <1>2, <1>3, <3>1 DEF Spoken, Once
    <3>2. ASSUME NEW a \in asks'[u], a.op # "patch", NEW b \in asks'[u], b.op = a.op PROVE b = a
      <4>1. PICK y \in asks[u] : a = quiet(y) /\ a.op = y.op BY <1>3
      <4>2. PICK z \in asks[u] : b = quiet(z) /\ b.op = z.op BY <1>3
      <4>3. y = z BY <4>1, <4>2, <3>2 DEF Spoken, Once
      <4> QED BY <4>1, <4>2, <4>3
    <3> QED BY <3>1, <3>2, <1>1 DEF Once
  <2>3. Early(u)' BY <1>1, <1>2, <1>7 DEF Spoken, Early, Awaits, Untouched
  <2> QED BY <2>1, <2>2, <2>3 DEF Spoken
<1>12. Kept(u)' BY <1>1, <1>2, <1>3, <1>4, <1>7 DEF Kept, Untouched, Has
<1> QED BY <1>5, <1>6, <1>8, <1>9, <1>10, <1>11, <1>12, TheRest

LEMMA SendsOK ==
  ASSUME IInv, NEW u \in Uploads, Sends(u) PROVE IInv'
<1> USE Types DEF UploadOK
<1>1. /\ client[u].at = "ready" /\ client'[u].at = "sent" /\ client'[u].offset = client[u].offset
      /\ client' \in [Uploads -> Clients]
      /\ row'[u] = (IF row[u] = "ready" THEN "bound" ELSE row[u])
      /\ asks'[u] = asks[u] /\ writers'[u] = writers[u] /\ reply'[u] = reply[u]
      /\ part' = part /\ file' = file /\ doing' = doing /\ torn' = torn /\ doing = Nothing
  BY DEF IInv, TypeOK, Sends, Goes, disk, clock, Clients, Ats
<1>2. TypeOK' BY <1>1 DEF IInv, TypeOK, Sends, disk, clock, Rows
<1>3. \A v \in Uploads \ {u} : Same(v)
  BY DEF IInv, TypeOK, Sends, Goes, disk, clock, Same, Doing
<1>4. \A op \in Ops : ~Doing(op, u) /\ ~Doing(op, u)'
  BY <1>1, NothingIsDone, NothingWillBeDone
<1>5. Grounds(u)' BY <1>1, <1>4 DEF Grounds, Behind, Has, Prefix, Ops
<1>6. Begun(u)' BY <1>4 DEF Begun, Ops, Removals
<1>7. Sweeping(u)' = Sweeping(u) /\ Alive(u)' = Alive(u)
  BY <1>1 DEF Sweeping, Alive
<1>8. Whole(u)' BY <1>1, <1>7 DEF Whole
<1>9. Spoken(u)'
  <2>1. /\ reply[u] = "none"
        /\ \A a \in asks[u] : ~a.heard
        /\ \A w \in writers[u] : ~w.heard
    BY <1>1, NobodyHeard DEF Spoken, Awaits
  <2>2. Waited(u)' BY <1>1, <2>1 DEF Waited
  <2>3. Once(u)' BY <1>1 DEF Spoken, Once, Asks, Waits
  <2>4. Early(u)' BY <1>1, <2>1 DEF Spoken, Early
  <2> QED BY <2>2, <2>3, <2>4 DEF Spoken
<1>10. Kept(u)' BY <1>1, <1>4, <1>7 DEF Kept
<1> QED BY <1>2, <1>3, <1>5, <1>6, <1>8, <1>9, <1>10, TheRest

LEMMA TimePassesOK ==
  ASSUME IInv, NEW u \in Uploads, HourPasses(u) \/ DayPasses(u) PROVE IInv'
<1>1. TypeOK' BY DEF IInv, TypeOK, HourPasses, DayPasses, disk, clock
<1>2. \A v \in Uploads : Same(v) BY DEF HourPasses, DayPasses, disk, clock, Same, Doing
<1> QED BY <1>1, <1>2, SameIsOK DEF IInv

-----------------------------------------------------------------------------
(* The server's requests.                                                  *)

LEMMA AnswersTo ==
  ASSUME IInv, NEW u \in Uploads, NEW x, NEW what \in {"ok", "error", "gone"}, Answers(u, x, what)
  PROVE  /\ reply' \in [Uploads -> {"none", "ok", "error", "gone"}]
         /\ \A v \in Uploads \ {u} : reply'[v] = reply[v]
         /\ x.heard => reply'[u] = what
         /\ ~x.heard => reply'[u] = reply[u]
BY DEF Answers, IInv, TypeOK

LEMMA TakenSpoken ==
  ASSUME NEW u, Waited(u), Once(u), asks[u] \subseteq Asks, NEW a \in asks[u],
         asks'[u] = asks[u] \ {a}, client'[u] = client[u],
         \A x \in writers'[u] : x.heard => x \in writers[u],
         a.heard => reply'[u] # "none", ~a.heard => reply'[u] = reply[u]
  PROVE  Waited(u)' /\ Once(u)'
<1>1. a.op \in Waits BY DEF Asks
<1>2. CASE a.heard
  <2>1. /\ client[u].at = a.op
        /\ \A x \in (asks[u] \ {a}) \cup writers[u] : ~x.heard
    BY <1>2 DEF Waited
  <2>2. Awaits(u)' BY <1>1, <2>1 DEF Awaits, Waits
  <2>3. Waited(u)' BY <2>1, <2>2 DEF Waited
  <2>4. \A b \in asks'[u] : b.op = "patch" BY <2>1, <1>1 DEF Once, Waits
  <2> QED BY <2>3, <2>4 DEF Once
<1>3. CASE ~a.heard
  <2>1. Waited(u)' BY <1>3 DEF Waited, Awaits
  <2>2. Once(u)' BY <1>3 DEF Once
  <2> QED BY <2>1, <2>2
<1> QED BY <1>2, <1>3

LEMMA InitBeginsOK ==
  ASSUME IInv, NEW u \in Uploads, NEW a \in asks[u], InitBegins(u, a) PROVE IInv'
<1> USE Types DEF UploadOK
<1>1. /\ row[u] = "none" /\ row'[u] = "uploading" /\ doing = Nothing /\ Doing("init", u)'
      /\ part' = part /\ file' = file /\ torn' = torn /\ writers' = writers /\ asks' = asks
      /\ reply' = reply /\ client' = client
  BY DEF IInv, TypeOK, InitBegins, disk, clock, Doing
<1>2. TypeOK'
  <2>1. doing' \in Doings BY DEF InitBegins, Doings, Removals
  <2> QED BY <2>1 DEF IInv, TypeOK, InitBegins, disk, clock, Rows
<1>3. \A op \in Ops : ~Doing(op, u) /\ (op # "init" => ~Doing(op, u)')
  BY <1>1, NothingIsDone DEF Doing
<1>4. \A v \in Uploads \ {u} : Same(v)
  <2>1. \A v \in Uploads \ {u} : \A op \in Ops : ~Doing(op, v) /\ ~Doing(op, v)'
    BY <1>1, NothingIsDone DEF Doing
  <2> QED BY <2>1, <1>1 DEF IInv, TypeOK, InitBegins, Same
<1>5. writers[u] = {} BY <1>1 DEF Grounds
<1>6. client[u].at \in {"init", "failed"} /\ reply[u] = "none"
  BY DEF InitBegins, Spoken, Once
<1>7. Grounds(u)' BY <1>1, <1>5 DEF Grounds, Prefix
<1>8. Begun(u)' BY <1>1, <1>3 DEF Begun, Ops, Removals
<1>9. Whole(u)' BY <1>1 DEF Whole
<1>10. Spoken(u)'
  <2>1. Waited(u)' /\ Once(u)' BY <1>1 DEF Spoken, Waited, Once, Awaits
  <2>2. Early(u)' BY <1>1, <1>6 DEF Spoken, Early
  <2> QED BY <2>1, <2>2 DEF Spoken
<1>11. Kept(u)' BY <1>1, <1>5, <1>6 DEF Kept
<1> QED BY <1>2, <1>4, <1>7, <1>8, <1>9, <1>10, <1>11, TheRest

LEMMA InitEndsOK ==
  ASSUME IInv, NEW u \in Uploads, NEW a \in asks[u], InitEnds(u, a) PROVE IInv'
<1> USE Types DEF UploadOK
<1>1. /\ a.op = "init" /\ Doing("init", u) /\ doing' = Nothing /\ asks'[u] = asks[u] \ {a}
      /\ row' = row /\ file' = file /\ torn' = torn /\ writers' = writers /\ client' = client
      /\ a.heard => reply'[u] # "none"
      /\ ~a.heard => reply'[u] = reply[u]
      /\ reply' \in [Uploads -> {"none", "ok", "error", "gone"}]
      /\ \A v \in Uploads \ {u} : reply'[v] = reply[v] /\ part'[v] = part[v] /\ asks'[v] = asks[v]
      /\ \/ part'[u] = {}
         \/ part'[u] = part[u] /\ (a.heard => reply'[u] = "error")
      /\ part' \in [Uploads -> Files]
  BY AnswersTo, Numbers DEF IInv, TypeOK, InitEnds, Took, clock, Doing, Files, Fault
<1>2. row[u] = "uploading" /\ writers[u] = {} BY <1>1 DEF Begun, Grounds
<1>3. client[u].at \in {"init", "failed"} /\ reply[u] = "none" BY <1>1 DEF Spoken, Once
<1>4. TypeOK'
  <2>1. asks' \in [Uploads -> SUBSET Asks] BY DEF IInv, TypeOK, InitEnds, Took
  <2>2. faults' \in Nat BY DEF IInv, TypeOK, InitEnds, Fault
  <2> QED BY <1>1, <2>1, <2>2 DEF IInv, TypeOK, InitEnds, clock
<1>5. \A op \in Ops : ~Doing(op, u)' BY <1>1, NothingWillBeDone
<1>6. \A v \in Uploads \ {u} : Same(v)
  <2>1. \A v \in Uploads \ {u} : \A op \in Ops : ~Doing(op, v) /\ ~Doing(op, v)'
    BY <1>1, NothingWillBeDone DEF Doing
  <2> QED BY <2>1, <1>1 DEF Same
<1>7. Grounds(u)'
  <2>1. {} = 0 .. 0 - 1 /\ 0 \in 0 .. Size BY Numbers
  <2>2. Prefix({}) BY <2>1 DEF Prefix
  <2>3. Prefix(part'[u]) BY <1>1, <2>2 DEF Grounds
  <2> QED BY <1>1, <1>2, <2>3 DEF Grounds, Prefix
<1>8. Begun(u)' BY <1>5 DEF Begun, Ops, Removals
<1>9. Whole(u)' BY <1>1, <1>2 DEF Whole
<1>10. Spoken(u)'
  <2>1. Waited(u)' /\ Once(u)' BY <1>1, TakenSpoken DEF Spoken
  <2>2. Early(u)' BY <1>1, <1>2, <1>3 DEF Spoken, Early
  <2> QED BY <2>1, <2>2 DEF Spoken
<1>11. Kept(u)' BY <1>1, <1>2, <1>3, Numbers DEF Kept
<1> QED BY <1>4, <1>6, <1>7, <1>8, <1>9, <1>10, <1>11, TheRest

LEMMA RefusesOK ==
  ASSUME IInv, NEW u \in Uploads, NEW a \in asks[u], Refuses(u, a) PROVE IInv'
<1> USE Types, SweepingStays DEF UploadOK
<1>1. /\ a.op # "init" /\ doing = Nothing /\ asks'[u] = asks[u] \ {a}
      /\ writers' = writers /\ client' = client
      /\ a.heard => reply'[u] \in {"error", "gone"}
      /\ ~a.heard => reply'[u] = reply[u]
      /\ reply' \in [Uploads -> {"none", "ok", "error", "gone"}]
      /\ \A v \in Uploads \ {u} : reply'[v] = reply[v] /\ asks'[v] = asks[v]
  BY AnswersTo DEF IInv, TypeOK, Refuses, Took
<1>2. TypeOK'
  <2>1. asks' \in [Uploads -> SUBSET Asks] BY DEF IInv, TypeOK, Refuses, Took
  <2> QED BY <1>1, <2>1 DEF IInv, TypeOK, Refuses, disk, clock
<1>3. \A v \in Uploads \ {u} : Same(v) BY <1>1 DEF Refuses, disk, clock, Same, Doing
<1>4. Untouched(u) BY DEF Refuses, disk, Untouched, Doing
<1>5. Grounds(u)' BY <1>1, <1>4, GroundsStay
<1>6. Begun(u)'
  <2>1. \A op \in Ops : ~Doing(op, u)' BY <1>1, <1>4, NothingIsDone DEF Untouched
  <2> QED BY <2>1 DEF Begun, Ops, Removals
<1>7. Whole(u)' BY <1>4, WholeStays
<1>8. Spoken(u)'
  <2>1. Waited(u)' /\ Once(u)' BY <1>1, TakenSpoken DEF Spoken
  <2>2. Early(u)' BY <1>1, <1>4 DEF Spoken, Early, Untouched
  <2> QED BY <2>1, <2>2 DEF Spoken
<1>9. Kept(u)'
  <2>1. reply'[u] = "ok" => reply[u] = "ok" BY <1>1 DEF Asks
  <2>2. \A op \in Ops : ~Doing(op, u) /\ ~Doing(op, u)' BY <1>1, <1>4, NothingIsDone DEF Untouched
  <2> QED BY <1>1, <1>4, <2>1, <2>2 DEF Kept, Untouched, Has, Ops
<1> QED BY <1>2, <1>3, <1>5, <1>6, <1>7, <1>8, <1>9, TheRest

LEMMA HandlePatchOK ==
  ASSUME IInv, NEW u \in Uploads, NEW a \in asks[u], HandlePatch(u, a) PROVE IInv'
<1> USE Types DEF UploadOK
<1> DEFINE w == [got |-> a.from, put |-> a.from, to |-> UpTo(a.from), onto |-> "part", heard |-> a.heard]
<1>1. /\ a.op = "patch" /\ doing = Nothing /\ asks'[u] = asks[u] \ {a}
      /\ writers'[u] = writers[u] \cup {w} /\ part'[u] = Content(part[u])
      /\ row' = row /\ file' = file /\ torn' = torn /\ client' = client /\ reply' = reply
      /\ doing' = doing /\ row[u] = "uploading" /\ EndsAt(part[u], a.from)
  BY DEF IInv, TypeOK, HandlePatch, Took, Refused, clock
<1>2. a.from \in 0 .. Size /\ a.heard \in BOOLEAN BY DEF Asks
<1>3. part'[u] = 0 .. a.from - 1 BY <1>1, <1>2, EndsAtIsAll DEF Grounds
<1>4. /\ part'[u] \in Files /\ part'[u] # Absent /\ Has(part'[u], a.from)
      /\ part[u] # Absent => part'[u] = part[u]
  BY <1>1, <1>2, <1>3, Numbers DEF Files, Has, Block, Content
<1>5. w \in Writers /\ w.put <= w.got /\ w.got <= w.to /\ w.onto = "part"
  BY <1>2, UpToType DEF Writers
<1>6. TypeOK'
  <2>1. asks' \in [Uploads -> SUBSET Asks] BY DEF IInv, TypeOK, HandlePatch, Took
  <2>2. writers' \in [Uploads -> SUBSET Writers] BY <1>5 DEF IInv, TypeOK, HandlePatch
  <2>3. part' \in [Uploads -> Files] BY <1>1, <1>4 DEF IInv, TypeOK, HandlePatch
  <2> QED BY <1>1, <2>1, <2>2, <2>3 DEF IInv, TypeOK, HandlePatch, clock
<1>7. \A v \in Uploads \ {u} : Same(v)
  BY <1>1 DEF IInv, TypeOK, HandlePatch, Took, Same, Doing
<1>8. \A op \in Ops : ~Doing(op, u) /\ ~Doing(op, u)'
  BY <1>1, NothingIsDone, NothingWillBeDone
<1>9. Grounds(u)'
  <2>1. \A x \in writers[u] : Behind(u, x)' BY <1>1, <1>4 DEF Grounds, Behind, Has
  <2>2. Behind(u, w)' BY <1>4, <1>5 DEF Behind
  <2>3. Prefix(part'[u]) BY <1>2, <1>3 DEF Prefix
  <2>4. \A x \in writers'[u] : Behind(u, x)' BY <1>1, <2>1, <2>2
  <2>5. \A x \in writers'[u] : x.onto # "file" BY <1>1, <1>5, <1>8 DEF Grounds, Ops
  <2> QED BY <1>1, <1>8, <2>3, <2>4, <2>5 DEF Grounds, Prefix, Ops
<1>10. Begun(u)' BY <1>8 DEF Begun, Ops, Removals
<1>11. Whole(u)' BY <1>1 DEF Whole
<1>12. Spoken(u)'
  <2>1. CASE a.heard
    <3>1. /\ client[u].at = "patch" /\ a.from = client[u].offset /\ reply[u] = "none"
          /\ \A x \in (asks[u] \ {a}) \cup writers[u] : ~x.heard
      BY <1>1, <2>1 DEF Spoken, Waited
    <3>2. w.heard = TRUE /\ w.to = UpTo(client[u].offset) BY <2>1, <3>1
    <3> HIDE DEF w
    <3>3. \A x \in asks'[u] : ~x.heard BY <1>1, <3>1
    <3>4. \A x \in writers'[u] \ {w} : ~x.heard BY <1>1, <3>1
    <3>5. Waited(u)' BY <1>1, <3>1, <3>2, <3>3, <3>4 DEF Waited
    <3>6. Once(u)' BY <1>1 DEF Spoken, Once
    <3> QED BY <1>1, <3>5, <3>6 DEF Spoken, Early
  <2>2. CASE ~a.heard
    <3>1. ~w.heard BY <2>2
    <3> HIDE DEF w
    <3>2. Waited(u)' BY <1>1, <3>1 DEF Spoken, Waited, Awaits
    <3>3. Once(u)' BY <1>1 DEF Spoken, Once
    <3> QED BY <1>1, <3>2, <3>3 DEF Spoken, Early
  <2> QED BY <2>1, <2>2
<1>13. Kept(u)'
  <2>1. SUFFICES ASSUME Alive(u)' PROVE Kept(u)' BY DEF Kept
  <2>2. Alive(u) BY <1>1, <2>1 DEF Alive, Sweeping
  <2>3. client[u].at \in {"next", "patch", "complete"} => part[u] # Absent
    BY <1>1, <1>8, <2>2 DEF Kept, Ops
  <2>4. part[u] # Absent => Held(u)' = Held(u) BY <1>1, <1>4 DEF Held
  <2> QED BY <1>1, <1>4, <1>5, <2>2, <2>3, <2>4 DEF Kept, Has
<1> QED BY <1>6, <1>7, <1>9, <1>10, <1>11, <1>12, <1>13, TheRest

-----------------------------------------------------------------------------
(* Writers.  What they put leaves prefixes that have all that was there.   *)

Grown(u) ==
  /\ part' \in [Uploads -> Files] /\ file' \in [Uploads -> Files]
  /\ \A v \in Uploads \ {u} : part'[v] = part[v] /\ file'[v] = file[v]
  /\ Prefix(part'[u]) /\ Prefix(file'[u])
  /\ part'[u] = Absent <=> part[u] = Absent
  /\ file'[u] = Absent <=> file[u] = Absent
  /\ part[u] # Absent => part[u] \subseteq part'[u]
  /\ file[u] # Absent => file[u] \subseteq file'[u]

LEMMA PutsGrow ==
  ASSUME IInv, NEW u \in Uploads, NEW w \in writers[u], NEW n \in 0 .. Size, w.put <= n, Puts(u, w, n)
  PROVE  /\ Grown(u)
         /\ w.onto = "part" => Has(part'[u], n)
         /\ w.onto = "file" => Has(file'[u], n)
<1> USE Types DEF UploadOK
<1>1. w \in Writers /\ Behind(u, w) /\ Prefix(part[u]) /\ Prefix(file[u]) BY DEF Grounds
<1>2. part \in [Uploads -> Files] /\ file \in [Uploads -> Files] BY DEF IInv, TypeOK
<1>3. CASE w.onto = "part"
  <2>1. part' = [part EXCEPT ![u] = part[u] \cup (w.put .. n - 1)] /\ file' = file BY <1>3 DEF Puts
  <2>2. part[u] # Absent /\ Has(part[u], w.put) BY <1>1, <1>3 DEF Behind
  <2> DEFINE g == part[u] \cup (w.put .. n - 1)
  <2>3. Prefix(g) /\ g \in SUBSET Block /\ g # Absent /\ Has(g, n) /\ part[u] \subseteq g
    BY <1>1, <2>2, PutKeepsPrefix DEF Writers
  <2>4. part'[u] = g BY <1>2, <2>1
  <2> HIDE DEF g
  <2> QED BY <1>1, <1>2, <1>3, <2>1, <2>2, <2>3, <2>4 DEF Grown, Files
<1>4. CASE w.onto = "file"
  <2>1. file' = [file EXCEPT ![u] = file[u] \cup (w.put .. n - 1)] /\ part' = part BY <1>4 DEF Puts
  <2>2. file[u] # Absent /\ Has(file[u], w.put) BY <1>1, <1>4 DEF Behind
  <2> DEFINE g == file[u] \cup (w.put .. n - 1)
  <2>3. Prefix(g) /\ g \in SUBSET Block /\ g # Absent /\ Has(g, n) /\ file[u] \subseteq g
    BY <1>1, <2>2, PutKeepsPrefix DEF Writers
  <2>4. file'[u] = g BY <1>2, <2>1
  <2> HIDE DEF g
  <2> QED BY <1>1, <1>2, <1>4, <2>1, <2>2, <2>3, <2>4 DEF Grown, Files
<1>5. CASE w.onto \notin {"part", "file"} BY <1>1, <1>2, <1>5 DEF Puts, Grown
<1> QED BY <1>3, <1>4, <1>5

LEMMA GrownHas ==
  ASSUME IInv, NEW u \in Uploads, Grown(u)
  PROVE  /\ file[u] = Block => file'[u] = Block
         /\ \A m : Has(Held(u), m) => Has(Held(u)', m)
         /\ \A x \in writers[u] : Behind(u, x)'
<1> USE Types DEF UploadOK
<1>1. file[u] = Block => file'[u] = Block
  <2>1. file[u] = Block => file'[u] # Absent /\ Block \subseteq file'[u] BY Numbers DEF Grown
  <2>2. file'[u] # Absent => file'[u] \subseteq Block
    <3>1. file'[u] \in Files BY DEF Grown
    <3> QED BY <3>1 DEF Files
  <2> QED BY <2>1, <2>2
<1>2. ASSUME NEW m, Has(Held(u), m) PROVE Has(Held(u)', m)
  BY <1>2 DEF Has, Held, Content, Grown
<1>3. ASSUME NEW x \in writers[u] PROVE Behind(u, x)'
  BY DEF Grounds, Behind, Has, Grown
<1> QED BY <1>1, <1>2, <1>3

\* A step of a writer: it is gone, or has got on.
LEMMA WriterKeeps ==
  ASSUME IInv, NEW u \in Uploads, NEW w \in writers[u], Grown(u), doing = Nothing,
         row' = row, doing' = doing, torn' = torn, asks' = asks, client' = client,
         NEW rest \in SUBSET Writers, writers'[u] = (writers[u] \ {w}) \cup rest,
         \A x \in rest : Behind(u, x)' /\ x.onto = w.onto
  PROVE  Grounds(u)' /\ Begun(u)' /\ Whole(u)'
<1> USE Types DEF UploadOK
<1>1. \A op \in Ops : ~Doing(op, u) /\ ~Doing(op, u)' BY NothingIsDone, NothingWillBeDone
<1>2. row[u] # "none" BY DEF Grounds
<1>3. \A x \in writers'[u] : Behind(u, x)' BY GrownHas
<1>4. row[u] = "uploading" => \A x \in writers'[u] : x.onto # "file" BY <1>1 DEF Grounds, Ops
<1>5. Grounds(u)' BY <1>1, <1>2, <1>3, <1>4 DEF Grounds, Grown, Ops
<1>6. Begun(u)' BY <1>1 DEF Begun, Ops, Removals
<1>7. Sweeping(u)' = Sweeping(u) BY DEF Sweeping
<1>8. Whole(u)' BY <1>7, GrownHas DEF Whole
<1> QED BY <1>5, <1>6, <1>8

LEMMA WriterGoesSpoken ==
  ASSUME NEW u, Waited(u), Once(u), NEW w \in writers[u],
         asks'[u] = asks[u], writers'[u] = writers[u] \ {w}, client'[u] = client[u],
         w.heard => reply'[u] # "none", ~w.heard => reply'[u] = reply[u]
  PROVE  Waited(u)' /\ Once(u)'
<1>1. CASE w.heard
  <2>1. /\ client[u].at = "patch"
        /\ \A x \in asks[u] \cup (writers[u] \ {w}) : ~x.heard
    BY <1>1 DEF Waited
  <2>2. Waited(u)' BY <2>1 DEF Waited, Awaits
  <2>3. \A b \in asks[u] : b.op = "patch" BY <2>1 DEF Once
  <2> QED BY <2>2, <2>3 DEF Once
<1>2. CASE ~w.heard
  <2>1. Waited(u)' BY <1>2 DEF Waited, Awaits
  <2>2. Once(u)' BY <1>2 DEF Once
  <2> QED BY <2>1, <2>2
<1> QED BY <1>1, <1>2

LEMMA ReceivesOK ==
  ASSUME IInv, NEW u \in Uploads, NEW w \in writers[u], Receives(u, w) PROVE IInv'
<1> USE Types DEF UploadOK
<1>1. PICK n \in w.put .. w.got + 1 :
        /\ Puts(u, w, n)
        /\ writers' = [writers EXCEPT ![u] = (@ \ {w}) \cup {[w EXCEPT !.got = w.got + 1, !.put = n]}]
  BY DEF Receives
<1> DEFINE x == [w EXCEPT !.got = w.got + 1, !.put = n]
<1>2. /\ doing = Nothing /\ w.got < w.to /\ w \in Writers /\ Behind(u, w)
      /\ row' = row /\ doing' = doing /\ torn' = torn /\ asks' = asks /\ client' = client
      /\ reply' = reply /\ faults' = faults /\ idle' = idle /\ old' = old
  BY DEF Receives, clock, Grounds
<1>3. n \in 0 .. Size /\ w.put <= n /\ w.got + 1 \in 0 .. Size /\ w.got + 1 <= w.to /\ n <= w.got + 1
  BY <1>2 DEF Writers
<1>4. /\ Grown(u)
      /\ w.onto = "part" => Has(part'[u], n)
      /\ w.onto = "file" => Has(file'[u], n)
  BY <1>1, <1>3, PutsGrow
<1>5. /\ x \in Writers /\ x.onto = w.onto /\ x.heard = w.heard /\ x.to = w.to
      /\ x.put = n /\ x.got = w.got + 1
  BY <1>2, <1>3 DEF Writers
<1>6. writers'[u] = (writers[u] \ {w}) \cup {x} /\ writers' \in [Uploads -> SUBSET Writers]
      /\ \A v \in Uploads \ {u} : writers'[v] = writers[v]
  BY <1>1, <1>5 DEF IInv, TypeOK
<1>7. TypeOK' BY <1>2, <1>4, <1>6 DEF IInv, TypeOK, Grown
<1>8. \A v \in Uploads \ {u} : Same(v) BY <1>2, <1>4, <1>6 DEF Same, Doing, Grown
<1>9. Behind(u, x)'
  <2>1. x.put <= x.got /\ x.got <= x.to BY <1>3, <1>5
  <2>2. x.onto = "part" => part'[u] # Absent /\ Has(part'[u], x.put)
    BY <1>2, <1>4, <1>5 DEF Behind, Grown
  <2>3. x.onto = "file" => file'[u] # Absent /\ Has(file'[u], x.put)
    BY <1>2, <1>4, <1>5 DEF Behind, Grown
  <2> QED BY <2>1, <2>2, <2>3 DEF Behind, Has
<1>10. Grounds(u)' /\ Begun(u)' /\ Whole(u)'
  <2>1. \A y \in {x} : Behind(u, y)' /\ y.onto = w.onto BY <1>5, <1>9
  <2>2. {x} \in SUBSET Writers BY <1>5
  <2> HIDE DEF x
  <2> QED BY <1>2, <1>4, <1>6, <2>1, <2>2, WriterKeeps
<1> HIDE DEF x
<1>11. Spoken(u)'
  <2>1. Waited(u)'
    <3>1. ASSUME NEW y \in writers'[u], y.heard
          PROVE  /\ client[u].at = "patch" /\ y.to = UpTo(client[u].offset)
                 /\ \A z \in asks[u] \cup (writers'[u] \ {y}) : ~z.heard
      BY <1>5, <1>6, <3>1 DEF Spoken, Waited
    <3>2. reply[u] # "none" => \A z \in asks[u] \cup writers'[u] : ~z.heard
      BY <1>5, <1>6 DEF Spoken, Waited
    <3>3. ASSUME NEW a \in asks[u], a.heard PROVE \A z \in (asks[u] \ {a}) \cup writers'[u] : ~z.heard
      BY <1>5, <1>6, <3>3 DEF Spoken, Waited
    <3> QED BY <1>2, <3>1, <3>2, <3>3 DEF Spoken, Waited, Awaits
  <2>2. Once(u)' BY <1>2 DEF Spoken, Once
  <2>3. Early(u)' BY <1>2 DEF Spoken, Early
  <2> QED BY <2>1, <2>2, <2>3 DEF Spoken
<1>12. Kept(u)'
  <2>1. Alive(u)' = Alive(u) /\ Doing("complete", u)' = Doing("complete", u)
    BY <1>2 DEF Alive, Sweeping, Doing
  <2>2. \A y \in writers'[u] : y.heard => \E z \in writers[u] : z.heard /\ z.onto = y.onto
    BY <1>5, <1>6
  <2>3. SUFFICES ASSUME Alive(u) PROVE Kept(u)' BY <2>1 DEF Kept
  <2>4. \A m : Has(Held(u), m) => Has(Held(u)', m) BY <1>4, GrownHas
  <2>5. part'[u] = Absent <=> part[u] = Absent BY <1>4 DEF Grown
  <2> QED BY <1>2, <2>1, <2>2, <2>3, <2>4, <2>5 DEF Kept
<1> QED BY <1>7, <1>8, <1>10, <1>11, <1>12, TheRest

\* A writer goes, with n of its blocks in the file.
LEMMA WriterGoes ==
  ASSUME IInv, NEW u \in Uploads, NEW w \in writers[u], Grown(u),
         doing = Nothing, row' = row, doing' = doing, torn' = torn, asks' = asks, client' = client,
         old' = old, idle' \subseteq Uploads, faults' \in Nat,
         writers' = [writers EXCEPT ![u] = @ \ {w}],
         reply' \in [Uploads -> {"none", "ok", "error", "gone"}],
         \A v \in Uploads \ {u} : reply'[v] = reply[v],
         w.heard => reply'[u] # "none", ~w.heard => reply'[u] = reply[u],
         w.heard /\ reply'[u] = "ok" /\ w.onto = "part" => Has(part'[u], w.to)
  PROVE  IInv'
<1> USE Types DEF UploadOK
<1>1. writers'[u] = writers[u] \ {w} /\ \A v \in Uploads \ {u} : writers'[v] = writers[v]
  BY DEF IInv, TypeOK
<1>2. TypeOK' BY DEF IInv, TypeOK, Grown
<1>3. \A v \in Uploads \ {u} : Same(v) BY <1>1 DEF Same, Doing, Grown
<1>4. Grounds(u)' /\ Begun(u)' /\ Whole(u)'
  <2>1. writers'[u] = (writers[u] \ {w}) \cup {} BY <1>1
  <2>2. {} \in SUBSET Writers /\ \A x \in {} : Behind(u, x)' /\ x.onto = w.onto OBVIOUS
  <2> QED BY <2>1, <2>2, WriterKeeps
<1>5. Spoken(u)'
  <2>1. Waited(u)' /\ Once(u)' BY <1>1, WriterGoesSpoken DEF Spoken
  <2>2. row[u] # "none" BY DEF Grounds
  <2>3. Early(u)' BY <2>2 DEF Spoken, Early
  <2> QED BY <2>1, <2>3 DEF Spoken
<1>6. Kept(u)'
  <2>1. Alive(u)' = Alive(u) /\ Doing("complete", u)' = Doing("complete", u)
    BY DEF Alive, Sweeping, Doing
  <2>2. SUFFICES ASSUME Alive(u) PROVE Kept(u)' BY <2>1 DEF Kept
  <2>3. ASSUME client[u].at = "patch", reply'[u] = "ok" PROVE Has(Held(u)', UpTo(client[u].offset))
    <3>1. CASE w.heard
      <4>1. w.onto = "part" /\ w.to = UpTo(client[u].offset) BY <2>2, <3>1 DEF Kept, Spoken, Waited
      <4>2. part[u] # Absent BY <4>1 DEF Grounds, Behind
      <4> QED BY <2>3, <3>1, <4>1, <4>2 DEF Held, Grown
    <3>2. CASE ~w.heard BY <2>2, <2>3, <3>2, GrownHas DEF Kept
    <3> QED BY <3>1, <3>2
  <2>4. client[u].at = "init" => ~w.heard BY DEF Spoken, Waited
  <2> QED BY <1>1, <2>1, <2>2, <2>3, <2>4, GrownHas DEF Kept, Grown, Has
<1> QED BY <1>2, <1>3, <1>4, <1>5, <1>6, TheRest

LEMMA StillGrown ==
  ASSUME IInv, NEW u \in Uploads, part' = part, file' = file PROVE Grown(u)
BY Types DEF IInv, TypeOK, UploadOK, Grounds, Grown

LEMMA FinishPatchOK ==
  ASSUME IInv, NEW u \in Uploads, NEW w \in writers[u], FinishPatch(u, w) PROVE IInv'
<1>1. /\ doing = Nothing /\ row' = row /\ doing' = doing /\ torn' = torn /\ asks' = asks
      /\ client' = client /\ old' = old /\ writers' = [writers EXCEPT ![u] = @ \ {w}]
      /\ w.got = w.to
  BY DEF FinishPatch
<1>2. w \in Writers /\ w.put <= w.got BY Types DEF UploadOK, Grounds, Behind
<1>3. CASE Puts(u, w, w.to) /\ idle' = idle \ {u} /\ Answers(u, w, "ok") /\ UNCHANGED faults
  <2>1. Grown(u) /\ (w.onto = "part" => Has(part'[u], w.to))
    BY <1>1, <1>2, <1>3, PutsGrow DEF Writers
  <2>2. /\ reply' \in [Uploads -> {"none", "ok", "error", "gone"}]
        /\ \A v \in Uploads \ {u} : reply'[v] = reply[v]
        /\ w.heard => reply'[u] # "none"
        /\ ~w.heard => reply'[u] = reply[u]
    BY <1>3, AnswersTo
  <2>3. idle' \subseteq Uploads /\ faults' \in Nat BY <1>3 DEF IInv, TypeOK
  <2> QED BY <1>1, <2>1, <2>2, <2>3, WriterGoes
<1>4. CASE Fault /\ Answers(u, w, "error") /\ UNCHANGED <<disk, idle>>
  <2>1. Grown(u) BY <1>4, StillGrown DEF disk
  <2>2. /\ reply' \in [Uploads -> {"none", "ok", "error", "gone"}]
        /\ \A v \in Uploads \ {u} : reply'[v] = reply[v]
        /\ w.heard => reply'[u] = "error"
        /\ ~w.heard => reply'[u] = reply[u]
    BY <1>4, AnswersTo
  <2>3. idle' \subseteq Uploads /\ faults' \in Nat BY <1>4 DEF IInv, TypeOK, Fault
  <2> QED BY <1>1, <2>1, <2>2, <2>3, WriterGoes
<1> QED BY <1>3, <1>4 DEF FinishPatch

LEMMA WriterDiesOK ==
  ASSUME IInv, NEW u \in Uploads, NEW w \in writers[u], WriterDies(u, w) PROVE IInv'
<1>1. /\ doing = Nothing /\ row' = row /\ doing' = doing /\ torn' = torn /\ asks' = asks
      /\ client' = client /\ old' = old /\ idle' = idle /\ writers' = [writers EXCEPT ![u] = @ \ {w}]
  BY DEF WriterDies, clock
<1>2. w \in Writers /\ w.put <= w.got BY Types DEF UploadOK, Grounds, Behind
<1>3. Grown(u) BY <1>2, PutsGrow DEF Writers, WriterDies
<1>4. /\ reply' \in [Uploads -> {"none", "ok", "error", "gone"}]
      /\ \A v \in Uploads \ {u} : reply'[v] = reply[v]
      /\ w.heard => reply'[u] = "error"
      /\ ~w.heard => reply'[u] = reply[u]
  BY AnswersTo DEF WriterDies, IInv, TypeOK
<1>5. idle' \subseteq Uploads /\ faults' \in Nat BY <1>1 DEF WriterDies, IInv, TypeOK, Fault
<1> QED BY <1>1, <1>3, <1>4, <1>5, WriterGoes

-----------------------------------------------------------------------------
(* The files of an upload change their names, or go.                       *)

LEMMA FollowedTo ==
  ASSUME IInv, NEW u \in Uploads, NEW files \in SUBSET {"part", "file"},
         NEW onto \in {"part", "file", "gone"}, Follow(u, files, onto)
  PROVE  /\ writers' \in [Uploads -> SUBSET Writers]
         /\ \A v \in Uploads \ {u} : writers'[v] = writers[v]
         /\ writers[u] = {} => writers'[u] = {}
         /\ \A x \in writers'[u] : \E y \in writers[u] :
              /\ x = [y EXCEPT !.onto = IF y.onto \in files THEN onto ELSE y.onto]
              /\ x.got = y.got /\ x.put = y.put /\ x.to = y.to /\ x.heard = y.heard
              /\ x.onto = IF y.onto \in files THEN onto ELSE y.onto
<1> DEFINE to(y) == [y EXCEPT !.onto = IF y.onto \in files THEN onto ELSE y.onto]
<1>1. writers \in [Uploads -> SUBSET Writers] BY DEF IInv, TypeOK
<1>2. writers' = [writers EXCEPT ![u] = {to(y) : y \in writers[u]}] BY <1>1 DEF Follow
<1>3. writers'[u] = {to(y) : y \in writers[u]} BY <1>1, <1>2
<1>4. ASSUME NEW y \in writers[u]
      PROVE  /\ to(y) \in Writers
             /\ to(y).got = y.got /\ to(y).put = y.put /\ to(y).to = y.to /\ to(y).heard = y.heard
             /\ to(y).onto = IF y.onto \in files THEN onto ELSE y.onto
  <2> DEFINE k == IF y.onto \in files THEN onto ELSE y.onto
  <2>1. y \in Writers BY <1>1
  <2>2. k \in {"part", "file", "gone"} BY <2>1 DEF Writers
  <2>3. to(y) = [y EXCEPT !.onto = k] OBVIOUS
  <2> HIDE DEF k, to
  <2>4. to(y) \in Writers /\ to(y).onto = k BY <2>1, <2>2, <2>3 DEF Writers
  <2>5. to(y).got = y.got /\ to(y).put = y.put /\ to(y).to = y.to /\ to(y).heard = y.heard
    BY <2>1, <2>3 DEF Writers
  <2> QED BY <2>4, <2>5 DEF k, to
<1>5. ASSUME NEW x \in writers'[u]
      PROVE  \E y \in writers[u] :
               /\ x = [y EXCEPT !.onto = IF y.onto \in files THEN onto ELSE y.onto]
               /\ x.got = y.got /\ x.put = y.put /\ x.to = y.to /\ x.heard = y.heard
               /\ x.onto = IF y.onto \in files THEN onto ELSE y.onto
  <2>1. PICK y \in writers[u] : x = to(y) BY <1>3
  <2>2. to(y) = [y EXCEPT !.onto = IF y.onto \in files THEN onto ELSE y.onto] OBVIOUS
  <2> HIDE DEF to
  <2> WITNESS y \in writers[u]
  <2> QED BY <1>4, <2>1, <2>2
<1>6. /\ writers' \in [Uploads -> SUBSET Writers]
      /\ \A v \in Uploads \ {u} : writers'[v] = writers[v]
      /\ writers[u] = {} => writers'[u] = {}
  <2> HIDE DEF to
  <2> QED BY <1>1, <1>2, <1>3, <1>4
<1> HIDE DEF to
<1> QED BY <1>5, <1>6

LEMMA FollowSpoken ==
  ASSUME IInv, NEW u \in Uploads, NEW files \in SUBSET {"part", "file"},
         NEW onto \in {"part", "file", "gone"}, Follow(u, files, onto),
         asks' = asks, client' = client, reply' = reply
  PROVE  Waited(u)' /\ Once(u)'
<1> USE Types DEF UploadOK, Spoken
<1>1. ASSUME NEW x \in writers'[u], x.heard
      PROVE  /\ client[u].at = "patch" /\ x.to = UpTo(client[u].offset)
             /\ \A z \in asks[u] \cup (writers'[u] \ {x}) : ~z.heard
  <2>1. PICK y \in writers[u] :
          /\ x = [y EXCEPT !.onto = IF y.onto \in files THEN onto ELSE y.onto]
          /\ x.to = y.to /\ y.heard
    BY <1>1, FollowedTo
  <2>2. ASSUME NEW z \in writers'[u] \ {x} PROVE ~z.heard
    <3>1. PICK v \in writers[u] :
            /\ z = [v EXCEPT !.onto = IF v.onto \in files THEN onto ELSE v.onto]
            /\ z.heard = v.heard
      BY FollowedTo
    <3>2. v # y BY <2>1, <3>1
    <3> QED BY <2>1, <3>1, <3>2 DEF Waited
  <2> QED BY <2>1, <2>2 DEF Waited
<1>2. (\A w \in writers[u] : ~w.heard) => \A w \in writers'[u] : ~w.heard BY FollowedTo
<1>3. Waited(u)' BY <1>1, <1>2 DEF Waited, Awaits
<1>4. Once(u)' BY DEF Once
<1> QED BY <1>3, <1>4

LEMMA CompleteBeginsOK ==
  ASSUME IInv, NEW u \in Uploads, NEW a \in asks[u], CompleteBegins(u, a) PROVE IInv'
<1> USE Types DEF UploadOK
<1>1. /\ a.op = "complete" /\ doing = Nothing /\ Doing("complete", u)' /\ doing' \in Doings
      /\ row' = row /\ torn' = torn /\ asks' = asks /\ client' = client /\ reply' = reply
      /\ row[u] = "uploading" /\ part[u] # Absent /\ EndsAt(part[u], Size)
      /\ file'[u] = part[u] /\ part'[u] = Absent
      /\ \A v \in Uploads \ {u} : part'[v] = part[v] /\ file'[v] = file[v]
  BY DEF IInv, TypeOK, CompleteBegins, Refused, Doing, Doings
<1>2. part[u] = Block BY <1>1, Numbers, EndsAtIsAll DEF Grounds, Content, Block
<1>3. /\ writers' \in [Uploads -> SUBSET Writers]
      /\ \A v \in Uploads \ {u} : writers'[v] = writers[v]
      /\ \A x \in writers'[u] : \E y \in writers[u] :
           /\ x.got = y.got /\ x.put = y.put /\ x.to = y.to
           /\ x.onto = IF y.onto = "part" THEN "file" ELSE y.onto
  BY FollowedTo DEF CompleteBegins
<1>4. client[u].at \in {"complete", "failed"} /\ reply[u] = "none" BY <1>1 DEF Spoken, Once
<1>5. TypeOK'
  <2>1. part' \in [Uploads -> Files] /\ file' \in [Uploads -> Files]
    BY DEF CompleteBegins, IInv, TypeOK, Files
  <2> QED BY <1>1, <1>3, <2>1 DEF IInv, TypeOK, CompleteBegins, clock
<1>6. \A op \in Ops : ~Doing(op, u) /\ (op # "complete" => ~Doing(op, u)')
  BY <1>1, NothingIsDone DEF Doing
<1>7. \A v \in Uploads \ {u} : Same(v)
  <2>1. \A v \in Uploads \ {u} : \A op \in Ops : ~Doing(op, v) /\ ~Doing(op, v)'
    BY <1>1, NothingIsDone DEF Doing
  <2> QED BY <2>1, <1>1, <1>3 DEF Same
<1>8. Grounds(u)'
  <2>1. ASSUME NEW x \in writers'[u] PROVE Behind(u, x)'
    <3>1. x.put <= x.got /\ x.got <= x.to /\ x.onto # "part"
      BY <1>3 DEF Grounds, Behind
    <3>2. file'[u] # Absent /\ Has(file'[u], x.put) BY <1>1, <1>2, Numbers DEF Has
    <3> QED BY <3>1, <3>2 DEF Behind
  <2>2. Prefix(part'[u]) /\ Prefix(file'[u]) BY <1>1 DEF Grounds, Prefix
  <2> QED BY <1>1, <1>6, <2>1, <2>2 DEF Grounds, Ops
<1>9. Begun(u)' BY <1>1, <1>2, <1>4, <1>6 DEF Begun, Ops, Removals
<1>10. Whole(u)' BY <1>1 DEF Whole
<1>11. Spoken(u)'
  <2>1. Waited(u)' /\ Once(u)' BY <1>1, FollowSpoken DEF CompleteBegins
  <2>2. Early(u)' BY <1>1 DEF Spoken, Early
  <2> QED BY <2>1, <2>2 DEF Spoken
<1>12. Kept(u)'
  <2>1. Held(u)' = Block BY <1>1, <1>2, Numbers DEF Held, Content
  <2>2. \A w \in writers'[u] : ~w.heard BY <1>1, <1>4, <1>11 DEF Spoken, Waited
  <2> QED BY <1>1, <1>4, <2>1, <2>2 DEF Kept, Has
<1> QED BY <1>5, <1>7, <1>8, <1>9, <1>10, <1>11, <1>12, TheRest

\* The name is given back when the row could not be made ready.
LEMMA CompleteEndsOK ==
  ASSUME IInv, NEW u \in Uploads, NEW a \in asks[u], CompleteEnds(u, a) PROVE IInv'
<1> USE Types DEF UploadOK
<1>1. /\ a.op = "complete" /\ Doing("complete", u) /\ doing' = Nothing /\ asks'[u] = asks[u] \ {a}
      /\ torn' = torn /\ client' = client /\ idle' = idle /\ old' = old
      /\ asks' \in [Uploads -> SUBSET Asks]
      /\ \A v \in Uploads \ {u} : asks'[v] = asks[v]
  BY DEF CompleteEnds, Took, clock, Doing, IInv, TypeOK
<1>2. /\ row[u] = "uploading" /\ file[u] = Block /\ part[u] = Absent /\ reply[u] = "none"
      /\ client[u].at \in {"complete", "failed"}
  BY <1>1 DEF Begun
<1>3. \A w \in writers[u] : ~w.heard /\ w.onto # "part" BY <1>2 DEF Spoken, Waited, Grounds, Behind
<1>4. /\ reply' \in [Uploads -> {"none", "ok", "error", "gone"}]
      /\ \A v \in Uploads \ {u} : reply'[v] = reply[v]
      /\ a.heard => reply'[u] # "none"
      /\ ~a.heard => reply'[u] = reply[u]
      /\ faults' \in Nat
  BY AnswersTo DEF CompleteEnds, IInv, TypeOK, Fault
<1>5. \A op \in Ops : ~Doing(op, u)' BY <1>1, NothingWillBeDone
<1>6. \A v \in Uploads \ {u} : \A op \in Ops : ~Doing(op, v) /\ ~Doing(op, v)'
  BY <1>1, NothingWillBeDone DEF Doing
<1>7. CASE row' = [row EXCEPT ![u] = "ready"] /\ UNCHANGED <<disk, writers, faults>>
  <2>1. row'[u] = "ready" /\ part' = part /\ file' = file /\ writers' = writers
    BY <1>7 DEF IInv, TypeOK, disk
  <2>2. TypeOK' BY <1>1, <1>4, <1>7, <2>1 DEF IInv, TypeOK, Rows
  <2>3. \A v \in Uploads \ {u} : Same(v) BY <1>1, <1>4, <1>6, <1>7, <2>1 DEF Same
  <2>4. Grounds(u)' BY <1>5, <2>1 DEF Grounds, Behind, Has, Prefix, Ops
  <2>5. Begun(u)' BY <1>5 DEF Begun, Ops, Removals
  <2>6. Whole(u)' BY <1>2, <2>1 DEF Whole
  <2>7. Spoken(u)'
    <3>1. Waited(u)' /\ Once(u)' BY <1>1, <1>4, <2>1, TakenSpoken DEF Spoken
    <3>2. Early(u)' BY <1>1, <1>2, <2>1 DEF Spoken, Early
    <3> QED BY <3>1, <3>2 DEF Spoken
  <2>8. Kept(u)' BY <2>1 DEF Kept, Alive
  <2> QED BY <2>2, <2>3, <2>4, <2>5, <2>6, <2>7, <2>8, TheRest
<1>8. CASE /\ Fault /\ Answers(u, a, "error")
           /\ part' = [part EXCEPT ![u] = file[u]] /\ file' = [file EXCEPT ![u] = Absent]
           /\ Follow(u, {"file"}, "part") /\ UNCHANGED row
  <2>1. part'[u] = Block /\ file'[u] = Absent /\ row' = row
    BY <1>2, <1>8 DEF IInv, TypeOK
  <2>2. /\ writers' \in [Uploads -> SUBSET Writers]
        /\ \A v \in Uploads \ {u} : writers'[v] = writers[v]
        /\ \A x \in writers'[u] : \E y \in writers[u] :
             /\ x.got = y.got /\ x.put = y.put /\ x.to = y.to /\ x.heard = y.heard
             /\ x.onto = IF y.onto = "file" THEN "part" ELSE y.onto
    BY <1>8, FollowedTo
  <2>3. \A x \in writers'[u] : ~x.heard BY <1>3, <2>2
  <2>4. TypeOK'
    <3>1. part' \in [Uploads -> Files] /\ file' \in [Uploads -> Files]
      BY <1>8 DEF IInv, TypeOK, Files
    <3> QED BY <1>1, <1>4, <2>1, <2>2, <3>1 DEF IInv, TypeOK
  <2>5. \A v \in Uploads \ {u} : Same(v) BY <1>1, <1>4, <1>6, <1>8, <2>1, <2>2 DEF IInv, TypeOK, Same
  <2>6. Grounds(u)'
    <3>1. ASSUME NEW x \in writers'[u] PROVE Behind(u, x)' /\ x.onto # "file"
      <4>1. x.put <= x.got /\ x.got <= x.to /\ x.onto # "file"
        BY <2>2 DEF Grounds, Behind
      <4>2. part'[u] # Absent /\ Has(part'[u], x.put) BY <2>1, Numbers DEF Has
      <4> QED BY <4>1, <4>2 DEF Behind
    <3>2. Prefix(part'[u]) /\ Prefix(file'[u]) BY <1>2, <2>1 DEF Grounds, Prefix
    <3> QED BY <1>2, <1>5, <2>1, <3>1, <3>2 DEF Grounds, Ops
  <2>7. Begun(u)' BY <1>5 DEF Begun, Ops, Removals
  <2>8. Whole(u)' BY <1>2, <2>1 DEF Whole
  <2>9. Spoken(u)'
    <3>1. Waited(u)' /\ Once(u)' BY <1>1, <1>4, <2>3, TakenSpoken DEF Spoken
    <3>2. Early(u)' BY <1>1, <1>2, <2>1 DEF Spoken, Early
    <3> QED BY <3>1, <3>2 DEF Spoken
  <2>10. Kept(u)'
    <3>1. Held(u)' = Block BY <2>1, Numbers DEF Held
    <3> QED BY <1>1, <1>2, <2>1, <2>3, <3>1, Numbers DEF Kept, Has
  <2> QED BY <2>4, <2>5, <2>6, <2>7, <2>8, <2>9, <2>10, TheRest
<1> QED BY <1>7, <1>8 DEF CompleteEnds

\* What Unlinks() leaves.
LEMMA UnlinksTo ==
  ASSUME IInv, NEW u \in Uploads, NEW files \in SUBSET {"part", "file"}, Unlinks(u, files)
  PROVE  /\ part' \in [Uploads -> Files] /\ file' \in [Uploads -> Files]
         /\ writers' \in [Uploads -> SUBSET Writers]
         /\ \A v \in Uploads \ {u} :
              part'[v] = part[v] /\ file'[v] = file[v] /\ writers'[v] = writers[v]
         /\ Prefix(part'[u]) /\ Prefix(file'[u])
         /\ \A x \in writers'[u] : Behind(u, x)' /\ \E y \in writers[u] : x.onto = "file" => y.onto = "file"
         /\ writers[u] = {} => writers'[u] = {}
<1> USE Types DEF UploadOK
<1>1. /\ part'[u] = (IF "part" \in files THEN Absent ELSE part[u])
      /\ file'[u] = (IF "file" \in files THEN Absent ELSE file[u])
      /\ part' \in [Uploads -> Files] /\ file' \in [Uploads -> Files]
      /\ \A v \in Uploads \ {u} : part'[v] = part[v] /\ file'[v] = file[v]
  BY DEF Unlinks, IInv, TypeOK, Files
<1>2. Follow(u, files, "gone") BY DEF Unlinks
<1>3. ASSUME NEW x \in writers'[u]
      PROVE  Behind(u, x)' /\ \E y \in writers[u] : x.onto = "file" => y.onto = "file"
  <2>1. PICK y \in writers[u] :
          /\ x.got = y.got /\ x.put = y.put /\ x.to = y.to
          /\ x.onto = IF y.onto \in files THEN "gone" ELSE y.onto
    BY <1>2, FollowedTo
  <2>2. Behind(u, y) BY DEF Grounds
  <2>3. x.onto = "part" => part'[u] = part[u] BY <1>1, <2>1
  <2>4. x.onto = "file" => file'[u] = file[u] BY <1>1, <2>1
  <2>5. Behind(u, x)' BY <2>1, <2>2, <2>3, <2>4 DEF Behind, Has
  <2>6. x.onto = "file" => y.onto = "file" BY <2>1
  <2> QED BY <2>5, <2>6
<1>4. Prefix(part'[u]) /\ Prefix(file'[u]) BY <1>1 DEF Grounds, Prefix
<1> QED BY <1>1, <1>2, <1>3, <1>4, FollowedTo

LEMMA SweepBeginsOK ==
  ASSUME IInv, NEW u \in Uploads, SweepBegins(u) PROVE IInv'
<1> USE Types DEF UploadOK
<1>1. /\ doing = Nothing /\ Doing("sweep", u)' /\ doing' \in Doings
      /\ row' = row /\ torn' = torn /\ asks' = asks /\ client' = client /\ reply' = reply
      /\ idle' = idle /\ old' = old /\ faults' = faults /\ Unlinks(u, {"part", "file"})
  BY DEF SweepBegins, Doing, Doings, clock
<1>2. TypeOK' BY <1>1, UnlinksTo DEF IInv, TypeOK
<1>3. \A op \in Ops : ~Doing(op, u) /\ (op # "sweep" => ~Doing(op, u)')
  BY <1>1, NothingIsDone DEF Doing
<1>4. \A v \in Uploads \ {u} : Same(v)
  <2>1. \A v \in Uploads \ {u} : \A op \in Ops : ~Doing(op, v) /\ ~Doing(op, v)'
    BY <1>1, NothingIsDone DEF Doing
  <2> QED BY <2>1, <1>1, UnlinksTo DEF Same
<1>5. Grounds(u)'
  <2>1. \A x \in writers'[u] : Behind(u, x)' /\ \E y \in writers[u] : x.onto = "file" => y.onto = "file"
    BY <1>1, UnlinksTo
  <2>2. /\ Prefix(part'[u]) /\ Prefix(file'[u])
        /\ writers[u] = {} => writers'[u] = {}
    BY <1>1, UnlinksTo
  <2>3. row[u] = "uploading" => \A x \in writers'[u] : x.onto # "file"
    <3>1. row[u] = "uploading" => file'[u] = Absent BY <1>1 DEF Unlinks, IInv, TypeOK
    <3> QED BY <2>1, <3>1 DEF Behind
  <2> QED BY <1>1, <1>3, <2>1, <2>2, <2>3 DEF Grounds, Ops
<1>6. Begun(u)' BY <1>3 DEF Begun, Ops, Removals
<1>7. Sweeping(u)' BY <1>1 DEF Sweeping, Doing
<1>8. Whole(u)' /\ Kept(u)' BY <1>7 DEF Whole, Kept, Alive
<1>9. Spoken(u)'
  <2>1. Waited(u)' /\ Once(u)' BY <1>1, FollowSpoken DEF Unlinks
  <2> QED BY <1>1, <2>1 DEF Spoken, Early
<1> QED BY <1>2, <1>4, <1>5, <1>6, <1>8, <1>9, TheRest

LEMMA SweepEndsOK ==
  ASSUME IInv, NEW u \in Uploads, SweepEnds(u) PROVE IInv'
<1> USE Types DEF UploadOK
<1>1. /\ Doing("sweep", u) /\ doing' = Nothing /\ part' = part /\ file' = file
      /\ writers' = writers /\ asks' = asks /\ client' = client /\ reply' = reply
      /\ idle' = idle /\ old' = old
  BY DEF SweepEnds, Doing, disk, clock
<1>2. /\ row'[u] = "swept" \/ (row'[u] = row[u] /\ u \in torn')
      /\ \A v \in Uploads \ {u} : row'[v] = row[v] /\ (v \in torn' <=> v \in torn)
      /\ row' \in [Uploads -> Rows] /\ torn' \subseteq Uploads /\ faults' \in Nat
  BY DEF SweepEnds, IInv, TypeOK, Rows, Fault
<1>3. TypeOK' BY <1>1, <1>2 DEF IInv, TypeOK
<1>4. \A op \in Ops : ~Doing(op, u)' /\ (op # "sweep" => ~Doing(op, u))
  BY <1>1, NothingWillBeDone DEF Doing
<1>5. \A v \in Uploads \ {u} : Same(v)
  <2>1. \A v \in Uploads \ {u} : \A op \in Ops : ~Doing(op, v) /\ ~Doing(op, v)'
    BY <1>1, NothingWillBeDone DEF Doing
  <2> QED BY <2>1, <1>1, <1>2 DEF Same
<1>6. Grounds(u)' BY <1>1, <1>2, <1>4 DEF Grounds, Behind, Has, Prefix, Ops
<1>7. Begun(u)' BY <1>4 DEF Begun, Ops, Removals
<1>8. row'[u] = "swept" \/ Sweeping(u)' BY <1>2 DEF Sweeping
<1>9. Whole(u)' /\ Kept(u)' BY <1>8 DEF Whole, Kept, Alive
<1>10. Spoken(u)'
  <2>1. Waited(u)' /\ Once(u)' BY <1>1 DEF Spoken, Waited, Once, Awaits
  <2> QED BY <1>1, <1>2, <2>1 DEF Spoken, Early
<1> QED BY <1>3, <1>5, <1>6, <1>7, <1>9, <1>10, TheRest

LEMMA RowGoesOK ==
  ASSUME IInv, NEW u \in Uploads, NEW op \in Removals, RowGoes(u, op) PROVE IInv'
<1> USE Types DEF UploadOK
<1>1. /\ doing = Nothing /\ Doing(op, u)' /\ doing' \in Doings
      /\ part' = part /\ file' = file /\ idle' = idle /\ old' = old
      /\ writers' = writers /\ asks' = asks /\ client' = client /\ reply' = reply
  BY DEF RowGoes, Doing, Doings, disk, clock
<1>2. row[u] \in Live
  BY DEF RowGoes, Aborts, MessageGoes, ChannelGoes, Prunes, Purges, Live
<1> DEFINE Gone == /\ row' = [row EXCEPT ![u] = IF op = "purge" THEN "purged" ELSE "removed"]
                   /\ torn' = torn /\ faults' = faults
           Stays == /\ op \in {"remove", "prune"} /\ row' = row
                    /\ torn' = torn \cup {u} /\ faults' \in Nat
<1>3. Gone \/ Stays
  <2>1. CASE op = "abort" BY <2>1 DEF RowGoes, Aborts, Removed
  <2>2. CASE op = "purge" BY <2>2 DEF RowGoes, Purges
  <2>3. ASSUME RemovedOrNot(u), op \in {"remove", "prune"} PROVE Gone \/ Stays
    BY <2>3 DEF RemovedOrNot, Removed, Fault, IInv, TypeOK
  <2>4. CASE op = "remove" BY <2>3, <2>4 DEF RowGoes, MessageGoes, ChannelGoes, Removed
  <2>5. CASE op = "prune" BY <2>3, <2>5 DEF RowGoes, Prunes
  <2> QED BY <2>1, <2>2, <2>4, <2>5 DEF Removals
<1>4. /\ row' \in [Uploads -> Rows] /\ \A v \in Uploads \ {u} : row'[v] = row[v]
      /\ \/ row'[u] = IF op = "purge" THEN "purged" ELSE "removed"
         \/ op \in {"remove", "prune"} /\ row'[u] \in Live /\ row'[u] = row[u] /\ u \in torn'
      /\ torn' \subseteq Uploads /\ \A v \in Uploads \ {u} : v \in torn' <=> v \in torn
      /\ faults' \in Nat
  BY <1>2, <1>3 DEF IInv, TypeOK, Rows
<1>5. TypeOK' BY <1>1, <1>4 DEF IInv, TypeOK
<1>6. \A o \in Ops : ~Doing(o, u) /\ (o # op => ~Doing(o, u)')
  BY <1>1, NothingIsDone DEF Doing
<1>7. \A v \in Uploads \ {u} : Same(v)
  <2>1. \A v \in Uploads \ {u} : \A o \in Ops : ~Doing(o, v) /\ ~Doing(o, v)'
    BY <1>1, NothingIsDone DEF Doing
  <2> QED BY <2>1, <1>1, <1>4 DEF Same
<1>8. /\ ~Doing("init", u)' /\ ~Doing("complete", u)'
      /\ ~Doing("init", u) /\ ~Doing("complete", u)
  BY <1>6 DEF Ops, Removals
<1>9. Grounds(u)'
  <2>1. row'[u] # "none" BY <1>4 DEF Live
  <2>2. row'[u] = "uploading" => row[u] = "uploading" BY <1>4
  <2> QED BY <1>1, <1>8, <2>1, <2>2 DEF Grounds, Behind, Has, Prefix
<1>10. Begun(u)' BY <1>4, <1>6, <1>8 DEF Begun, Ops, Removals
<1>11. Whole(u)' /\ Kept(u)' BY <1>4 DEF Whole, Kept, Alive, Sweeping
<1>12. Spoken(u)'
  <2>1. Waited(u)' /\ Once(u)' BY <1>1 DEF Spoken, Waited, Once, Awaits
  <2> QED BY <1>1, <1>4, <2>1 DEF Spoken, Early, Live
<1> QED BY <1>5, <1>7, <1>9, <1>10, <1>11, <1>12, TheRest

LEMMA FilesGoOK ==
  ASSUME IInv, NEW u \in Uploads, NEW op \in Removals, FilesGo(u, op) PROVE IInv'
<1> USE Types DEF UploadOK
<1>1. /\ Doing(op, u) /\ doing' = Nothing
      /\ row' = row /\ torn' = torn /\ asks' = asks /\ client' = client /\ reply' = reply
      /\ idle' = idle /\ old' = old /\ faults' \in Nat
  BY DEF FilesGo, Doing, clock, Fault, IInv, TypeOK
<1>2. PICK files \in SUBSET {"part", "file"} : Unlinks(u, files) BY DEF FilesGo
<1>3. row[u] \in {"removed", "purged"} \/ (row[u] \in Live /\ u \in torn)
  BY <1>1 DEF Begun, Removals
<1>4. TypeOK' BY <1>1, <1>2, UnlinksTo DEF IInv, TypeOK
<1>5. \A o \in Ops : ~Doing(o, u)' BY <1>1, NothingWillBeDone
<1>6. \A v \in Uploads \ {u} : Same(v)
  <2>1. \A v \in Uploads \ {u} : \A o \in Ops : ~Doing(o, v) /\ ~Doing(o, v)'
    BY <1>1, NothingWillBeDone DEF Doing
  <2> QED BY <2>1, <1>1, <1>2, UnlinksTo DEF Same
<1>7. Grounds(u)'
  <2>1. /\ Prefix(part'[u]) /\ Prefix(file'[u])
        /\ \A x \in writers'[u] : Behind(u, x)' /\ \E y \in writers[u] : x.onto = "file" => y.onto = "file"
    BY <1>2, UnlinksTo
  <2>2. row[u] # "none" BY <1>3 DEF Live
  <2>3. ~Doing("complete", u) BY <1>1 DEF Doing, Removals
  <2> QED BY <1>1, <1>5, <2>1, <2>2, <2>3 DEF Grounds, Ops
<1>8. Begun(u)' BY <1>5 DEF Begun, Ops, Removals
<1>9. Whole(u)' /\ Kept(u)' BY <1>1, <1>3 DEF Whole, Kept, Alive, Sweeping
<1>10. Spoken(u)'
  <2>1. Waited(u)' /\ Once(u)' BY <1>1, <1>2, FollowSpoken DEF Unlinks
  <2> QED BY <1>1, <2>1 DEF Spoken, Early
<1> QED BY <1>4, <1>6, <1>7, <1>8, <1>9, <1>10, TheRest

-----------------------------------------------------------------------------
(* The process dies.                                                       *)

LEMMA CrashOK ==
  ASSUME IInv, Crash PROVE IInv'
<1>1. /\ doing' = Nothing /\ row' = row /\ part' = part /\ file' = file
      /\ reply' = reply /\ client' = client /\ idle' = idle /\ old' = old
      /\ \A v \in Uploads : writers'[v] = {} /\ asks'[v] = {}
  BY DEF Crash, disk, clock
<1>2. TypeOK'
  <2>1. torn' \subseteq Uploads BY DEF Crash, IInv, TypeOK, Doings, Nothing, Removals
  <2>2. faults' \in Nat BY DEF Crash, IInv, TypeOK, Fault
  <2>3. writers' \in [Uploads -> SUBSET Writers] /\ asks' \in [Uploads -> SUBSET Asks] BY DEF Crash
  <2> QED BY <1>1, <2>1, <2>2, <2>3 DEF IInv, TypeOK
<1>3. ASSUME NEW u \in Uploads PROVE UploadOK(u)'
  <2> USE Types DEF UploadOK
  <2>1. \A op \in Ops : ~Doing(op, u)' BY <1>1, NothingWillBeDone
  <2>2. Sweeping(u) => Sweeping(u)' BY DEF Sweeping, Crash
  <2>3. Grounds(u)' BY <1>1, <2>1 DEF Grounds, Prefix, Ops
  <2>4. Begun(u)' BY <2>1 DEF Begun, Ops, Removals
  <2>5. Whole(u)' BY <1>1, <2>2 DEF Whole
  <2>6. Spoken(u)'
    <3>1. Waited(u)' BY <1>1 DEF Spoken, Waited, Awaits
    <3>2. Once(u)' BY <1>1 DEF Once
    <3>3. Early(u)' BY <1>1 DEF Spoken, Early
    <3> QED BY <3>1, <3>2, <3>3 DEF Spoken
  <2>7. Kept(u)'
    <3>1. Alive(u)' => Alive(u) BY <1>1, <2>2 DEF Alive
    <3>2. Held(u)' = Held(u) BY <1>1 DEF Held
    <3> QED BY <1>1, <3>1, <3>2 DEF Kept, Has
  <2> QED BY <2>3, <2>4, <2>5, <2>6, <2>7
<1> QED BY <1>2, <1>3 DEF IInv

-----------------------------------------------------------------------------
(* The invariant, and what it is for.                                      *)

LEMMA InitOK == Init => IInv
<1> SUFFICES ASSUME Init PROVE IInv OBVIOUS
<1>1. TypeOK
  <2>1. [at |-> "queued", offset |-> 0, tries |-> 0] \in Clients BY Numbers DEF Clients, Ats
  <2> QED BY <2>1 DEF Init, TypeOK, Rows, Files
<1>2. ASSUME NEW u \in Uploads PROVE UploadOK(u)
  <2>1. /\ row[u] = "none" /\ part[u] = Absent /\ file[u] = Absent /\ doing = Nothing
        /\ writers[u] = {} /\ asks[u] = {} /\ reply[u] = "none"
        /\ client[u] = [at |-> "queued", offset |-> 0, tries |-> 0]
    BY DEF Init
  <2>2. \A op \in Ops : ~Doing(op, u) BY <2>1, NothingIsDone
  <2>3. Grounds(u) BY <2>1 DEF Grounds, Prefix
  <2>4. Begun(u) BY <2>2 DEF Begun, Ops, Removals
  <2>5. Whole(u) /\ Kept(u) BY <2>1 DEF Whole, Kept, Alive
  <2>6. Spoken(u) BY <2>1 DEF Spoken, Waited, Once, Early
  <2> QED BY <2>3, <2>4, <2>5, <2>6 DEF UploadOK
<1> QED BY <1>1, <1>2 DEF IInv

LEMMA NextOK == IInv /\ [Next]_vars => IInv'
<1> SUFFICES ASSUME IInv, [Next]_vars PROVE IInv' OBVIOUS
<1>1. CASE Crash BY <1>1, CrashOK
<1>2. ASSUME NEW u \in Uploads, Uploader(u) PROVE IInv'
  BY <1>2, StartsOK, SendsChunkOK, CompletesOK, CancelsOK, OnReplyOK, DisconnectsOK, SendsOK DEF Uploader
<1>3. ASSUME NEW u \in Uploads, Handlers(u) PROVE IInv'
  <2>1. ASSUME NEW a \in asks[u],
               InitBegins(u, a) \/ Refuses(u, a) \/ HandlePatch(u, a) \/ CompleteBegins(u, a)
        PROVE  IInv'
    BY <2>1, InitBeginsOK, RefusesOK, HandlePatchOK, CompleteBeginsOK
  <2>2. ASSUME NEW w \in writers[u], Receives(u, w) \/ FinishPatch(u, w) \/ WriterDies(u, w)
        PROVE  IInv'
    BY <2>2, ReceivesOK, FinishPatchOK, WriterDiesOK
  <2> QED BY <1>3, <2>1, <2>2, RowGoesOK DEF Handlers
<1>4. ASSUME NEW u \in Uploads, Timers(u) PROVE IInv'
  BY <1>4, TimePassesOK, SweepBeginsOK DEF Timers
<1>5. ASSUME NEW u \in Uploads, Ends(u) PROVE IInv'
  BY <1>5, InitEndsOK, CompleteEndsOK, FilesGoOK, SweepEndsOK DEF Ends
<1>6. CASE UNCHANGED vars
  <2>1. TypeOK' BY <1>6 DEF IInv, TypeOK, vars
  <2>2. \A v \in Uploads : Same(v) BY <1>6 DEF vars, Same, Doing
  <2> QED BY <2>1, <2>2, SameIsOK DEF IInv
<1> QED BY <1>1, <1>2, <1>3, <1>4, <1>5, <1>6 DEF Next

LEMMA AlwaysOK == Spec => []IInv
BY InitOK, NextOK, PTL DEF Spec

(* A ready attachment is whole (handle_complete), for any number of uploads*)
(* and writers: CompleteBegins finds a prefix that ends at Size, and no    *)
(* writer takes a block away.                                              *)
THEOREM AlwaysWhole == Spec => []ReadyIsWhole
<1>1. IInv => ReadyIsWhole BY DEF IInv, UploadOK, Whole, ReadyIsWhole
<1> QED BY <1>1, AlwaysOK, PTL

(* What finish_patch() acknowledged stays on the disk until the upload is  *)
(* ready, swept or removed.                                                *)
THEOREM AckedStaysStored == Spec => []AckedIsStored
<1>1. IInv => AckedIsStored
  BY DEF IInv, UploadOK, Kept, Alive, Has, AckedIsStored
<1> QED BY <1>1, AlwaysOK, PTL
=============================================================================
