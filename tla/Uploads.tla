------------------------------- MODULE Uploads -------------------------------
(***************************************************************************)
(* An attachment from the sender's upload to the message it belongs to, or *)
(* to its end: attachment_http.cpp, the attachment rows of db.cpp and the  *)
(* handlers and the retention sweep of the community server's main.cpp,    *)
(* against uploadAttachment.ts and handleSend of the Electron client.      *)
(*                                                                         *)
(* Row and files do not change together.  The server runs one handler at a *)
(* time; `doing` is a handler between its first and its second change, and *)
(* the process may die there, as anywhere else.  The clock is two marks of *)
(* an upload: an hour without progress, and a day since it was reserved.   *)
(*                                                                         *)
(* A file is the set of the blocks written to it.  A writer is a PATCH     *)
(* whose body is being read; what it was given may still be in its buffer  *)
(* (`put` blocks of `got` are in the file), and its open file stays the    *)
(* same when it is renamed or removed.  A request whose sender has given   *)
(* it up (`heard` is FALSE) is carried on with all the same.               *)
(*                                                                         *)
(* Left out: thumbnails, downloads and HEAD, sealing, the limits and the   *)
(* permissions checked by init, a power failure (files that were written   *)
(* but never reached the disk), and a transaction that stays open because  *)
(* its COMMIT failed.  Unlinking a file is taken to succeed.               *)
(***************************************************************************)
EXTENDS Naturals

CONSTANTS
  Uploads,     \* attachment ids
  Size,        \* blocks of a file
  Chunk,       \* blocks of a PATCH
  MaxRetry,    \* how often the client repeats a PATCH
  MaxFaults,   \* bound: crashes, lost connections, failed statements and writes
  Absent       \* no file

ASSUME UploadsAssumption ==
  /\ {Size, Chunk} \subseteq Nat \ {0} /\ {MaxRetry, MaxFaults} \subseteq Nat
  /\ \A s \in SUBSET (0 .. Size - 1) : s # Absent

VARIABLES
  row,      \* upload -> its row; "removed" and "swept" say why there is none
  part,     \* upload -> its .partial file
  file,     \* upload -> its final file
  idle,     \* the uploads without a PATCH for an hour
  old,      \* the uploads reserved a day ago
  writers,  \* upload -> PATCH handlers that read their body
  asks,     \* upload -> requests on their way to the server
  reply,    \* upload -> the answer on its way back
  client,   \* upload -> where startQueuedUpload() is
  doing,    \* the handler that is between two changes
  torn,     \* the uploads a sweep or a removal has left, or may leave, half done
  faults    \* how much has gone wrong

vars == <<row, part, file, idle, old, writers, asks, reply, client, doing, torn, faults>>
clock == <<idle, old>>
disk == <<part, file>>

Block == 0 .. Size - 1
Nothing == [op |-> "none", on |-> Absent]
Ask(op, from) == [op |-> op, from |-> from, heard |-> TRUE]

Init ==
  /\ row = [u \in Uploads |-> "none"]
  /\ part = [u \in Uploads |-> Absent] /\ file = [u \in Uploads |-> Absent]
  /\ idle = {} /\ old = {} /\ torn = {} /\ faults = 0
  /\ writers = [u \in Uploads |-> {}] /\ asks = [u \in Uploads |-> {}]
  /\ reply = [u \in Uploads |-> "none"]
  /\ client = [u \in Uploads |-> [at |-> "queued", offset |-> 0, tries |-> 0]]
  /\ doing = Nothing

Fault == faults < MaxFaults /\ faults' = faults + 1

-----------------------------------------------------------------------------
(* The client: startQueuedUpload() and handleSend().                       *)

UpTo(offset) == IF offset + Chunk > Size THEN Size ELSE offset + Chunk
Goes(u, at) == client' = [client EXCEPT ![u].at = at]
Requests(u, op, from) ==
  Goes(u, op) /\ asks' = [asks EXCEPT ![u] = @ \cup {Ask(op, from)}]

Starts(u) ==
  /\ client[u].at = "queued" /\ Requests(u, "init", 0)
  /\ UNCHANGED <<row, disk, clock, writers, reply, doing, torn, faults>>

SendsChunk(u) ==
  /\ client[u].at = "next" /\ client[u].offset < Size
  /\ Requests(u, "patch", client[u].offset)
  /\ UNCHANGED <<row, disk, clock, writers, reply, doing, torn, faults>>

Completes(u) ==
  /\ client[u].at = "next" /\ client[u].offset = Size /\ Requests(u, "complete", 0)
  /\ UNCHANGED <<row, disk, clock, writers, reply, doing, torn, faults>>

(* The user cancels; the loop looks before every chunk.                    *)
Cancels(u) ==
  /\ client[u].at = "next" /\ client[u].offset < Size /\ Goes(u, "failed")
  /\ UNCHANGED <<row, disk, clock, writers, asks, reply, doing, torn, faults>>

(* A PATCH is repeated with the offset it had, nothing else is repeated.   *)
Rejected(u) ==
  IF client[u].at = "patch" /\ client[u].tries < MaxRetry
    THEN client' = [client EXCEPT ![u] =
           [at |-> "next", offset |-> client[u].offset, tries |-> client[u].tries + 1]]
    ELSE Goes(u, "failed")

Accepted(u) ==
  client' = [client EXCEPT ![u] =
    CASE @.at = "patch" -> [at |-> "next", offset |-> UpTo(@.offset), tries |-> 0]
      [] @.at = "complete" -> [@ EXCEPT !.at = "ready"]
      [] OTHER -> [@ EXCEPT !.at = "next"]]

OnReply(u) ==
  /\ reply[u] # "none" /\ reply' = [reply EXCEPT ![u] = "none"]
  /\ CASE reply[u] = "ok" -> Accepted(u)
       [] reply[u] = "gone" -> Goes(u, "failed")
       [] OTHER -> Rejected(u)
  /\ UNCHANGED <<row, disk, clock, writers, asks, doing, torn, faults>>

(* The connection of a request is gone, with the answer if there was one:  *)
(* it has failed, or the server was restarted.                             *)
Awaits(u) == client[u].at \in {"init", "patch", "complete"}
Unheard(s) == {[x EXCEPT !.heard = FALSE] : x \in s}
Answerable(u) ==
  reply[u] # "none" \/ \E x \in asks[u] \cup writers[u] : x.heard

Disconnects(u) ==
  /\ Awaits(u) /\ Rejected(u)
  /\ IF Answerable(u) THEN Fault ELSE UNCHANGED faults
  /\ reply' = [reply EXCEPT ![u] = "none"]
  /\ asks' = [asks EXCEPT ![u] = Unheard(@)]
  /\ writers' = [writers EXCEPT ![u] = Unheard(@)]
  /\ UNCHANGED <<row, disk, clock, doing, torn>>

(* The message arrives: bind_attachments() takes what is ready.            *)
Sends(u) ==
  /\ doing = Nothing /\ client[u].at = "ready" /\ Goes(u, "sent")
  /\ row' = [row EXCEPT ![u] = IF @ = "ready" THEN "bound" ELSE @]
  /\ UNCHANGED <<disk, clock, writers, asks, reply, doing, torn, faults>>

-----------------------------------------------------------------------------
(* The server's requests.                                                  *)

Answers(u, x, what) == reply' = IF x.heard THEN [reply EXCEPT ![u] = what] ELSE reply
Took(u, a) == asks' = [asks EXCEPT ![u] = @ \ {a}]
NoRow(u) == row[u] \in {"none", "removed", "swept"}
Live == {"uploading", "ready", "bound"}

Content(f) == IF f = Absent THEN {} ELSE f
(* The length of a file is n.                                              *)
EndsAt(f, n) == (\A b \in Content(f) : b < n) /\ (n > 0 => n - 1 \in Content(f))

(* do_init_with_body(): the row, then the empty file.                      *)
InitBegins(u, a) ==
  /\ doing = Nothing /\ a \in asks[u] /\ a.op = "init" /\ row[u] = "none"
  /\ row' = [row EXCEPT ![u] = "uploading"] /\ doing' = [op |-> "init", on |-> u]
  /\ UNCHANGED <<disk, clock, writers, asks, reply, client, torn, faults>>

InitEnds(u, a) ==
  /\ doing = [op |-> "init", on |-> u] /\ a \in asks[u] /\ a.op = "init"
  /\ doing' = Nothing /\ Took(u, a)
  /\ \/ part' = [part EXCEPT ![u] = {}] /\ Answers(u, a, "ok") /\ UNCHANGED faults
     \/ Fault /\ Answers(u, a, "error") /\ UNCHANGED part
  /\ UNCHANGED <<row, file, clock, writers, client, torn>>

(* What handle_patch() and handle_complete() refuse.                       *)
Refused(u, a) ==
  \/ row[u] # "uploading"
  \/ a.op = "patch" /\ ~EndsAt(part[u], a.from)
  \/ a.op = "complete" /\ (part[u] = Absent \/ ~EndsAt(part[u], Size))

Refuses(u, a) ==
  /\ doing = Nothing /\ a \in asks[u] /\ a.op # "init" /\ Refused(u, a)
  /\ Took(u, a) /\ Answers(u, a, IF NoRow(u) THEN "gone" ELSE "error")
  /\ UNCHANGED <<row, disk, clock, writers, client, doing, torn, faults>>

HandlePatch(u, a) ==
  /\ doing = Nothing /\ a \in asks[u] /\ a.op = "patch" /\ ~Refused(u, a) /\ Took(u, a)
  /\ writers' = [writers EXCEPT ![u] = @ \cup
       {[got |-> a.from, put |-> a.from, to |-> UpTo(a.from), onto |-> "part", heard |-> a.heard]}]
  /\ part' = [part EXCEPT ![u] = Content(@)]
  /\ UNCHANGED <<row, file, clock, reply, client, doing, torn, faults>>

(* Writer w has its blocks up to n in the file it has open.                *)
Puts(u, w, n) ==
  /\ part' = IF w.onto = "part" THEN [part EXCEPT ![u] = @ \cup (w.put .. n - 1)] ELSE part
  /\ file' = IF w.onto = "file" THEN [file EXCEPT ![u] = @ \cup (w.put .. n - 1)] ELSE file

(* read_patch_chunk(): one more block, of which the buffer may keep some.  *)
Receives(u, w) ==
  /\ doing = Nothing /\ w \in writers[u] /\ w.got < w.to
  /\ \E n \in w.put .. w.got + 1 :
       /\ Puts(u, w, n)
       /\ writers' = [writers EXCEPT ![u] = (@ \ {w}) \cup {[w EXCEPT !.got = w.got + 1, !.put = n]}]
  /\ UNCHANGED <<row, clock, asks, reply, client, doing, torn, faults>>

(* A mutant: a failed flush is taken for a good one.                       *)
AcksUnflushed(u, w) ==
  /\ doing = Nothing /\ w \in writers[u] /\ w.got = w.to
  /\ writers' = [writers EXCEPT ![u] = @ \ {w}]
  /\ idle' = idle \ {u} /\ Answers(u, w, "ok")
  /\ \/ Puts(u, w, w.to) /\ UNCHANGED faults
     \/ Fault /\ UNCHANGED disk
  /\ UNCHANGED <<row, old, asks, client, doing, torn>>

(* finish_patch().                                                         *)
FinishPatch(u, w) ==
  /\ doing = Nothing /\ w \in writers[u] /\ w.got = w.to
  /\ writers' = [writers EXCEPT ![u] = @ \ {w}]
  /\ \/ Puts(u, w, w.to) /\ idle' = idle \ {u} /\ Answers(u, w, "ok") /\ UNCHANGED faults
     \/ Fault /\ Answers(u, w, "error") /\ UNCHANGED <<disk, idle>>
  /\ UNCHANGED <<row, old, asks, client, doing, torn>>

(* The rest of the body never comes (close_now), or cannot be written.     *)
WriterDies(u, w) ==
  /\ doing = Nothing /\ w \in writers[u]
  /\ \/ ~w.heard /\ UNCHANGED <<reply, faults>>
     \/ w.got < w.to /\ Fault /\ Answers(u, w, "error")
  /\ writers' = [writers EXCEPT ![u] = @ \ {w}] /\ Puts(u, w, w.got)
  /\ UNCHANGED <<row, clock, asks, client, doing, torn>>

(* The open files of u follow their file.                                  *)
Follow(u, files, onto) ==
  writers' = [writers EXCEPT ![u] =
    {[w EXCEPT !.onto = IF @ \in files THEN onto ELSE @] : w \in writers[u]}]

(* handle_complete(): the file gets its name, then the row is ready.       *)
CompleteBegins(u, a) ==
  /\ doing = Nothing /\ a \in asks[u] /\ a.op = "complete" /\ ~Refused(u, a)
  /\ file' = [file EXCEPT ![u] = part[u]] /\ part' = [part EXCEPT ![u] = Absent]
  /\ Follow(u, {"part"}, "file") /\ doing' = [op |-> "complete", on |-> u]
  /\ UNCHANGED <<row, clock, asks, reply, client, torn, faults>>

CompleteEnds(u, a) ==
  /\ doing = [op |-> "complete", on |-> u] /\ a \in asks[u] /\ a.op = "complete"
  /\ doing' = Nothing /\ Took(u, a)
  /\ \/ /\ row[u] = "uploading" /\ row' = [row EXCEPT ![u] = "ready"] /\ Answers(u, a, "ok")
        /\ UNCHANGED <<disk, writers, faults>>
     \/ /\ Fault /\ Answers(u, a, "error")
        /\ part' = [part EXCEPT ![u] = file[u]] /\ file' = [file EXCEPT ![u] = Absent]
        /\ Follow(u, {"file"}, "part") /\ UNCHANGED row
  /\ UNCHANGED <<clock, client, torn>>

-----------------------------------------------------------------------------
(* The end of an upload.                                                   *)

Unlinks(u, files) ==
  /\ part' = IF "part" \in files THEN [part EXCEPT ![u] = Absent] ELSE part
  /\ file' = IF "file" \in files THEN [file EXCEPT ![u] = Absent] ELSE file
  /\ Follow(u, files, "gone")

Stale(u) == (row[u] = "uploading" /\ u \in idle) \/ (row[u] = "ready" /\ u \in old)

(* A mutant: only what an upload is expected to have is removed.           *)
SweepsPartOnly(u) ==
  /\ doing = Nothing /\ Stale(u) /\ Unlinks(u, {"part"})
  /\ doing' = [op |-> "sweep", on |-> u]
  /\ UNCHANGED <<row, clock, asks, reply, client, torn, faults>>

(* run_retention_sweep(): an abandoned upload loses its files, then its row.*)
SweepBegins(u) ==
  /\ doing = Nothing /\ Stale(u) /\ Unlinks(u, {"part", "file"})
  /\ doing' = [op |-> "sweep", on |-> u]
  /\ UNCHANGED <<row, clock, asks, reply, client, torn, faults>>

SweepEnds(u) ==
  /\ doing = [op |-> "sweep", on |-> u] /\ doing' = Nothing
  /\ \/ row' = [row EXCEPT ![u] = "swept"] /\ UNCHANGED <<torn, faults>>
     \/ Fault /\ torn' = torn \cup {u} /\ UNCHANGED row
  /\ UNCHANGED <<disk, clock, writers, asks, reply, client>>

(* The row goes, or is a tombstone, and then the files.                    *)
Removed(u) == row' = [row EXCEPT ![u] = "removed"]

(* What fails is not noticed: the row stays, the files go all the same.    *)
RemovedOrNot(u) ==
  \/ Removed(u) /\ UNCHANGED <<torn, faults>>
  \/ Fault /\ torn' = torn \cup {u} /\ UNCHANGED row

(* The DELETE of an upload: what fails removes nothing.                    *)
Aborts(u) == row[u] = "uploading" /\ Removed(u) /\ UNCHANGED <<torn, faults>>

(* delete_message(): what fails removes nothing.                           *)
MessageGoes(u) == row[u] = "bound" /\ Removed(u) /\ UNCHANGED <<torn, faults>>

(* wipe_channel() returns its paths when the transaction does not begin,   *)
(* delete_channel() when it is not committed.                              *)
ChannelGoes(u) == row[u] \in Live /\ RemovedOrNot(u)

(* prune_text_messages(), and the messages of who is banned: a DELETE or a *)
(* COMMIT that fails is not noticed.                                       *)
Prunes(u) == row[u] = "bound" /\ RemovedOrNot(u)

(* A mutant: what could not be marked as purged is unlinked all the same.  *)
PurgesAnyway(u) ==
  /\ row[u] = "bound" /\ UNCHANGED torn
  /\ \/ row' = [row EXCEPT ![u] = "purged"] /\ UNCHANGED faults
     \/ Fault /\ UNCHANGED row

(* prune_attachments(): a tombstone has no path, and what removes it later *)
(* no files.                                                               *)
Purges(u) ==
  row[u] = "bound" /\ row' = [row EXCEPT ![u] = "purged"] /\ UNCHANGED <<torn, faults>>

Removals == {"abort", "remove", "prune", "purge"}

RowGoes(u, op) ==
  /\ doing = Nothing /\ doing' = [op |-> op, on |-> u]
  /\ \/ op = "abort" /\ Aborts(u)
     \/ op = "remove" /\ (MessageGoes(u) \/ ChannelGoes(u))
     \/ op = "prune" /\ Prunes(u)
     \/ op = "purge" /\ Purges(u)
  /\ UNCHANGED <<disk, clock, writers, asks, reply, client>>

(* Without the paths, if their query fails, a pruned row leaves its file.  *)
FilesGo(u, op) ==
  /\ doing = [op |-> op, on |-> u] /\ doing' = Nothing
  /\ \/ op = "abort" /\ Unlinks(u, {"part"}) /\ UNCHANGED faults
     \/ op = "remove" /\ Unlinks(u, {"part", "file"}) /\ UNCHANGED faults
     \/ op \in {"prune", "purge"} /\ Unlinks(u, {"file"}) /\ UNCHANGED faults
     \/ op = "prune" /\ Unlinks(u, {}) /\ Fault
  /\ UNCHANGED <<row, clock, asks, reply, client, torn>>

(* The process dies and is started again.  Buffers and connections go, row *)
(* and files stay as they are.                                             *)
Crash ==
  /\ Fault /\ doing' = Nothing
  /\ writers' = [u \in Uploads |-> {}] /\ asks' = [u \in Uploads |-> {}]
  /\ torn' = IF doing.op \in Removals \cup {"sweep"} THEN torn \cup {doing.on} ELSE torn
  /\ UNCHANGED <<row, disk, clock, reply, client>>

HourPasses(u) ==
  /\ row[u] = "uploading" /\ u \notin idle /\ idle' = idle \cup {u}
  /\ UNCHANGED <<row, disk, old, writers, asks, reply, client, doing, torn, faults>>

DayPasses(u) ==
  /\ row[u] \in Live /\ u \notin old /\ old' = old \cup {u}
  /\ UNCHANGED <<row, disk, idle, writers, asks, reply, client, doing, torn, faults>>

-----------------------------------------------------------------------------
Uploader(u) ==
  \/ Starts(u) \/ SendsChunk(u) \/ Completes(u) \/ Cancels(u) \/ OnReply(u)
  \/ Disconnects(u) \/ Sends(u)
Handlers(u) ==
  \/ \E a \in asks[u] : InitBegins(u, a) \/ Refuses(u, a) \/ HandlePatch(u, a) \/ CompleteBegins(u, a)
  \/ \E w \in writers[u] : Receives(u, w) \/ FinishPatch(u, w) \/ WriterDies(u, w)
  \/ \E op \in Removals : RowGoes(u, op)
Timers(u) == HourPasses(u) \/ DayPasses(u) \/ SweepBegins(u)
Ends(u) ==
  \/ \E a \in asks[u] : InitEnds(u, a) \/ CompleteEnds(u, a)
  \/ \E op \in Removals : FilesGo(u, op)
  \/ SweepEnds(u)

Next == Crash \/ \E u \in Uploads : Uploader(u) \/ Handlers(u) \/ Timers(u) \/ Ends(u)

Spec == Init /\ [][Next]_vars

(* A handler that has begun ends, time passes and the sweep's timer fires; *)
(* no client and no request is assumed to get anywhere.                    *)
FairSpec == Spec /\ WF_vars(\E u \in Uploads : Timers(u) \/ Ends(u))

-----------------------------------------------------------------------------
Held(u) == IF part[u] = Absent THEN Content(file[u]) ELSE part[u]
Sweeping(u) == doing = [op |-> "sweep", on |-> u] \/ u \in torn

(* What the server says is ready is all there, from the moment the row says*)
(* so until it goes: whatever writers and requests of the same upload are  *)
(* still under way, wherever the process died, whatever failed.  Exempt is *)
(* what is `torn`: a sweep that died between file and row, and a row whose *)
(* removal failed unnoticed, where the code does lose the file of a row    *)
(* that stays: prune_text_messages(), delete_messages_by_sender_since(),   *)
(* wipe_channel() and delete_channel().                                    *)
ReadyIsWhole ==
  \A u \in Uploads : row[u] \in {"ready", "bound"} /\ ~Sweeping(u) => file[u] = Block

(* What the client has been told is stored is on the disk as long as the   *)
(* upload has its row: in one of the two files, across crashes, writers    *)
(* that were cut off, and completions that failed half-way (finish_patch). *)
AckedIsStored ==
  \A u \in Uploads :
    row[u] = "uploading" /\ ~Sweeping(u) /\ client[u].at \in {"next", "patch", "complete"}
      => \A b \in Block : b < client[u].offset => b \in Held(u)

(* An upload no message has taken does not stay: in the end it is bound, or*)
(* somebody removes it, or the sweep does and leaves no file behind, even  *)
(* where a process died between the rename and the row (handle_complete).  *)
AbandonedGoes ==
  \A u \in Uploads :
    row[u] \in {"uploading", "ready"}
      ~> \/ row[u] \in {"bound", "purged", "removed"}
         \/ row[u] = "swept" /\ part[u] = Absent /\ file[u] = Absent
=============================================================================
