---------------------------- MODULE HistoryMerge ----------------------------
(***************************************************************************)
(* lib/historyMerge.ts of the desktop client: how a page of stored rows is *)
(* merged into the slice of a channel the client holds.  The code keeps a  *)
(* slice as an array of stored rows by ascending id; ids are unique there, *)
(* so a slice, and a page, is the set of its rows' ids.                    *)
(*                                                                         *)
(* What a row says (its text, its edits) is abstracted; the bubbles of     *)
(* unconfirmed sends, which have no id, are kept by ChannelHistory.        *)
(***************************************************************************)
EXTENDS Naturals

(* newestStoredId(): 0 for a slice with no stored row. *)
Newest(rows) ==
  IF rows = {} THEN 0 ELSE CHOOSE r \in rows : \A x \in rows : x <= r

Oldest(rows) ==
  IF rows = {} THEN 0 ELSE CHOOSE r \in rows : \A x \in rows : r <= x

(* refresh(): inside [lo, hi] the page decides, outside it the slice. *)
Refresh(rows, new, lo, hi) == {r \in rows : r < lo \/ r > hi} \cup new

(* What a merge returns: the slice, whether the page connected to it,      *)
(* whether its head moved down, whether it reached the present.            *)
Merged(rows, applied, headExtended, reachedNewest) ==
  [rows |-> rows, applied |-> applied, headExtended |-> headExtended,
   reachedNewest |-> reachedNewest]

(* mergeStoredPage() with afterId > 0: the rows above `after`. *)
MergeNewer(rows, page, after) ==
  LET new == {r \in page : r >= Oldest(rows)}
      lo == IF after + 1 > Oldest(rows) THEN after + 1 ELSE Oldest(rows)
  IN IF rows = {} \/ after > Newest(rows)
       THEN Merged(rows, FALSE, FALSE, FALSE)
     ELSE IF new = {} THEN Merged(rows, TRUE, FALSE, FALSE)
     ELSE Merged(Refresh(rows, new, lo, Newest(new)), TRUE, FALSE, FALSE)

(* A mutant: a page above a gap is merged instead of replacing the slice.  *)
MergeOlderOverGap(rows, page, latest) ==
  IF page = {} THEN Merged(rows, TRUE, TRUE, rows = {})
  ELSE Merged(rows \cup page, TRUE, Oldest(page) < Oldest(rows),
              latest \/ Newest(page) >= Newest(rows))

(* mergeStoredPage() with afterId = 0: the channel's newest page           *)
(* (`latest`: it answers for every row from its oldest up) or an older one.*)
MergeOlder(rows, page, latest) ==
  IF page = {}
    THEN IF latest THEN Merged({}, TRUE, TRUE, TRUE)
                   ELSE Merged(rows, TRUE, TRUE, rows = {})
  ELSE IF rows = {} \/ Oldest(page) > Newest(rows)
    THEN Merged(page, TRUE, TRUE, TRUE)
  ELSE Merged(Refresh(rows, page, Oldest(page),
                      IF latest THEN Newest(rows \cup page) ELSE Newest(page)),
              TRUE, Oldest(page) < Oldest(rows),
              latest \/ Newest(page) >= Newest(rows))

(* applyHeldRows(): the live rows that waited go in above the newest.      *)
ApplyHeld(rows, held) == rows \cup {h \in held : h > Newest(rows)}

(* The rows of `log` between two rows of the slice that it does not show.  *)
Hidden(rows, log) ==
  {r \in log \ rows : (\E a \in rows : a < r) /\ (\E b \in rows : r < b)}
=============================================================================
