------------------------------ MODULE EventFeed ------------------------------
(***************************************************************************)
(* What the history of a job promises to a client that polls it: the       *)
(* history grows one event at a time and at its end, and only its last     *)
(* event, when the writer was never told that it is written, may be lost   *)
(* again.  The client shows the history by position: at each place what    *)
(* the history had there when it asked, with nothing repeated, reordered   *)
(* or, but for an event that took the place of a lost one, skipped.        *)
(***************************************************************************)
EXTENDS Naturals, Sequences

CONSTANT Events

VARIABLES
  history,  \* what the history endpoint answers without `since`
  unsure,   \* its last event was not acknowledged to the one who wrote it
  shown     \* what the client has printed

feedVars == <<history, unsure, shown>>

Empty == history = <<>> /\ unsure = FALSE /\ shown = <<>>

Tell ==
  /\ ~unsure
  /\ \E e \in Events : history' = Append(history, e)
  /\ unsure' \in BOOLEAN
  /\ UNCHANGED shown

Lose ==
  /\ unsure /\ history # <<>>
  /\ history' = SubSeq(history, 1, Len(history) - 1)
  /\ unsure' = FALSE
  /\ UNCHANGED shown

Show ==
  /\ \E m \in Len(shown)..Len(history) : shown' = shown \o SubSeq(history, Len(shown) + 1, m)
  /\ UNCHANGED <<history, unsure>>

Feed == Empty /\ [][Tell \/ Lose \/ Show]_feedVars
=============================================================================
