------------------------- MODULE MCVoiceDirectory -------------------------
(* VoiceDirectory for TLC. *)
EXTENDS VoiceDirectory, TLC

CONSTANTS s1, s2, s3, streamer, viewer, first, second, lobby, stage1

TwoUsers == (first :> streamer) @@ (second :> viewer)

\* The viewer gets into the stage channel by a voice pass only.
Rights == (streamer :> {lobby, stage1}) @@ (viewer :> {lobby})

Interchangeable == Permutations(Sessions)
=============================================================================
