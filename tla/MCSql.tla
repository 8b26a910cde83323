---------------------------------- MODULE MCSql ----------------------------------
(* SqlEngine with two channels. *)
EXTENDS SqlEngine

\* Configured twice: the second time channel 1 has lost its feed id, and
\* channel 2 has the one channel 1 had.
MCFeedId == <<<<1, 2>>, <<0, 1>>>>

\* Channel 2 takes over the input of channel 1, which is left without one.
MCInputId == <<<<1, 2>>, <<0, 1>>>>

\* Configured once: channel 1 leaves the optional feed id out.
WithoutFeedId == <<<<0, 1>>>>
OnceInputId == <<<<1, 0>>>>
================================================================================
