--------------------------- MODULE MCSlackCapture ---------------------------
(* An instance of SlackCapture for TLC: a post, and in its thread a mark,   *)
(* with words of its own or without, whose message event is passed over.    *)
EXTENDS SlackCapture

CONSTANTS root, mark

ThreadOf == [p \in Posts |-> IF p = mark THEN root ELSE None]
=============================================================================
