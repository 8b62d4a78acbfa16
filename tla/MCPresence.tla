----------------------------- MODULE MCPresence -----------------------------
(* Two streams (an old one and its successor), one reaper; a ping every tick, *)
(* presence for three, retention for four.                                    *)
EXTENDS Presence
=============================================================================
