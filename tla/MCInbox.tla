------------------------------ MODULE MCInbox ------------------------------
(* Two fetches of one agent in flight, up to three messages, an inbox that may *)
(* be trimmed down to two.                                                    *)
EXTENDS Inbox, TLC

FetcherSymmetry == Permutations(Fetchers)
=============================================================================
