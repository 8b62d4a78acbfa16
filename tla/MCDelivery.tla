----------------------------- MODULE MCDelivery -----------------------------
(* One chat and one fetch at a time, two messages, an unread check that looks *)
(* at fewer entries than the stream may hold.                                 *)
EXTENDS Delivery
=============================================================================
