------------------------------- MODULE MCAuth -------------------------------
(* One request at a time beside one stream, two identities; the cache lives   *)
(* for two ticks, the resolver takes up to one, the stream pings every tick.  *)
EXTENDS Auth
=============================================================================
