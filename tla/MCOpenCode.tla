----------------------------- MODULE MCOpenCode -----------------------------
(* One plugin, two requests in flight, two messages fetched one at a time,    *)
(* one fault.                                                                 *)
EXTENDS OpenCode, TLC

RequestSymmetry == Permutations(Fetchers)

\* Messages that something may still be read from, waited for or woken for.
InPlay == inbox \cup UNION {page[f] : f \in Fetchers}
                \cup Elements(queue) \cup Elements(pendingWakes)

(* States that agree in what follows have the same future: a fetch uses the   *)
(* cursor it has read for its XRANGE only, a drain its flags only until the   *)
(* next one sets them, no step looks at a history, and of each history only a *)
(* part can still decide a property.                                          *)

RequestsMatter ==
    <<pc, page, requestVars, [f \in Fetchers |-> IF pc[f] = "range" THEN start[f] ELSE 0]>>

Loops == relaying /\ ~disposed

DrainMatters ==
    <<drain, relay, queue, pendingWakes, seen \cap InPlay,
      Loops /\ again, Loops /\ drain \in {"next", "wake"} /\ full>>

HistoryMatters ==
    <<acked \cap inbox, overlap, woken, lateFail,
      drained \ (woken \cup toolShown \cup spilled),
      InPlay \cap ((lost \cup spilled) \ (seen \cup expired)),
      IF overlap THEN {} ELSE toolShown,
      IF lateFail THEN {} ELSE twice,
      IF Loops THEN due \cap Unread ELSE {},
      Loops /\ (drain = "fetch" => mine # NoRequest) /\ short,
      relaying \/ TriggersHonoured>>

StillMatters ==
    <<inbox, lastId, cursor, expired \cap InPlay, sessionID, disposed, streamVars, faults,
      RequestsMatter, DrainMatters, HistoryMatters>>
=============================================================================
