-------------------------------- MODULE Wire --------------------------------
(* What travels between an agent's client and the bus: the agent header the   *)
(* client derives from its machine, and the server-sent events of one stream, *)
(* over connections that may end anywhere, in the middle of a line too.  The  *)
(* client is the Claude shim (httpbus.parse_sse, muster_channel.relay) or the *)
(* OpenCode plugin (its own parser and relay).                                *)
EXTENDS Integers, Sequences, FiniteSets, SequencesExt

CONSTANTS Environments,  \* what a client may find on the machine it starts on
          Cap,           \* the longest wait between two attempts
          MaxFrames,     \* bound: frames the server sends on one connection
          MaxSleeps      \* bound: the histories of waits stop counting here

\* Characters of a name, by what the address makes of them: "x" stands for any
\* printable one, " " for white space, "w" for the rest outside ASCII.
Chars == {"x", "/", " ", "w"}
Name == Seq(Chars)
Path == Seq(Name)

\* Powers of two: what a wait grows to when nothing is read.
Doubled[n \in 0..MaxSleeps] == IF n = 0 THEN 1 ELSE 2 * Doubled[n - 1]

ASSUME WireAssumption ==
    /\ Environments \subseteq [override : Name, hostname : Name, common : Path,
                               gitdir : Path, toplevel : Path, cwd : Path]
    /\ Cap \in Nat \ {0}
    /\ MaxFrames \in Nat
    /\ MaxSleeps \in Nat
    /\ Doubled[MaxSleeps] >= Cap

VARIABLES
    runtime,  \* "claude" or "opencode": which client this is
    agent,    \* the x-muster-agent header, as characters
    sendable, \* the x-muster-meta header of the stream's request can be encoded
    pc,       \* the client: "connecting", "streaming" or "waiting" to reconnect
    serving,  \* the server's generator is running on this connection
    wire,     \* lines on their way to the client
    cut,      \* the connection ended before all that was sent had arrived
    parser,   \* the reader's state: event name and data lines so far
    backoff,  \* the wait the client takes next
    sent,     \* history: frames sent on this connection
    got,      \* history: events the reader passed on, on this connection
    barren,   \* history: waits since anything was read
    idle      \* history: waits since a whole frame was read

connection == <<serving, wire, cut, parser, sent, got>>
history == <<barren, idle>>
vars == <<runtime, agent, sendable, pc, connection, backoff, history>>

-----------------------------------------------------------------------------
(* The address.                                                               *)

\* The elements of s at the positions S, in order: of the first n, and of all.
Picked(s, S) ==
    LET upto[n \in 0..Len(s)] == IF n = 0 THEN <<>>
                           ELSE IF n \in S THEN Append(upto[n - 1], s[n])
                           ELSE upto[n - 1]
    IN  upto

At(s, S) == Picked(s, S)[Len(s)]

IsOutside(c) == c \in {" ", "w"}

strip(s) ==
    LET solid == {i \in DOMAIN s : s[i] # " "}
    IN  {i \in DOMAIN s : \E j, k \in solid : j <= i /\ i <= k}

dash(c) == IF c = "/" \/ IsOutside(c) THEN "-" ELSE c

\* Mutant: no placeholder for a name of which nothing is left.
segNoFallback(s) ==
    At([i \in DOMAIN s |-> dash(s[i])],
       {i \in strip(s) : IsOutside(s[i]) /\ i - 1 \in strip(s) => ~IsOutside(s[i - 1])})

\* A run of characters outside ASCII, and every slash, becomes one dash.
dashed(s) ==
    At([i \in DOMAIN s |-> dash(s[i])],
       {i \in strip(s) : IsOutside(s[i]) /\ i - 1 \in strip(s) => ~IsOutside(s[i - 1])})

seg(s) == IF dashed(s) = <<>> THEN <<"-">> ELSE dashed(s)

basename(path) == IF path = <<>> THEN <<>> ELSE Last(path)

\* Outside a repository git fails and both paths are unset.
git_identity(e) ==
    IF e.common = <<>> THEN [repo |-> <<>>, worktree |-> <<>>]
    ELSE [repo |-> basename(Front(e.common)),
          worktree |-> IF e.gitdir = e.common THEN <<>> ELSE basename(e.gitdir)]

derive_project(e) ==
    LET id == git_identity(e)
    IN  CASE id.repo # <<>> /\ id.worktree # <<>> -> id.repo \o <<"~">> \o id.worktree
          [] id.repo # <<>> /\ id.worktree = <<>> -> id.repo
          [] OTHER -> basename(e.cwd)

\* The plugin names the directory of the worktree itself.
pluginProject(e) ==
    IF e.common # <<>> /\ basename(e.toplevel) # <<>>
    THEN basename(e.toplevel) ELSE basename(e.cwd)

derive_address(r, e) ==
    LET host == IF e.override # <<>> THEN e.override ELSE e.hostname
        project == IF r = "claude" THEN derive_project(e) ELSE pluginProject(e)
    IN  seg(host) \o <<"/", "x", "/">> \o seg(project) \o <<"/">> \o seg(<<"x">>)

\* Four parts between the slashes, none of them empty.
parse_agent_header(h) ==
    LET slashes == {i \in DOMAIN h : h[i] = "/"}
    IN  /\ Cardinality(slashes) = 3
        /\ slashes \cap {1, Len(h)} = {}
        /\ \A i \in slashes : i + 1 \notin slashes

\* The shim escapes what is outside ASCII.  The plugin sends its directory and
\* branch as they are called, and fetch refuses what is beyond Latin-1.
MetaEncodes(r) == IF r = "claude" THEN {TRUE} ELSE BOOLEAN

encodes(h) == \A i \in DOMAIN h : ~IsOutside(h[i])

-----------------------------------------------------------------------------
(* Frames and lines.  A payload is the number of its frame.                   *)

Line(kind, name, number) == [kind |-> kind, name |-> name, number |-> number]

_sse(event, payload) ==
    <<Line("event", event, 0), Line("data", "", payload), Line("blank", "", 0)>>

Ping == <<Line("comment", "", 0), Line("blank", "", 0)>>

\* Half a line: its field may be there, its value is not.
Torn(line) == Line(line.kind, "torn", 0)

Fresh == [event |-> "", data |-> <<>>]

Event(name, payload) == [event |-> name, payload |-> payload]

\* Several data lines, or half of one, are no JSON: an empty payload.
Payload(data) == IF Len(data) = 1 THEN data[1] ELSE 0

Dispatched(p) ==
    IF p.event # "" /\ p.data # <<>> THEN <<Event(p.event, Payload(p.data))>>
    ELSE <<>>

\* What one line does to the reader's state, and what it passes on.
Parsed(p, line) ==
    CASE line.kind = "event" -> [p EXCEPT !.event = line.name]
      [] line.kind = "data" -> [p EXCEPT !.data = Append(@, line.number)]
      [] line.kind = "blank" -> Fresh
      [] OTHER -> p

Yields(p, line) ==
    CASE line.kind = "blank" -> Dispatched(p)
      [] line.kind = "comment" /\ runtime = "claude" -> <<Event("_ping", 0)>>
      [] OTHER -> <<>>

-----------------------------------------------------------------------------
Init ==
    /\ runtime \in {"claude", "opencode"}
    /\ \E e \in Environments : agent = derive_address(runtime, e)
    /\ sendable \in MetaEncodes(runtime)
    /\ pc = "connecting"
    /\ serving = FALSE /\ wire = <<>> /\ cut = FALSE
    /\ parser = Fresh
    /\ backoff = 1
    /\ sent = <<>> /\ got = <<>>
    /\ barren = 0 /\ idle = 0

\* Mutant: the reader is made once and not anew for every connection.
ConnectKeepsParser ==
    /\ pc = "connecting"
    /\ encodes(agent) /\ sendable
    /\ parse_agent_header(agent)
    /\ pc' = "streaming"
    /\ serving' = TRUE
    /\ wire' = <<>> /\ cut' = FALSE
    /\ sent' = <<>> /\ got' = <<>>
    /\ UNCHANGED <<runtime, agent, sendable, parser, backoff, history>>

Connect ==
    /\ pc = "connecting"
    /\ encodes(agent) /\ sendable
    /\ parse_agent_header(agent)
    /\ pc' = "streaming"
    /\ serving' = TRUE
    /\ wire' = <<>> /\ cut' = FALSE
    /\ parser' = Fresh
    /\ sent' = <<>> /\ got' = <<>>
    /\ UNCHANGED <<runtime, agent, sendable, backoff, history>>

\* No network, a status of 400 or more, or a header nobody accepts.
ConnectFails ==
    /\ pc = "connecting"
    /\ pc' = "waiting"
    /\ UNCHANGED <<runtime, agent, sendable, connection, backoff, history>>

\* An error frame ends the generator.
Send(name) ==
    /\ serving /\ Len(sent) < MaxFrames
    /\ LET n == Len(sent) + 1
       IN  IF name = "_ping"
           THEN wire' = wire \o Ping /\ sent' = Append(sent, Event("_ping", 0))
           ELSE wire' = wire \o _sse(name, n) /\ sent' = Append(sent, Event(name, n))
    /\ serving' = (name # "error")
    /\ UNCHANGED <<runtime, agent, sendable, pc, cut, parser, got, backoff, history>>

\* The pod stops, or a proxy or the network ends the connection: what is on
\* the way arrives up to some point, the last line of it perhaps in half.
Breaks ==
    /\ pc = "streaming" /\ ~cut
    /\ serving' = FALSE
    /\ \E n \in 0..Len(wire) :
         \/ wire' = SubSeq(wire, 1, n)
         \/ /\ n < Len(wire) /\ wire[n + 1].kind # "blank"
            /\ wire' = Append(SubSeq(wire, 1, n), Torn(wire[n + 1]))
    /\ cut' = TRUE
    /\ UNCHANGED <<runtime, agent, sendable, pc, parser, sent, got, backoff, history>>

\* httpx hands on a last line without an end; the plugin keeps it in its buffer.
Skips(line) == line.name = "torn" /\ runtime = "opencode"

\* Mutant: only a real event shows that the stream is healthy.
AliveOnEvents(line) == Yields(parser, line) # <<>> /\ line.kind = "blank"

\* Whatever the shim's reader passes on, and any bytes that reach the plugin.
Alive(line) == runtime = "opencode" \/ Yields(parser, line) # <<>>

Read ==
    /\ pc = "streaming" /\ wire # <<>>
    /\ LET line == Head(wire)
           events == IF Skips(line) THEN <<>> ELSE Yields(parser, line)
       IN  /\ parser' = IF Skips(line) THEN parser ELSE Parsed(parser, line)
           /\ got' = got \o events
           /\ backoff' = IF Alive(line) THEN 1 ELSE backoff
           /\ pc' = IF runtime = "claude" /\ \E i \in DOMAIN events : events[i].event = "error"
                    THEN "waiting" ELSE pc
           /\ barren' = 0
           /\ idle' = IF line.kind = "blank" THEN 0 ELSE idle
    /\ wire' = Tail(wire)
    /\ UNCHANGED <<runtime, agent, sendable, serving, cut, sent>>

\* Mutant: what the reader holds when the stream ends is passed on.
EndsDispatching ==
    /\ pc = "streaming" /\ wire = <<>> /\ ~serving
    /\ pc' = "waiting"
    /\ got' = got \o Dispatched(parser)
    /\ UNCHANGED <<runtime, agent, sendable, serving, wire, cut, parser, sent>>
    /\ UNCHANGED <<backoff, history>>

Ends ==
    /\ pc = "streaming" /\ wire = <<>> /\ ~serving
    /\ pc' = "waiting"
    /\ UNCHANGED <<runtime, agent, sendable, connection, backoff, history>>

\* Three pings missed: the shim leaves, the plugin would stay.
TimesOut ==
    /\ pc = "streaming" /\ wire = <<>> /\ serving
    /\ runtime = "claude"
    /\ pc' = "waiting"
    /\ serving' = FALSE
    /\ cut' = TRUE
    /\ UNCHANGED <<runtime, agent, sendable, wire, parser, sent, got, backoff, history>>

Least(a, b) == IF a <= b THEN a ELSE b

\* Mutant: the wait doubles without a bound.
RetryUncapped ==
    /\ pc = "waiting"
    /\ pc' = "connecting"
    /\ backoff' = 2 * backoff
    /\ barren' = Least(barren + 1, MaxSleeps)
    /\ idle' = Least(idle + 1, MaxSleeps)
    /\ UNCHANGED <<runtime, agent, sendable, connection>>

\* The client has waited.
Retry ==
    /\ pc = "waiting"
    /\ pc' = "connecting"
    /\ backoff' = Least(2 * backoff, Cap)
    /\ barren' = Least(barren + 1, MaxSleeps)
    /\ idle' = Least(idle + 1, MaxSleeps)
    /\ UNCHANGED <<runtime, agent, sendable, connection>>

Server == Breaks \/ \E name \in {"deliver", "_ping", "error"} : Send(name)

Client == Connect \/ ConnectFails \/ Read \/ Ends \/ TimesOut \/ Retry

Next == Server \/ Client

Spec == Init /\ [][Next]_vars

-----------------------------------------------------------------------------
\* The types of the variables; the wait between two attempts keeps to its cap.
TypeOK ==
    /\ runtime \in {"claude", "opencode"}
    /\ agent \in Seq({"x", "-", "~", "/"}) /\ sendable \in BOOLEAN
    /\ pc \in {"connecting", "streaming", "waiting"}
    /\ serving \in BOOLEAN /\ cut \in BOOLEAN
    /\ serving => pc = "streaming"
    /\ Len(wire) <= 3 * MaxFrames
    /\ backoff \in 1..Cap
    /\ barren \in 0..MaxSleeps /\ idle \in barren..MaxSleeps

\* Whatever its machine is called, wherever it is started and whichever client
\* it is, the x-muster-agent header an agent derives can be encoded and is
\* accepted.  (The plugin's x-muster-meta may still stop its stream: Connect.)
HeaderAccepted == encodes(agent) /\ parse_agent_header(agent)

Shown == At(sent, {n \in DOMAIN sent : runtime = "claude" \/ sent[n].event # "_ping"})

\* A reader passes on whole events of its own connection only, in the order in
\* which they were sent, wherever the stream was torn and whatever the last
\* connection left; and when a stream ends in order it has passed on all.
EventsArriveWhole ==
    /\ IsPrefix(got, Shown)
    /\ pc = "waiting" /\ ~cut => got = Shown

\* A bus that says nothing is asked less and less often, down to the cap, and
\* one whose last stream brought a whole frame, be it a ping, is not waited for.
BackoffFits ==
    /\ Least(Doubled[barren], Cap) <= backoff
    /\ backoff <= Least(Doubled[idle], Cap)
=============================================================================
