----------------------------- MODULE Directory ------------------------------
(* One agent's requests about others -- chat, roster, announce -- over a      *)
(* directory that changes under them.  The caller lists the agents with a     *)
(* pipeline that is no transaction: a set, and then a row and a presence key  *)
(* per agent, while streams register, regroup, go on- and offline, rows       *)
(* expire and reapers unlist.  What it resolves, shows or fans out to is what *)
(* it read, not what is so by then.                                           *)
(*                                                                            *)
(* An address is the sequence of its five segments, a reference a sequence of *)
(* segments: joined with "/" they are equal exactly when the sequences are.   *)
(* The limiter appears by its two answers (module RateLimit), the recipients' *)
(* streams by the keys they write (module Presence).                          *)
EXTENDS Integers, FiniteSets, SequencesExt

CONSTANTS Agents,    \* every address
          Me,        \* the caller's address
          MyGroups,  \* the caller's groups, from its key
          GroupsOf,  \* GroupsOf[a]: the group sets a may come to have
          Groups,    \* groups there are
          Calls,     \* the requests the caller may make
          Unset,       \* a filter that is not given
          MaxMoves   \* bound: changes of the directory during one request

Others == Agents \ {Me}
Self   == "user:self"  \* the scope user:<self>

ASSUME DirectoryAssumption ==
    /\ Me \in Agents
    /\ \A a \in Agents : Len(a) = 5
    /\ GroupsOf \in [Agents -> SUBSET SUBSET Groups] /\ MyGroups \in GroupsOf[Me]
    /\ MaxMoves \in Nat

VARIABLES
    listed,   \* the AGENTS set
    row,      \* agent hashes: a function from those that exist to their groups
    present,  \* agents with a presence key
    hearing,  \* agents with a subscribed stream, the caller aside
    phase,    \* the await the request is at, "idle" or "done"
    call,     \* its operation and arguments
    todo,     \* addresses still to read, then agents still to publish to
    rows,     \* rows read so far
    reply,    \* what the caller is told
    stored,   \* agents whose inbox got the chat
    heard,    \* agents a stream of which got the event
    ever,     \* history: agents visible at some moment of the request
    steady,   \* history: listed and visible all along, with the same groups
    steadyOn, \* history: of those, present and hearing all along
    moves     \* bounded by MaxMoves

directory == <<listed, row, present, hearing>>
request   == <<phase, call, todo, rows, reply, stored, heard>>
history   == <<ever, steady, steadyOn, moves>>
vars == <<listed, row, present, hearing, phase, call, todo, rows, reply, stored,
          heard, ever, steady, steadyOn, moves>>

Row == [addr : Agents, groups : SUBSET Groups, online : BOOLEAN]
Phases == {"idle", "members", "hash", "exists", "listed", "rate", "store",
           "publish", "done"}

TypeOK ==
    /\ listed \subseteq Agents /\ present \subseteq Agents /\ hearing \subseteq Others
    /\ DOMAIN row \subseteq Agents /\ \A a \in DOMAIN row : row[a] \in GroupsOf[a]
    /\ phase \in Phases
    /\ todo \subseteq Agents
    /\ phase \in {"hash", "exists", "store"} => todo # {}
    /\ rows \subseteq Row /\ \A x, y \in rows : x.addr = y.addr => x = y
    /\ stored \subseteq Others /\ heard \subseteq Others
    /\ ever \subseteq Agents
    /\ steadyOn \subseteq steady /\ steady \subseteq ever
    /\ moves \in 0..MaxMoves

-----------------------------------------------------------------------------
(* identity.py                                                                *)

matches(ref, addr) == ref # <<>> /\ ref \in SubSeqs(addr)

visible(user, groups) == user = Me[1] \/ MyGroups \cap groups # {}

Visible == {a \in DOMAIN row : visible(a[1], row[a])}

-----------------------------------------------------------------------------
(* The directory, and what is remembered of it while a request runs.          *)

NoCall  == [op |-> "none"]
NoReply == [code |-> "none"]

Init ==
    /\ listed = {} /\ row = [a \in {} |-> {}]
    /\ present = {} /\ hearing = {}
    /\ phase = "idle" /\ call = NoCall
    /\ todo = {} /\ rows = {} /\ reply = NoReply /\ stored = {} /\ heard = {}
    /\ ever = {} /\ steady = {} /\ steadyOn = {} /\ moves = 0

Busy == phase \notin {"idle", "done"}

Remember ==
    IF Busy
    THEN /\ moves < MaxMoves /\ moves' = moves + 1
         /\ ever' = ever \cup Visible'
         /\ steady' = {x \in steady \cap listed' \cap Visible' : row'[x] = row[x]}
         /\ steadyOn' = steadyOn \cap steady' \cap present' \cap hearing'
    ELSE UNCHANGED history

\* A stream opens, or finds at a ping that the key's groups have changed.
Register(a, groups) ==
    /\ listed' = listed \cup {a}
    /\ row' = [x \in DOMAIN row \cup {a} |-> IF x = a THEN groups ELSE row[x]]
    /\ UNCHANGED <<present, hearing, request>>
    /\ Remember

TouchPresence(a) ==
    /\ a \notin present
    /\ present' = present \cup {a}
    /\ UNCHANGED <<listed, row, hearing, request>>
    /\ Remember

Subscribe(a) ==
    /\ a \notin hearing
    /\ hearing' = hearing \cup {a}
    /\ UNCHANGED <<listed, row, present, request>>
    /\ Remember

Disconnect(a) ==
    /\ a \in hearing
    /\ hearing' = hearing \ {a}
    /\ UNCHANGED <<listed, row, present, request>>
    /\ Remember

\* Cleared by its stream, expired, or deleted by a reaper.
PresenceEnds(a) ==
    /\ a \in present
    /\ present' = present \ {a}
    /\ UNCHANGED <<listed, row, hearing, request>>
    /\ Remember

RowExpires(a) ==
    /\ a \in DOMAIN row
    /\ row' = [x \in DOMAIN row \ {a} |-> row[x]]
    /\ UNCHANGED <<listed, present, hearing, request>>
    /\ Remember

\* A reaper's SREM; its test of the row is two awaits old.
Unlist(a) ==
    /\ a \in listed
    /\ listed' = listed \ {a}
    /\ UNCHANGED <<row, present, hearing, request>>
    /\ Remember

\* The caller's own row moves too: the key of its stream may have come by other
\* groups than the key of its request, and its retention runs out under both.
\* Its subscription is left out: nothing is ever published to the caller.
Moves(a) ==
    /\ phase # "done"  \* an answer leaves as soon as it is made
    /\ \/ \E groups \in GroupsOf[a] : Register(a, groups)
       \/ TouchPresence(a) \/ PresenceEnds(a)
       \/ a # Me /\ (Subscribe(a) \/ Disconnect(a))
       \/ RowExpires(a) \/ Unlist(a)

-----------------------------------------------------------------------------
(* Requests.  What is checked without an await is checked in one step.        *)

Refuse(code) ==
    /\ phase' = "done"
    /\ reply' = [code |-> code]

Start(c) ==
    /\ phase = "idle"
    /\ call' = c
    /\ ever' = Visible
    /\ steady' = listed \cap Visible
    /\ steadyOn' = listed \cap Visible \cap present \cap hearing
    /\ \/ c.op # "roster" /\ Refuse("message_too_large")
       \/ c.op = "announce" /\ c.scope \notin {Self} \cup MyGroups /\ Refuse("invalid_scope")
       \/ c.op = "announce" /\ c.scope \in {Self} \cup MyGroups /\ phase' = "rate" /\ UNCHANGED reply
       \/ c.op # "announce" /\ phase' = "members" /\ UNCHANGED reply
    /\ UNCHANGED <<directory, todo, rows, stored, heard, moves>>

\* The loops go through their addresses in some fixed order.
First == CHOOSE a \in todo : TRUE

\* list_agents: SMEMBERS, then HGETALL and EXISTS for each of them.
ListMembers ==
    /\ phase = "members"
    /\ todo' = listed
    /\ phase' = IF todo' = {} THEN "listed" ELSE "hash"
    /\ UNCHANGED <<directory, call, rows, reply, stored, heard, history>>

\* Mutant: "break" for "continue" at an agent whose row has expired.
ListStopsAtGap ==
    /\ phase = "hash"
    /\ \/ /\ First \in DOMAIN row
          /\ rows' = rows \cup {[addr |-> First, groups |-> row[First],
                                 online |-> FALSE]}
          /\ phase' = "exists"
          /\ UNCHANGED todo
       \/ First \notin DOMAIN row /\ phase' = "listed" /\ todo' = {} /\ UNCHANGED rows
    /\ UNCHANGED <<directory, call, reply, stored, heard, history>>

ListHash ==
    /\ phase = "hash"
    /\ rows' = rows \cup {[addr |-> a, groups |-> row[a], online |-> FALSE] :
                             a \in {First} \cap DOMAIN row}
    /\ phase' = "exists"
    /\ UNCHANGED <<directory, call, todo, reply, stored, heard, history>>

\* Mutant: the presence answers go into rows of their own.
ListExistsApart ==
    /\ phase = "exists"
    /\ rows' = rows \cup {[r EXCEPT !.online = r.addr \in present] :
                             r \in {x \in rows : x.addr = First}}
    /\ todo' = todo \ {First}
    /\ phase' = IF todo' = {} THEN "listed" ELSE "hash"
    /\ UNCHANGED <<directory, call, reply, stored, heard, history>>

ListExists ==
    /\ phase = "exists"
    /\ rows' = {[r EXCEPT !.online = IF r.addr = First THEN First \in present ELSE @] :
                   r \in rows}
    /\ todo' = todo \ {First}
    /\ phase' = IF todo' = {} THEN "listed" ELSE "hash"
    /\ UNCHANGED <<directory, call, reply, stored, heard, history>>

\* Mutant: the listing is not filtered.
AllRows == rows

VisibleRows == {r \in rows : visible(r.addr[1], r.groups)}

\* Mutant: a reference is taken for the beginning of an address.
hitsPrefix == {r \in VisibleRows : IsPrefix(call.to, r.addr)}

hits == {r \in VisibleRows : matches(call.to, r.addr)}

\* Mutant: the first match will do.
ResolveFirst ==
    /\ phase = "listed" /\ call.op = "chat"
    /\ \/ hits = {} /\ Refuse("agent_not_found") /\ UNCHANGED todo
       \/ \E r \in hits :
            \/ r.addr = Me /\ Refuse("self_send") /\ UNCHANGED todo
            \/ r.addr # Me /\ phase' = "rate" /\ todo' = {r.addr} /\ UNCHANGED reply
    /\ UNCHANGED <<directory, call, rows, stored, heard, history>>

ResolveReference ==
    /\ phase = "listed" /\ call.op = "chat"
    /\ \/ hits = {} /\ Refuse("agent_not_found") /\ UNCHANGED todo
       \/ Cardinality(hits) > 1 /\ Refuse("ambiguous_reference") /\ UNCHANGED todo
       \/ \E r \in hits :
            /\ hits = {r}
            /\ \/ r.addr = Me /\ Refuse("self_send") /\ UNCHANGED todo
               \/ r.addr # Me /\ phase' = "rate" /\ todo' = {r.addr} /\ UNCHANGED reply
    /\ UNCHANGED <<directory, call, rows, stored, heard, history>>

CheckRate ==
    /\ phase = "rate"
    /\ \/ Refuse("message_rate_exceeded")
       \/ phase' = (IF call.op = "chat" THEN "store" ELSE "members") /\ UNCHANGED reply
    /\ UNCHANGED <<directory, call, todo, rows, stored, heard, history>>

ChatStore ==
    /\ phase = "store"
    /\ stored' = {First}
    /\ phase' = "publish"
    /\ UNCHANGED <<directory, call, todo, rows, reply, heard, history>>

InScope(r) == IF call.scope = Self THEN r.addr[1] = Me[1] ELSE call.scope \in r.groups

Eligible ==
    {r.addr : r \in {x \in VisibleRows :
        InScope(x) /\ x.addr[4] = call.project /\ x.online /\ x.addr # Me}}

FanOut ==
    /\ phase = "listed" /\ call.op = "announce"
    /\ todo' = Eligible
    /\ phase' = "publish"
    /\ UNCHANGED <<directory, call, rows, reply, stored, heard, history>>

\* PUBLISH reaches the streams subscribed at that moment.
Publish ==
    /\ phase = "publish" /\ todo # {}
    /\ heard' = heard \cup ({First} \cap hearing)
    /\ todo' = todo \ {First}
    /\ UNCHANGED <<directory, phase, call, rows, reply, stored, history>>

Published ==
    /\ phase = "publish" /\ todo = {}
    /\ phase' = "done"
    /\ reply' = [code |-> "ok"]
    /\ UNCHANGED <<directory, call, todo, rows, stored, heard, history>>

Passes(addr, groups) ==
    /\ \A i \in {1, 3, 4} : call.where[i] \in {Unset, addr[i]}
    /\ call.group = Unset \/ call.group \in groups

Status(r) == IF r.online THEN "online" ELSE "offline"
Statuses  == {"online", "offline", "all"}

\* Mutant: the list is cut to what is kept before the rest is counted.
HiddenTooLate(found) == [p \in {} |-> 0]

HiddenCounts(found) ==
    [p \in {r.addr[4] : r \in found} |-> Cardinality({r \in found : r.addr[4] = p})]

Roster ==
    LET found == {r \in VisibleRows : Passes(r.addr, r.groups)}
        kept  == {r \in found : call.status \in {"all", Status(r)}}
    IN /\ phase = "listed" /\ call.op = "roster"
       /\ \/ call.group \notin MyGroups \cup {Unset} /\ Refuse("invalid_scope")
          \/ /\ call.group \in MyGroups \cup {Unset} /\ call.status \notin Statuses
             /\ Refuse("invalid_status")
          \/ /\ call.group \in MyGroups \cup {Unset} /\ call.status \in Statuses
             /\ phase' = "done"
             /\ reply' = [code |-> "ok", agents |-> {r.addr : r \in kept},
                          hidden |-> HiddenCounts({r \in found \ kept : r.addr # Me})]
       /\ UNCHANGED <<directory, call, todo, rows, stored, heard, history>>

\* The caller has its answer; or the pod stops, or Valkey fails, on the way.
Ends ==
    /\ phase # "idle"
    /\ phase' = "idle" /\ call' = NoCall
    /\ todo' = {} /\ rows' = {} /\ reply' = NoReply /\ stored' = {} /\ heard' = {}
    /\ ever' = {} /\ steady' = {} /\ steadyOn' = {} /\ moves' = 0
    /\ UNCHANGED directory

Next ==
    \/ \E a \in Agents : Moves(a)
    \/ \E c \in Calls : Start(c)
    \/ ListMembers \/ ListHash \/ ListExists
    \/ ResolveReference \/ CheckRate \/ ChatStore
    \/ FanOut \/ Publish \/ Published
    \/ Roster
    \/ Ends

Spec == Init /\ [][Next]_vars

-----------------------------------------------------------------------------
Answered(op) == phase = "done" /\ call.op = op /\ reply.code = "ok"

Addressed(a) ==
    /\ a[4] = call.project
    /\ IF call.scope = Self THEN a[1] = Me[1] ELSE call.scope \in row[a]

(* Nobody gets mail or an announcement from a caller it was invisible to      *)
(* throughout the request, whatever changed between the listing and the       *)
(* delivery: "the only authorization rule in muster" (identity.py:41,         *)
(* ops.py:14-16).                                                             *)
OnlyVisibleHear == stored \cup heard \subseteq ever \ {Me}

(* "ambiguity never results in arbitrary delivery" (spec-v2:200): a chat is   *)
(* stored only if no second agent the caller could see all along matches its  *)
(* reference, however torn the listing was (ops.py:19-29).                    *)
NoArbitraryDelivery ==
    \A a \in stored : \A b \in steady \ {a} : ~matches(call.to, b)

(* "shortest unique reference succeeds" (spec-v2:200): a reference to an      *)
(* agent that was listed and visible all along, and that fits no other agent  *)
(* visible at any time of the request, is not answered with an error about    *)
(* the reference (ops.py:19-29).                                              *)
ShortestUnique ==
    phase = "done" /\ call.op = "chat" =>
        \A a \in steady :
            matches(call.to, a) /\ (\A b \in ever \ {a} : ~matches(call.to, b)) =>
                reply.code \notin {"agent_not_found", "ambiguous_reference"}

(* Once an announcement is answered, every agent in its project and scope     *)
(* that was listed, visible, present and listening throughout has it; only    *)
(* agents that came, went, or are online without a subscription yet           *)
(* (stream.py:34-36) may have missed it (ops.py:134-141, store.py:55-66).     *)
SteadyHear ==
    Answered("announce") =>
        \A a \in steadyOn \ {Me} : Addressed(a) => a \in heard

(* "never silently" (ops.py:88): agents that a roster's status filter drops   *)
(* are counted.  Of every project, what it counts is no less than the agents  *)
(* there all along that pass the filters and are no row of the answer, and no *)
(* more than the agents seen at some moment that are no row of it -- however  *)
(* torn the listing was.  The caller is not counted.  (That the shim takes a  *)
(* namesake's row for its own, muster_channel.py:84-86, comes after this.)    *)
RosterAccounts ==
    Answered("roster") =>
        \A p \in {a[4] : a \in Agents} :
            LET NoRow(S) == {a \in S \ {Me} : a[4] = p /\ a \notin reply.agents}
                count == IF p \in DOMAIN reply.hidden THEN reply.hidden[p] ELSE 0
            IN /\ Cardinality({a \in NoRow(steady) : Passes(a, row[a])}) <= count
               /\ count <= Cardinality(NoRow(ever))
=============================================================================
