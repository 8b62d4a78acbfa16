---------------------------- MODULE MCDirectory -----------------------------
(* The caller, another session of its user on another host, and an agent of   *)
(* another user that shares a group or does not and differs from the caller   *)
(* in the user alone.  At most three changes happen during one request.       *)
EXTENDS Directory

CONSTANTS u1, u2, h1, h2, claude, p, s1, g

A == <<u1, h1, claude, p, s1>>
M == <<u1, h2, claude, p, s1>>
B == <<u2, h2, claude, p, s1>>

MCAgents == {A, M, B}
MCGroupsOf == [a \in MCAgents |-> IF a = B THEN {{}, {g}} ELSE {{g}}]

NoFilter == <<Unset, Unset, Unset, Unset, Unset>>

MCCalls ==
    {[op |-> "chat", to |-> ref] : ref \in {<<p>>, <<h2>>, <<u2>>, <<h1, claude>>}}
    \cup {[op |-> "announce", project |-> p, scope |-> scope] : scope \in {Self, g, u2}}
    \cup {[op |-> "roster", where |-> NoFilter, group |-> Unset, status |-> status] :
             status \in {"online", "offline", "all", u2}}
    \cup {[op |-> "roster", where |-> [NoFilter EXCEPT ![1] = u1], group |-> group,
           status |-> "online"] : group \in {g, u2}}

(* Only announcements depend on who is hearing, and chats do not depend on    *)
(* who is present either: what a change of them adds during another request   *)
(* is one more change.  Between requests all of them are told apart.          *)
Matters ==
    LET chat == call.op = "chat"
        quiet == call.op \in {"chat", "roster"}
    IN <<listed, row, IF chat THEN {} ELSE present, IF quiet THEN {} ELSE hearing,
         phase, call, todo, IF chat THEN {[r EXCEPT !.online = FALSE] : r \in rows} ELSE rows,
         reply, stored, heard, ever, steady, IF quiet THEN {} ELSE steadyOn, moves>>
=============================================================================
