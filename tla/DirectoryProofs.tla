-------------------------- MODULE DirectoryProofs ---------------------------
(* Theorems about module Directory, for any agents, groups and requests and   *)
(* any number of changes while a request runs.  Nothing is needed of matches: *)
(* they hold for every way to match a reference with an address.              *)
EXTENDS Directory, FiniteSetTheorems, TLAPS

ReadRow(a) == \E r \in rows : r.addr = a /\ r.groups = row[a]

(* A row was read while it stood, so the caller saw its agent then.           *)
ReadWasVisible == \A r \in rows : visible(r.addr[1], r.groups) => r.addr \in ever

SteadyIsThere == Busy => steady \subseteq listed \cap Visible /\ Visible \subseteq ever

(* What has been there all along is still to be read or was read as it is.    *)
SteadyIsRead ==
    /\ phase = "hash" => \A a \in steady : a \in todo \/ ReadRow(a)
    /\ phase = "exists" => \A a \in steady : a \in todo \ {First} \/ ReadRow(a)
    /\ phase = "listed" => \A a \in steady : ReadRow(a)

ReadOnline(a) == \E r \in rows : r.addr = a /\ r.groups = row[a] /\ r.online

\* What has been online all along is still to be read or was read as online.
SteadyOnIsRead ==
    /\ Busy => steadyOn \subseteq present \cap hearing
    /\ phase \in {"hash", "exists"} => \A a \in steadyOn : a \in todo \/ ReadOnline(a)
    /\ phase = "listed" => \A a \in steadyOn : ReadOnline(a)

Targets == IF phase \in {"rate", "store", "publish"} THEN todo ELSE {}

FannedOut == phase = "publish" \/ Answered("announce")

SteadyOnIsTold ==
    call.op = "announce" /\ FannedOut =>
        \A a \in steadyOn \ {Me} : Addressed(a) => a \in Targets \cup heard

OnInv == SteadyOnIsRead /\ SteadyOnIsTold

ReadOnce ==
    /\ phase = "hash" => \A r \in rows : r.addr \notin todo
    /\ phase = "exists" => \A r \in rows : r.addr \notin todo \ {First}

TargetsWereVisible == Targets \cup stored \cup heard \subseteq ever \ {Me}

TargetIsTheOne ==
    call.op = "chat" =>
        \A a \in Targets \cup stored : \A b \in steady \ {a} : ~matches(call.to, b)

IInv ==
    /\ TypeOK
    /\ ReadWasVisible
    /\ SteadyIsThere
    /\ SteadyIsRead
    /\ ReadOnce
    /\ TargetsWereVisible
    /\ TargetIsTheOne
    /\ stored # {} => call.op = "chat"
    /\ phase = "idle" => todo = {} /\ rows = {} /\ stored = {} /\ heard = {}
    /\ phase = "members" => todo = {} /\ rows = {}
    /\ phase = "rate" => IF call.op = "chat" THEN todo # {} ELSE todo = {} /\ rows = {}
    /\ phase = "store" => call.op = "chat"
    /\ ShortestUnique

LEMMA FirstIsOne == ASSUME todo # {} PROVE First \in todo
BY DEF First

LEMMA InitEstablishes == Init => IInv
<1> SUFFICES ASSUME Init PROVE IInv
    OBVIOUS
<1>1. TypeOK
    BY DirectoryAssumption
    DEF DirectoryAssumption, Init, TypeOK, Phases, Others
<1>2. ReadWasVisible /\ SteadyIsThere /\ SteadyIsRead /\ ReadOnce
    BY DEF Init, ReadWasVisible, SteadyIsThere, SteadyIsRead, Busy, ReadOnce
<1>3. TargetsWereVisible /\ TargetIsTheOne /\ ShortestUnique
    BY DEF Init, TargetsWereVisible, TargetIsTheOne, ShortestUnique, Targets
<1> QED
    BY <1>1, <1>2, <1>3 DEF IInv, Init

-----------------------------------------------------------------------------
(* Changes of the directory.                                                  *)

LEMMA MoveFacts ==
    ASSUME TypeOK, NEW a \in Agents, Moves(a)
    PROVE  /\ UNCHANGED request /\ phase # "done"
           /\ Remember
           /\ listed' \subseteq Agents /\ present' \subseteq Agents /\ hearing' \subseteq Others
           /\ DOMAIN row' \subseteq Agents /\ \A x \in DOMAIN row' : row'[x] \in GroupsOf[x]
<1>1. a # Me => a \in Others
    BY DEF Others
<1>2. ASSUME NEW groups \in GroupsOf[a], Register(a, groups)
      PROVE  /\ listed' \subseteq Agents
             /\ DOMAIN row' \subseteq Agents /\ \A x \in DOMAIN row' : row'[x] \in GroupsOf[x]
    BY <1>1, <1>2 DEF TypeOK, Register
<1>3. ASSUME RowExpires(a)
      PROVE  DOMAIN row' \subseteq Agents /\ \A x \in DOMAIN row' : row'[x] \in GroupsOf[x]
    BY <1>3 DEF TypeOK, RowExpires
<1>4. UNCHANGED request /\ phase # "done" /\ Remember
    BY DEF Moves, Register, TouchPresence, Subscribe, Disconnect, PresenceEnds, RowExpires, Unlist
<1>5. present' \subseteq Agents /\ hearing' \subseteq Others
    BY <1>1 DEF TypeOK, Moves, Register, TouchPresence, Subscribe, Disconnect, PresenceEnds,
                RowExpires, Unlist
<1>6. CASE \E groups \in GroupsOf[a] : Register(a, groups)
    BY <1>2, <1>4, <1>5, <1>6
<1>7. CASE RowExpires(a)
    BY <1>3, <1>4, <1>5, <1>7 DEF RowExpires, TypeOK
<1>8. CASE TouchPresence(a) \/ Subscribe(a) \/ Disconnect(a) \/ PresenceEnds(a) \/ Unlist(a)
    <2>1. listed' \subseteq Agents /\ row' = row
        BY <1>8 DEF TypeOK, TouchPresence, Subscribe, Disconnect, PresenceEnds, Unlist
    <2> QED
        BY <1>4, <1>5, <2>1 DEF TypeOK
<1> QED
    BY <1>6, <1>7, <1>8 DEF Moves

LEMMA MovesKeep ==
    ASSUME IInv, NEW a \in Agents, Moves(a)
    PROVE  IInv'
<1>1. /\ UNCHANGED <<phase, call, todo, rows, reply, stored, heard>>
      /\ phase # "done" /\ Remember
      /\ listed' \subseteq Agents /\ present' \subseteq Agents /\ hearing' \subseteq Others
      /\ DOMAIN row' \subseteq Agents /\ \A x \in DOMAIN row' : row'[x] \in GroupsOf[x]
    BY MoveFacts DEF IInv, request
<1>2. First' = First
    BY <1>1 DEF First
<1>3. /\ ever \subseteq ever' /\ steady' \subseteq steady
      /\ \A x \in steady' : Busy => row'[x] = row[x]
      /\ Busy => Visible' \subseteq ever' /\ steady' \subseteq listed' \cap Visible'
      /\ Busy' = Busy
    BY <1>1 DEF Remember, Busy, history
<1>4. TypeOK'
    <2>1. Visible' \subseteq Agents
        BY <1>1 DEF Visible
    <2>2. /\ ever' \subseteq Agents /\ steadyOn' \subseteq steady' /\ steady' \subseteq ever'
          /\ moves' \in 0..MaxMoves
        BY <1>1, <2>1, DirectoryAssumption DEF DirectoryAssumption, IInv, TypeOK, Remember, history
    <2> QED
        BY <1>1, <2>2 DEF IInv, TypeOK
<1>5. ReadWasVisible' /\ SteadyIsThere'
    BY <1>1, <1>3 DEF IInv, ReadWasVisible, SteadyIsThere, visible
<1>6. SteadyIsRead' /\ ReadOnce'
    BY <1>1, <1>2, <1>3 DEF IInv, SteadyIsRead, ReadRow, Busy, ReadOnce
<1>7. TargetsWereVisible' /\ TargetIsTheOne'
    BY <1>1, <1>3 DEF IInv, TargetsWereVisible, TargetIsTheOne, Targets, matches
<1>8. ShortestUnique'
    BY <1>1 DEF ShortestUnique
<1> QED
    BY <1>1, <1>4, <1>5, <1>6, <1>7, <1>8 DEF IInv

-----------------------------------------------------------------------------
(* The steps of a request.                                                    *)

LEMMA StartKeeps ==
    ASSUME IInv, NEW c \in Calls, Start(c)
    PROVE  IInv'
<1>1. /\ UNCHANGED <<listed, row, present, hearing, todo, rows, stored, heard, moves>>
      /\ phase = "idle" /\ phase' \in {"done", "rate", "members"}
      /\ (phase' = "done" => reply'.code \in {"message_too_large", "invalid_scope"})
      /\ (phase' = "rate" => call'.op = "announce")
      /\ ever' = Visible /\ steady' = listed \cap Visible
      /\ steadyOn' = listed \cap Visible \cap present \cap hearing
    BY DEF Start, Refuse, directory
<1>2. todo = {} /\ rows = {} /\ stored = {} /\ heard = {}
    BY <1>1 DEF IInv
<1>3. Visible' = Visible /\ Visible \subseteq Agents
    BY <1>1 DEF Visible, IInv, TypeOK
<1>4. TypeOK'
    BY <1>1, <1>2, <1>3 DEF IInv, TypeOK, Phases
<1>5. ReadWasVisible' /\ SteadyIsThere' /\ SteadyIsRead' /\ ReadOnce'
    BY <1>1, <1>2, <1>3 DEF ReadWasVisible, SteadyIsThere, SteadyIsRead, ReadOnce
<1>6. TargetsWereVisible' /\ TargetIsTheOne' /\ ShortestUnique'
    BY <1>1, <1>2 DEF TargetsWereVisible, TargetIsTheOne, Targets, ShortestUnique
<1> QED
    BY <1>1, <1>2, <1>4, <1>5, <1>6 DEF IInv

LEMMA ListMembersKeeps ==
    ASSUME IInv, ListMembers
    PROVE  IInv'
<1>1. /\ UNCHANGED <<listed, row, present, hearing, call, rows, reply, stored, heard,
                     ever, steady, steadyOn, moves>>
      /\ phase = "members" /\ todo' = listed
      /\ phase' = IF todo' = {} THEN "listed" ELSE "hash"
    BY DEF ListMembers, directory, history
<1>2. TypeOK'
    BY <1>1 DEF IInv, TypeOK, Phases
<1>3. ReadWasVisible' /\ SteadyIsThere'
    BY <1>1 DEF IInv, ReadWasVisible, SteadyIsThere, Visible, Busy
<1>4. SteadyIsRead' /\ ReadOnce'
    <2>1. steady \subseteq listed /\ rows = {}
        BY <1>1 DEF IInv, SteadyIsThere, Busy
    <2> QED
        BY <1>1, <2>1 DEF SteadyIsRead, ReadOnce
<1>5. TargetsWereVisible' /\ TargetIsTheOne' /\ ShortestUnique'
    BY <1>1 DEF IInv, TargetsWereVisible, TargetIsTheOne, Targets, ShortestUnique
<1> QED
    BY <1>1, <1>2, <1>3, <1>4, <1>5 DEF IInv

LEMMA ListHashKeeps ==
    ASSUME IInv, ListHash
    PROVE  IInv'
<1> DEFINE entry == [addr |-> First, groups |-> row[First], online |-> FALSE]
<1>1. /\ UNCHANGED <<listed, row, present, hearing, call, todo, reply, stored, heard,
                     ever, steady, steadyOn, moves>>
      /\ phase = "hash" /\ phase' = "exists"
      /\ rows' = rows \cup (IF First \in DOMAIN row THEN {entry} ELSE {})
    BY DEF ListHash, directory, history
<1>2. First \in todo /\ First' = First
    BY <1>1, FirstIsOne DEF IInv, TypeOK, First
<1>3. entry.addr = First /\ entry.groups = row[First]
    OBVIOUS
<1>4. First \in DOMAIN row => entry \in Row
    <2>1. First \in DOMAIN row => row[First] \in SUBSET Groups
        BY <1>2, DirectoryAssumption DEF DirectoryAssumption, IInv, TypeOK
    <2> QED
        BY <1>2, <2>1 DEF IInv, TypeOK, Row
<1> HIDE DEF entry
<1>5. TypeOK' /\ ReadOnce'
    <2>1. \A r \in rows : r.addr # First
        BY <1>1, <1>2 DEF IInv, ReadOnce
    <2>2. \A x, y \in rows' : x.addr = y.addr => x = y
        BY <1>1, <1>3, <2>1 DEF IInv, TypeOK
    <2>3. ReadOnce'
        BY <1>1, <1>2, <1>3 DEF IInv, ReadOnce
    <2> QED
        BY <1>1, <1>2, <1>4, <2>2, <2>3 DEF IInv, TypeOK, Phases
<1>6. ReadWasVisible' /\ SteadyIsThere'
    BY <1>1, <1>3 DEF IInv, ReadWasVisible, SteadyIsThere, Visible, Busy
<1>7. SteadyIsRead'
    <2>1. \A a \in steady : a = First => First \in DOMAIN row
        BY <1>1 DEF IInv, SteadyIsThere, Visible, Busy
    <2>2. \A a \in steady : ReadRow(a) => ReadRow(a)'
        BY <1>1 DEF ReadRow
    <2>3. First \in DOMAIN row => ReadRow(First)'
        BY <1>1, <1>2, <1>3 DEF ReadRow
    <2>4. \A a \in steady : a \in todo' \ {First'} \/ ReadRow(a)'
        BY <1>1, <1>2, <2>1, <2>2, <2>3 DEF IInv, SteadyIsRead
    <2> QED
        BY <1>1, <2>4 DEF SteadyIsRead
<1>8. TargetsWereVisible' /\ TargetIsTheOne' /\ ShortestUnique'
    BY <1>1 DEF IInv, TargetsWereVisible, TargetIsTheOne, Targets, ShortestUnique
<1> QED
    BY <1>1, <1>5, <1>6, <1>7, <1>8 DEF IInv

LEMMA ListExistsKeeps ==
    ASSUME IInv, ListExists
    PROVE  IInv'
<1> DEFINE up(r) == [r EXCEPT !.online = IF r.addr = First THEN First \in present ELSE @]
<1>1. /\ UNCHANGED <<listed, row, present, hearing, call, reply, stored, heard,
                     ever, steady, steadyOn, moves>>
      /\ phase = "exists" /\ phase' = (IF todo' = {} THEN "listed" ELSE "hash")
      /\ todo' = todo \ {First}
      /\ rows' = {up(r) : r \in rows}
    BY DEF ListExists, directory, history
<1>2. \A r \in rows : up(r) \in Row /\ up(r).addr = r.addr /\ up(r).groups = r.groups
    <2> SUFFICES ASSUME NEW r \in rows
                 PROVE  up(r) \in Row /\ up(r).addr = r.addr /\ up(r).groups = r.groups
        OBVIOUS
    <2>1. r \in [addr : Agents, groups : SUBSET Groups, online : BOOLEAN]
        BY DEF IInv, TypeOK, Row
    <2>2. (IF r.addr = First THEN First \in present ELSE r.online) \in BOOLEAN
        <3>1. r.online \in BOOLEAN
            BY <2>1
        <3>2. CASE r.addr = First
            BY <3>2
        <3>3. CASE r.addr # First
            BY <3>1, <3>3
        <3> QED
            BY <3>2, <3>3
    <2> QED
        BY <2>1, <2>2 DEF Row
<1> HIDE DEF up
<1>3. First \in todo
    BY <1>1, FirstIsOne DEF IInv, TypeOK
<1>4. TypeOK'
    <2>1. rows' \subseteq Row /\ \A x, y \in rows' : x.addr = y.addr => x = y
        BY <1>1, <1>2 DEF IInv, TypeOK
    <2> QED
        BY <1>1, <2>1 DEF IInv, TypeOK, Phases
<1>5. ReadWasVisible' /\ SteadyIsThere' /\ ReadOnce'
    BY <1>1, <1>2 DEF IInv, ReadWasVisible, SteadyIsThere, Visible, Busy, ReadOnce
<1>6. SteadyIsRead'
    <2>1. \A a \in steady : ReadRow(a) => ReadRow(a)'
        BY <1>1, <1>2 DEF ReadRow
    <2> QED
        BY <1>1, <2>1 DEF IInv, SteadyIsRead
<1>7. TargetsWereVisible' /\ TargetIsTheOne' /\ ShortestUnique'
    BY <1>1 DEF IInv, TargetsWereVisible, TargetIsTheOne, Targets, ShortestUnique
<1> QED
    BY <1>1, <1>4, <1>5, <1>6, <1>7 DEF IInv

LEMMA ResolveKeeps ==
    ASSUME IInv, ResolveReference
    PROVE  IInv'
<1>1. /\ UNCHANGED <<listed, row, present, hearing, call, rows, stored, heard,
                     ever, steady, steadyOn, moves>>
      /\ phase = "listed" /\ call.op = "chat" /\ phase' \in {"done", "rate"}
    BY DEF ResolveReference, Refuse, directory, history
<1>2. \A a \in steady : matches(call.to, a) => \E r \in hits : r.addr = a
    BY <1>1 DEF IInv, SteadyIsRead, SteadyIsThere, ReadRow, Visible, VisibleRows, hits, Busy
<1>3. \A r \in hits : matches(call.to, r.addr) /\ r.addr \in ever
    BY DEF IInv, ReadWasVisible, VisibleRows, hits
<1>4. CASE phase' = "rate"
    <2>1. PICK r \in hits : hits = {r} /\ r.addr # Me /\ todo' = {r.addr} /\ UNCHANGED reply
        BY <1>4 DEF ResolveReference, Refuse
    <2>2. r.addr \in ever \ {Me} /\ r.addr \in Agents
        BY <1>3, <2>1 DEF IInv, TypeOK
    <2>3. TypeOK'
        BY <1>1, <1>4, <2>1, <2>2 DEF IInv, TypeOK, Phases
    <2>4. TargetIsTheOne'
        BY <1>1, <1>2, <1>4, <2>1 DEF IInv, TargetIsTheOne, Targets
    <2>5. TargetsWereVisible' /\ ShortestUnique'
        BY <1>1, <1>4, <2>1, <2>2 DEF IInv, TargetsWereVisible, Targets, ShortestUnique
    <2> QED
        BY <1>1, <1>4, <2>1, <2>3, <2>4, <2>5
        DEF IInv, ReadWasVisible, SteadyIsThere, Visible, Busy, SteadyIsRead, ReadOnce
<1>5. CASE phase' = "done"
    <2>1. UNCHANGED todo
        BY <1>5 DEF ResolveReference, Refuse
    <2>2. TypeOK'
        BY <1>1, <1>5, <2>1 DEF IInv, TypeOK, Phases
    <2>3. TargetIsTheOne' /\ TargetsWereVisible'
        BY <1>1, <1>5 DEF IInv, TargetIsTheOne, TargetsWereVisible, Targets
    <2>4. ShortestUnique'
        <3> SUFFICES ASSUME NEW a \in steady, matches(call.to, a),
                            \A b \in ever \ {a} : ~matches(call.to, b)
                     PROVE  reply'.code \notin {"agent_not_found", "ambiguous_reference"}
            BY <1>1 DEF ShortestUnique
        <3>1. PICK r \in hits : r.addr = a
            BY <1>2
        <3>2. hits = {r}
            BY <1>3, <3>1 DEF IInv, TypeOK, hits, VisibleRows
        <3>3. Cardinality(hits) = 1 /\ hits # {}
            BY <3>2, FS_Singleton
        <3> QED
            BY <1>5, <3>2, <3>3 DEF ResolveReference, Refuse
    <2> QED
        BY <1>1, <1>5, <2>2, <2>3, <2>4
        DEF IInv, ReadWasVisible, SteadyIsThere, Busy, SteadyIsRead, ReadOnce
<1> QED
    BY <1>1, <1>4, <1>5

LEMMA CheckRateKeeps ==
    ASSUME IInv, CheckRate
    PROVE  IInv'
<1>1. /\ UNCHANGED <<listed, row, present, hearing, call, todo, rows, stored, heard,
                     ever, steady, steadyOn, moves>>
      /\ phase = "rate"
      /\ \/ phase' = "done" /\ reply'.code = "message_rate_exceeded"
         \/ phase' = (IF call.op = "chat" THEN "store" ELSE "members") /\ UNCHANGED reply
    BY DEF CheckRate, Refuse, directory, history
<1>2. TypeOK'
    BY <1>1 DEF IInv, TypeOK, Phases, TargetsWereVisible, Targets
<1>3. ReadWasVisible' /\ SteadyIsThere' /\ SteadyIsRead' /\ ReadOnce'
    BY <1>1 DEF IInv, ReadWasVisible, SteadyIsThere, Visible, Busy, SteadyIsRead, ReadOnce
<1>4. TargetsWereVisible' /\ TargetIsTheOne' /\ ShortestUnique'
    BY <1>1 DEF IInv, TargetsWereVisible, TargetIsTheOne, Targets, ShortestUnique
<1> QED
    BY <1>1, <1>2, <1>3, <1>4 DEF IInv

LEMMA ChatStoreKeeps ==
    ASSUME IInv, ChatStore
    PROVE  IInv'
<1>1. /\ UNCHANGED <<listed, row, present, hearing, call, todo, rows, reply, heard,
                     ever, steady, steadyOn, moves>>
      /\ phase = "store" /\ phase' = "publish" /\ stored' = {First}
    BY DEF ChatStore, directory, history
<1>2. First \in todo /\ First \in ever \ {Me}
    BY <1>1, FirstIsOne DEF IInv, TypeOK, TargetsWereVisible, Targets
<1>3. TypeOK'
    BY <1>1, <1>2 DEF IInv, TypeOK, Phases, Others
<1>4. ReadWasVisible' /\ SteadyIsThere' /\ SteadyIsRead' /\ ReadOnce'
    BY <1>1 DEF IInv, ReadWasVisible, SteadyIsThere, Visible, Busy, SteadyIsRead, ReadOnce
<1>5. TargetsWereVisible' /\ TargetIsTheOne' /\ ShortestUnique'
    BY <1>1, <1>2 DEF IInv, TargetsWereVisible, TargetIsTheOne, Targets, ShortestUnique
<1>6. call.op = "chat"
    BY <1>1 DEF IInv
<1> QED
    BY <1>1, <1>3, <1>4, <1>5, <1>6 DEF IInv

LEMMA FanOutKeeps ==
    ASSUME IInv, FanOut
    PROVE  IInv'
<1>1. /\ UNCHANGED <<listed, row, present, hearing, call, rows, reply, stored, heard,
                     ever, steady, steadyOn, moves>>
      /\ phase = "listed" /\ call.op = "announce" /\ phase' = "publish" /\ todo' = Eligible
    BY DEF FanOut, directory, history
<1>2. Eligible \subseteq ever \ {Me} /\ Eligible \subseteq Agents
    BY DEF Eligible, VisibleRows, IInv, ReadWasVisible, TypeOK
<1>3. TypeOK'
    BY <1>1, <1>2 DEF IInv, TypeOK, Phases
<1>4. ReadWasVisible' /\ SteadyIsThere' /\ SteadyIsRead' /\ ReadOnce'
    BY <1>1 DEF IInv, ReadWasVisible, SteadyIsThere, Visible, Busy, SteadyIsRead, ReadOnce
<1>5. TargetsWereVisible' /\ TargetIsTheOne' /\ ShortestUnique'
    BY <1>1, <1>2 DEF IInv, TargetsWereVisible, TargetIsTheOne, Targets, ShortestUnique
<1> QED
    BY <1>1, <1>3, <1>4, <1>5 DEF IInv

LEMMA PublishKeeps ==
    ASSUME IInv, Publish
    PROVE  IInv'
<1>1. /\ UNCHANGED <<listed, row, present, hearing, phase, call, rows, reply, stored,
                     ever, steady, steadyOn, moves>>
      /\ phase = "publish" /\ todo # {} /\ todo' = todo \ {First}
      /\ heard' = heard \cup ({First} \cap hearing)
    BY DEF Publish, directory, history
<1>2. First \in todo /\ First \in ever \ {Me}
    BY <1>1, FirstIsOne DEF IInv, TargetsWereVisible, Targets
<1>3. TypeOK'
    BY <1>1, <1>2 DEF IInv, TypeOK, Others
<1>4. ReadWasVisible' /\ SteadyIsThere' /\ SteadyIsRead' /\ ReadOnce'
    BY <1>1 DEF IInv, ReadWasVisible, SteadyIsThere, Visible, Busy, SteadyIsRead, ReadOnce
<1>5. TargetsWereVisible' /\ TargetIsTheOne' /\ ShortestUnique'
    BY <1>1, <1>2 DEF IInv, TargetsWereVisible, TargetIsTheOne, Targets, ShortestUnique
<1> QED
    BY <1>1, <1>3, <1>4, <1>5 DEF IInv

LEMMA AnswerKeeps ==
    ASSUME IInv, Published \/ Roster
    PROVE  IInv'
<1>1. /\ UNCHANGED <<listed, row, present, hearing, call, todo, rows, stored, heard,
                     ever, steady, steadyOn, moves>>
      /\ phase \in {"publish", "listed"} /\ phase' = "done"
      /\ call.op = "chat" => reply'.code = "ok"
    BY DEF Published, Roster, Refuse, directory, history
<1>2. TypeOK'
    BY <1>1 DEF IInv, TypeOK, Phases
<1>3. ReadWasVisible' /\ SteadyIsThere' /\ SteadyIsRead' /\ ReadOnce'
    BY <1>1 DEF IInv, ReadWasVisible, SteadyIsThere, Busy, SteadyIsRead, ReadOnce
<1>4. TargetsWereVisible' /\ TargetIsTheOne' /\ ShortestUnique'
    BY <1>1 DEF IInv, TargetsWereVisible, TargetIsTheOne, Targets, ShortestUnique
<1> QED
    BY <1>1, <1>2, <1>3, <1>4 DEF IInv

LEMMA EndsKeeps ==
    ASSUME IInv, Ends
    PROVE  IInv'
<1>1. /\ UNCHANGED <<listed, row, present, hearing>>
      /\ phase' = "idle" /\ todo' = {} /\ rows' = {} /\ stored' = {} /\ heard' = {}
      /\ ever' = {} /\ steady' = {} /\ steadyOn' = {} /\ moves' = 0
    BY DEF Ends, directory
<1>2. TypeOK'
    BY <1>1, DirectoryAssumption DEF DirectoryAssumption, IInv, TypeOK, Phases
<1>3. ReadWasVisible' /\ SteadyIsThere' /\ SteadyIsRead' /\ ReadOnce'
    BY <1>1 DEF ReadWasVisible, SteadyIsThere, Busy, SteadyIsRead, ReadOnce
<1>4. TargetsWereVisible' /\ TargetIsTheOne' /\ ShortestUnique'
    BY <1>1 DEF TargetsWereVisible, TargetIsTheOne, Targets, ShortestUnique
<1> QED
    BY <1>1, <1>2, <1>3, <1>4 DEF IInv

-----------------------------------------------------------------------------
(* Who was online throughout hears an announcement.                           *)

LEMMA OnInit == Init => OnInv
BY DEF Init, OnInv, SteadyOnIsRead, SteadyOnIsTold, Busy, FannedOut, Answered, NoCall

LEMMA OnMoves ==
    ASSUME IInv, OnInv, NEW a \in Agents, Moves(a)
    PROVE  OnInv'
<1>1. /\ UNCHANGED <<phase, call, todo, rows, reply, stored, heard>>
      /\ phase # "done" /\ Remember
    BY MoveFacts DEF IInv, request
<1>2. /\ steadyOn' \subseteq steadyOn /\ Busy' = Busy
      /\ \A x \in steadyOn' : Busy => row'[x] = row[x]
      /\ Busy => steadyOn' \subseteq present' \cap hearing'
    BY <1>1 DEF Remember, Busy, history
<1>3. \A x \in steadyOn' : Busy => (ReadOnline(x) => ReadOnline(x)') /\ Addressed(x)' = Addressed(x)
    BY <1>1, <1>2 DEF ReadOnline, Addressed
<1>4. SteadyOnIsRead'
    BY <1>1, <1>2, <1>3 DEF OnInv, SteadyOnIsRead, Busy
<1>5. SteadyOnIsTold'
    BY <1>1, <1>2, <1>3 DEF OnInv, SteadyOnIsTold, FannedOut, Answered, Targets, Busy
<1> QED
    BY <1>4, <1>5 DEF OnInv

LEMMA OnListing ==
    ASSUME IInv, OnInv, ListMembers \/ ListHash \/ ListExists
    PROVE  OnInv'
<1>1. /\ UNCHANGED <<listed, row, present, hearing, call, reply, stored, heard,
                     ever, steady, steadyOn, moves>>
      /\ phase' \in {"hash", "exists", "listed"} /\ Busy
    BY DEF ListMembers, ListHash, ListExists, directory, history, Busy
<1>2. SteadyOnIsTold'
    BY <1>1 DEF SteadyOnIsTold, FannedOut, Answered
<1>3. CASE ListMembers
    <2>1. steadyOn \subseteq listed /\ todo' = listed
        BY <1>1, <1>3 DEF ListMembers, IInv, TypeOK, SteadyIsThere
    <2>2. phase' = IF todo' = {} THEN "listed" ELSE "hash"
        BY <1>3 DEF ListMembers
    <2>3. SteadyOnIsRead'
        BY <1>1, <2>1, <2>2 DEF OnInv, SteadyOnIsRead, Busy
    <2> QED
        BY <1>2, <2>3 DEF OnInv
<1>4. CASE ListHash
    <2>1. rows \subseteq rows' /\ phase = "hash" /\ phase' = "exists" /\ todo' = todo
        BY <1>4 DEF ListHash
    <2>2. \A a \in steadyOn : ReadOnline(a) => ReadOnline(a)'
        BY <1>1, <2>1 DEF ReadOnline
    <2>3. SteadyOnIsRead'
        BY <1>1, <2>1, <2>2 DEF OnInv, SteadyOnIsRead, Busy
    <2> QED
        BY <1>2, <2>3 DEF OnInv
<1>5. CASE ListExists
    <2> DEFINE up(r) == [r EXCEPT !.online = IF r.addr = First THEN First \in present ELSE @]
    <2>1. /\ phase = "exists" /\ todo' = todo \ {First} /\ rows' = {up(r) : r \in rows}
          /\ phase' = (IF todo' = {} THEN "listed" ELSE "hash")
        BY <1>5 DEF ListExists
    <2>2. \A r \in rows : /\ up(r).addr = r.addr /\ up(r).groups = r.groups
                          /\ (r.addr # First => up(r).online = r.online)
                          /\ (r.addr = First => up(r).online = (First \in present))
        BY DEF IInv, TypeOK, Row
    <2> HIDE DEF up
    <2>3. \A a \in steadyOn : ReadOnline(a) /\ a # First => ReadOnline(a)'
        BY <1>1, <2>1, <2>2 DEF ReadOnline
    <2>4. ASSUME NEW a \in steadyOn, a = First PROVE ReadOnline(a)'
        <3>1. ReadRow(a) /\ a \in present
            BY <1>1, <2>1, <2>4 DEF IInv, TypeOK, SteadyIsRead, OnInv, SteadyOnIsRead
        <3>2. PICK r \in rows : r.addr = a /\ r.groups = row[a]
            BY <3>1 DEF ReadRow
        <3>3. up(r) \in rows' /\ up(r).addr = a /\ up(r).groups = row'[a]
            BY <1>1, <2>1, <2>2, <3>2
        <3>4. up(r).online
            BY <2>2, <2>4, <3>1, <3>2
        <3> QED
            BY <3>3, <3>4 DEF ReadOnline
    <2>5. \A a \in steadyOn : a \in todo' \/ ReadOnline(a)'
        BY <2>1, <2>3, <2>4 DEF OnInv, SteadyOnIsRead
    <2> QED
        BY <1>1, <1>2, <2>1, <2>5 DEF OnInv, SteadyOnIsRead, Busy
<1> QED
    BY <1>2, <1>3, <1>4, <1>5 DEF OnInv

LEMMA OnFanOut ==
    ASSUME IInv, OnInv, FanOut
    PROVE  OnInv'
<1>1. /\ UNCHANGED <<row, present, hearing, call, rows, reply, heard, steadyOn, ever>>
      /\ phase = "listed" /\ phase' = "publish" /\ todo' = Eligible
    BY DEF FanOut, directory, history
<1>2. ASSUME NEW a \in steadyOn \ {Me}, Addressed(a) PROVE a \in Eligible
    <2>1. PICK r \in rows : r.addr = a /\ r.groups = row[a] /\ r.online
        BY <1>1 DEF OnInv, SteadyOnIsRead, ReadOnline
    <2>2. visible(a[1], row[a])
        BY <1>1 DEF IInv, TypeOK, SteadyIsThere, Visible, Busy
    <2>3. InScope(r) /\ r.addr[4] = call.project /\ r \in VisibleRows
        BY <1>2, <2>1, <2>2 DEF Addressed, InScope, VisibleRows
    <2> QED
        BY <2>1, <2>3 DEF Eligible
<1> QED
    BY <1>1, <1>2 DEF OnInv, SteadyOnIsRead, SteadyOnIsTold, Targets, Addressed, Busy

LEMMA OnPublish ==
    ASSUME IInv, OnInv, Publish \/ Published
    PROVE  OnInv'
<1>1. /\ UNCHANGED <<row, present, hearing, call, rows, steadyOn>>
      /\ phase = "publish" /\ phase' \in {"publish", "done"}
      /\ \/ phase' = "publish" /\ todo' = todo \ {First}
            /\ heard' = heard \cup ({First} \cap hearing)
         \/ phase' = "done" /\ todo = {} /\ heard' = heard
    BY DEF Publish, Published, directory, history
<1>2. steadyOn \subseteq hearing
    BY <1>1 DEF OnInv, SteadyOnIsRead, Busy
<1> QED
    BY <1>1, <1>2 DEF OnInv, SteadyOnIsRead, SteadyOnIsTold, FannedOut, Targets, Addressed, Busy

LEMMA OnOthers ==
    ASSUME IInv, OnInv,
           (\E c \in Calls : Start(c)) \/ ResolveReference \/ CheckRate \/ ChatStore
               \/ Roster \/ Ends \/ UNCHANGED vars
    PROVE  OnInv'
<1>1. CASE UNCHANGED vars
    BY <1>1 DEF vars, OnInv, SteadyOnIsRead, SteadyOnIsTold, ReadOnline, Busy, FannedOut,
                Answered, Targets, Addressed
<1>2. CASE Ends
    BY <1>2 DEF Ends, OnInv, SteadyOnIsRead, SteadyOnIsTold, Busy, NoCall
<1>3. CASE \E c \in Calls : Start(c)
    BY <1>3 DEF Start, Refuse, directory, OnInv, SteadyOnIsRead, SteadyOnIsTold, Busy,
                FannedOut, Answered
<1>4. CASE ResolveReference \/ CheckRate \/ ChatStore \/ Roster
    <2>1. /\ UNCHANGED <<present, hearing, steadyOn, call>>
          /\ phase' \in {"done", "rate", "store", "members", "publish"}
          /\ (phase' = "publish" => call.op = "chat")
          /\ (call.op = "announce" /\ phase' = "done" => reply'.code = "message_rate_exceeded")
          /\ Busy
        BY <1>4 DEF ResolveReference, CheckRate, ChatStore, Roster, Refuse, directory, history,
                    Busy, IInv
    <2> QED
        BY <2>1 DEF OnInv, SteadyOnIsRead, SteadyOnIsTold, FannedOut, Answered, Busy
<1> QED
    BY <1>1, <1>2, <1>3, <1>4

LEMMA NextKeeps ==
    ASSUME IInv, [Next]_vars
    PROVE  IInv'
<1>1. CASE UNCHANGED vars
    BY <1>1 DEF vars, IInv, TypeOK, ReadWasVisible, SteadyIsThere, Visible, Busy, SteadyIsRead,
                ReadRow, First, ReadOnce, TargetsWereVisible, TargetIsTheOne, Targets,
                ShortestUnique
<1> QED
    BY <1>1, MovesKeep, StartKeeps, ListMembersKeeps, ListHashKeeps, ListExistsKeeps,
       ResolveKeeps, CheckRateKeeps, ChatStoreKeeps, FanOutKeeps, PublishKeeps, AnswerKeeps,
       EndsKeeps DEF Next

-----------------------------------------------------------------------------
LEMMA OnKeeps ==
    ASSUME IInv, OnInv, [Next]_vars
    PROVE  OnInv'
BY OnMoves, OnListing, OnFanOut, OnPublish, OnOthers DEF Next

(* The inductive invariant holds (ops.py, store.py:55-66).                    *)
THEOREM DirectoryInvariantHolds == Spec => []IInv
<1> QED
    BY InitEstablishes, NextKeeps, PTL DEF Spec

(* Every variable has its type; a listing has one row per agent.              *)
THEOREM DirectoryTypeCorrect == Spec => []TypeOK
<1>1. IInv => TypeOK
    BY DEF IInv
<1> QED
    BY <1>1, DirectoryInvariantHolds, PTL

(* Whoever gets something from a caller was visible to it at some moment of   *)
(* the request (identity.py:40-42).                                           *)
THEOREM OnlyVisibleHearHolds == Spec => []OnlyVisibleHear
<1>1. IInv => OnlyVisibleHear
    BY DEF IInv, TargetsWereVisible, OnlyVisibleHear
<1> QED
    BY <1>1, DirectoryInvariantHolds, PTL

(* A chat is never stored for one of several agents that match and were there *)
(* all along (ops.py:19-29).                                                  *)
THEOREM NoArbitraryDeliveryHolds == Spec => []NoArbitraryDelivery
<1>1. IInv => NoArbitraryDelivery
    BY DEF IInv, TargetIsTheOne, NoArbitraryDelivery
<1> QED
    BY <1>1, DirectoryInvariantHolds, PTL

(* A reference that fits one agent only is never refused as unknown or        *)
(* ambiguous (ops.py:19-29).                                                  *)
THEOREM ShortestUniqueHolds == Spec => []ShortestUnique
<1>1. IInv => ShortestUnique
    BY DEF IInv
<1> QED
    BY <1>1, DirectoryInvariantHolds, PTL

(* Everyone addressed who was listed, visible, present and listening all      *)
(* along has an announcement once it is answered (ops.py:134-141).            *)
THEOREM SteadyHearHolds == Spec => []SteadyHear
<1>1. Init => OnInv
    BY OnInit
<1>2. IInv /\ OnInv /\ [Next]_vars => OnInv'
    BY OnKeeps
<1>3. OnInv => SteadyHear
    BY DEF OnInv, SteadyOnIsTold, FannedOut, SteadyHear, Answered, Targets
<1> QED
    BY <1>1, <1>2, <1>3, DirectoryInvariantHolds, PTL DEF Spec

-----------------------------------------------------------------------------
(* A roster accounts for everyone.                                            *)

Few ==
    /\ IsFiniteSet(listed) /\ IsFiniteSet(DOMAIN row) /\ IsFiniteSet(rows)
    /\ IsFiniteSet(steady) /\ IsFiniteSet(ever)

RosterInv ==
    /\ Few
    /\ phase \in {"rate", "store", "publish"} => call.op # "roster"
    /\ RosterAccounts

LEMMA FewStep ==
    ASSUME IInv, Few, [Next]_vars
    PROVE  Few'
<1>1. ASSUME NEW a \in Agents, Moves(a) PROVE Few'
    <2>1. IsFiniteSet(listed')
        <3>1. IsFiniteSet(listed \cup {a}) /\ IsFiniteSet(listed \ {a})
            BY FS_AddElement, FS_Subset DEF Few
        <3> QED
            BY <1>1, <3>1 DEF Few, Moves, Register, TouchPresence, Subscribe, Disconnect,
                              PresenceEnds, RowExpires, Unlist
    <2>2. steady' \subseteq steady /\ rows' = rows
        BY <1>1, MoveFacts DEF IInv, Remember, history, request
    <2>3. IsFiniteSet(DOMAIN row')
        <3>1. IsFiniteSet(DOMAIN row \cup {a}) /\ IsFiniteSet(DOMAIN row \ {a})
            BY FS_AddElement, FS_Subset DEF Few
        <3> QED
            BY <1>1, <3>1 DEF Few, Moves, Register, TouchPresence, Subscribe, Disconnect,
                              PresenceEnds, RowExpires, Unlist
    <2>4. IsFiniteSet(ever')
        <3>1. ever' = ever \cup Visible' \/ ever' = ever
            BY <1>1, MoveFacts DEF IInv, Remember, history
        <3>2. Visible' \subseteq DOMAIN row'
            BY DEF Visible
        <3>3. IsFiniteSet(Visible')
            BY <2>3, <3>2, FS_Subset
        <3>4. IsFiniteSet(ever \cup Visible')
            BY <3>3, FS_Union DEF Few
        <3> QED
            BY <3>1, <3>4 DEF Few
    <2> QED
        BY <2>1, <2>2, <2>3, <2>4, FS_Subset DEF Few
<1>2. ASSUME NEW c \in Calls, Start(c) PROVE Few'
    <2>1. /\ listed' = listed /\ row' = row /\ rows' = rows /\ steady' \subseteq listed
          /\ ever' \subseteq DOMAIN row
        BY <1>2 DEF Start, directory, Visible
    <2> QED
        BY <2>1, FS_Subset DEF Few
<1>3. ASSUME ListHash PROVE Few'
    <2>1. UNCHANGED <<listed, row, steady, ever>>
        BY <1>3 DEF ListHash, directory, history
    <2> DEFINE entry == [addr |-> First, groups |-> row[First], online |-> FALSE]
    <2>2. rows' = rows \/ rows' = rows \cup {entry}
        BY <1>3 DEF ListHash
    <2> HIDE DEF entry
    <2> QED
        BY <2>1, <2>2, FS_AddElement DEF Few
<1>4. ASSUME ListExists PROVE Few'
    <2>1. UNCHANGED <<listed, row, steady, ever>>
        BY <1>4 DEF ListExists, directory, history
    <2> DEFINE up(r) == [r EXCEPT !.online = IF r.addr = First THEN First \in present ELSE @]
    <2>2. rows' = {up(r) : r \in rows}
        BY <1>4 DEF ListExists
    <2> HIDE DEF up
    <2> DEFINE f == [r \in rows |-> up(r)]
    <2>3. f \in Surjection(rows, rows')
        BY <2>2 DEF Surjection
    <2> HIDE DEF f
    <2> QED
        BY <2>1, <2>3, FS_Surjection DEF Few
<1>5. ASSUME Ends PROVE Few'
    BY <1>5, FS_EmptySet DEF Ends, directory, Few
<1>6. ASSUME \/ ListMembers \/ ResolveReference \/ CheckRate \/ ChatStore
             \/ FanOut \/ Publish \/ Published \/ Roster \/ UNCHANGED vars
      PROVE  Few'
    <2>1. UNCHANGED <<listed, row, rows, steady, ever>>
        BY <1>6 DEF ListMembers, ResolveReference, CheckRate, ChatStore, FanOut, Publish,
                    Published, Roster, directory, history, vars
    <2> QED
        BY <2>1 DEF Few
<1> QED
    BY <1>1, <1>2, <1>3, <1>4, <1>5, <1>6 DEF Next

\* Agents with a row each of their own, and rows of agents of their own.
LEMMA CountedByRows ==
    ASSUME NEW D, NEW H, IsFiniteSet(H),
           \A a \in D : \E r \in H : r.addr = a
    PROVE  IsFiniteSet(D) /\ Cardinality(D) <= Cardinality(H)
<1> DEFINE f == [a \in D |-> CHOOSE r \in H : r.addr = a]
<1>1. \A a \in D : f[a] \in H /\ f[a].addr = a
    OBVIOUS
<1>2. f \in Injection(D, H)
    <2>1. f \in [D -> H]
        BY <1>1
    <2>2. \A a, b \in D : f[a] = f[b] => a = b
        BY <1>1
    <2> HIDE DEF f
    <2> QED
        BY <2>1, <2>2 DEF Injection, IsInjective
<1> HIDE DEF f
<1> QED
    BY <1>2, FS_Injection

LEMMA CountsAgents ==
    ASSUME NEW D, NEW H, IsFiniteSet(D),
           \A r \in H : r.addr \in D,
           \A x, y \in H : x.addr = y.addr => x = y
    PROVE  IsFiniteSet(H) /\ Cardinality(H) <= Cardinality(D)
<1> DEFINE f == [r \in H |-> r.addr]
<1>1. f \in [H -> D] /\ \A x, y \in H : f[x] = f[y] => x = y
    OBVIOUS
<1>2. f \in Injection(H, D)
    <2> HIDE DEF f
    <2> QED
        BY <1>1 DEF Injection, IsInjective
<1> HIDE DEF f
<1> QED
    BY <1>2, FS_Injection

LEMMA RosterAnswers ==
    ASSUME IInv, Few, Roster
    PROVE  RosterAccounts'
<1> DEFINE found == {r \in VisibleRows : Passes(r.addr, r.groups)}
<1> DEFINE kept == {r \in found : call.status \in {"all", Status(r)}}
<1> DEFINE rest == {r \in found \ kept : r.addr # Me}
<1>1. UNCHANGED <<row, call, rows, steady, ever>> /\ phase = "listed"
    BY DEF Roster, directory, history
<1>2. SUFFICES ASSUME reply'.code = "ok" PROVE RosterAccounts'
    BY DEF RosterAccounts, Answered
<1>3. reply' = [code |-> "ok", agents |-> {r.addr : r \in kept}, hidden |-> HiddenCounts(rest)]
    BY <1>2 DEF Roster, Refuse
<1>4. reply'.agents = {r.addr : r \in kept} /\ reply'.hidden = HiddenCounts(rest)
    BY <1>3
<1>5. ASSUME NEW a \in steady, Passes(a, row[a])
      PROVE  \E r \in found : r.addr = a
    <2>1. PICK r \in rows : r.addr = a /\ r.groups = row[a]
        BY <1>1 DEF IInv, SteadyIsRead, ReadRow
    <2>2. visible(a[1], row[a])
        BY <1>1 DEF IInv, SteadyIsThere, Busy, Visible
    <2> QED
        BY <1>5, <2>1, <2>2 DEF VisibleRows
<1>6. /\ rest \subseteq rows /\ kept \subseteq rows
      /\ \A r \in rest : r \notin kept /\ r.addr # Me /\ r.addr \in ever
    BY DEF VisibleRows, IInv, ReadWasVisible
<1>7. \A x, y \in rows : x.addr = y.addr => x = y
    BY DEF IInv, TypeOK
<1>8. \A a : Passes(a, row[a])' <=> Passes(a, row[a])
    BY <1>1 DEF Passes
<1>9. \A r \in found : r \in kept \/ r.addr = Me \/ r \in rest
    OBVIOUS
<1> HIDE DEF found, kept, rest
<1>10. ASSUME NEW p
       PROVE  LET NoRow(S) == {a \in S \ {Me} : a[4] = p /\ a \notin reply'.agents}
                  count == IF p \in DOMAIN reply'.hidden THEN reply'.hidden[p] ELSE 0
              IN /\ Cardinality({a \in NoRow(steady) : Passes(a, row[a])}) <= count
                 /\ count <= Cardinality(NoRow(ever))
    <2> DEFINE due == {a \in steady \ {Me} : a[4] = p /\ a \notin reply'.agents
                                              /\ Passes(a, row[a])}
    <2> DEFINE unseen == {a \in ever \ {Me} : a[4] = p /\ a \notin reply'.agents}
    <2> DEFINE count == IF p \in DOMAIN reply'.hidden THEN reply'.hidden[p] ELSE 0
    <2> DEFINE H == {r \in rest : r.addr[4] = p}
    <2>1. IsFiniteSet(H) /\ IsFiniteSet(unseen)
        <3>1. H \subseteq rows /\ unseen \subseteq ever
            BY <1>6
        <3> HIDE DEF H, unseen
        <3> QED
            BY <3>1, FS_Subset DEF Few
    <2>2. count = Cardinality(H)
        <3>1. CASE \E r \in rest : r.addr[4] = p
            <4>1. p \in DOMAIN HiddenCounts(rest) /\ HiddenCounts(rest)[p] = Cardinality(H)
                BY <3>1 DEF HiddenCounts
            <4> QED
                BY <1>4, <4>1
        <3>2. CASE ~ \E r \in rest : r.addr[4] = p
            <4>1. H = {} /\ p \notin DOMAIN HiddenCounts(rest)
                BY <3>2 DEF HiddenCounts
            <4> QED
                BY <1>4, <4>1, FS_EmptySet
        <3> QED
            BY <3>1, <3>2
    <2>3. \A a \in due : \E r \in H : r.addr = a
        <3> SUFFICES ASSUME NEW a \in due PROVE \E r \in H : r.addr = a
            OBVIOUS
        <3>1. PICK r \in found : r.addr = a
            BY <1>5
        <3>2. r \notin kept
            BY <1>4, <3>1
        <3>3. r \in rest
            BY <1>9, <3>1, <3>2
        <3> QED
            BY <3>1, <3>3
    <2>4. /\ \A r \in H : r.addr \in unseen
          /\ \A x, y \in H : x.addr = y.addr => x = y
        <3> SUFFICES ASSUME NEW r \in H PROVE r.addr \notin reply'.agents
            BY <1>6, <1>7
        <3> QED
            BY <1>4, <1>6, <1>7
    <2> HIDE DEF H, count
    <2>5. Cardinality(due) <= count
        <3> HIDE DEF due
        <3> QED
            BY <2>1, <2>2, <2>3, CountedByRows
    <2>6. count <= Cardinality(unseen)
        <3> HIDE DEF unseen
        <3> QED
            BY <2>1, <2>2, <2>4, CountsAgents
    <2>7. {a \in {b \in steady \ {Me} : b[4] = p /\ b \notin reply'.agents} : Passes(a, row[a])}
              = due
        OBVIOUS
    <2> HIDE DEF due
    <2> QED
        BY <2>5, <2>6, <2>7 DEF count
<1>11. \A a \in steady : Passes(a, row[a])' <=> Passes(a, row[a])
    BY <1>8
<1> QED
    BY <1>1, <1>11, <1>10 DEF RosterAccounts

LEMMA RosterStep ==
    ASSUME IInv, RosterInv, [Next]_vars
    PROVE  RosterInv'
<1>1. Few'
    BY FewStep DEF RosterInv
<1>2. CASE Roster
    <2>1. phase' = "done"
        BY <1>2 DEF Roster, Refuse
    <2> QED
        BY <1>1, <1>2, <2>1, RosterAnswers DEF RosterInv
<1>3. CASE UNCHANGED vars
    <2>1. RosterAccounts'
        BY <1>3 DEF vars, RosterInv, RosterAccounts, Answered, Passes
    <2> QED
        BY <1>1, <1>3, <2>1 DEF vars, RosterInv
<1>4. CASE ~Roster /\ Next
    <2>1. /\ ~Answered("roster")'
          /\ phase' \in {"rate", "store", "publish"} => call'.op # "roster"
        <3>1. ASSUME NEW a \in Agents, Moves(a)
              PROVE  phase' = phase /\ call' = call /\ phase # "done"
            BY <3>1, MoveFacts DEF IInv, request
        <3>2. ASSUME NEW c \in Calls, Start(c)
              PROVE  /\ phase' = "done" => call'.op # "roster"
                     /\ phase' \in {"rate", "store", "publish"} => call'.op # "roster"
            BY <3>2 DEF Start, Refuse
        <3>3. CASE ListMembers \/ ListHash \/ ListExists \/ Ends
            BY <3>3 DEF ListMembers, ListHash, ListExists, Ends, Answered
        <3>4. CASE ResolveReference \/ CheckRate \/ ChatStore \/ FanOut \/ Publish \/ Published
            BY <3>4 DEF ResolveReference, CheckRate, ChatStore, FanOut, Publish, Published,
                        Refuse, RosterInv, Answered, IInv
        <3> QED
            BY <1>4, <3>1, <3>2, <3>3, <3>4 DEF Next, RosterInv, Answered
    <2> QED
        BY <1>1, <2>1 DEF RosterInv, RosterAccounts
<1> QED
    BY <1>2, <1>3, <1>4

(* "never silently" (ops.py:88): a roster counts, project by project, no less *)
(* than the agents there all along that it was asked for and gives no row, no *)
(* more than those seen at some moment that it gives no row.                  *)
THEOREM RosterAccountsHolds == Spec => []RosterAccounts
<1>1. Init => RosterInv
    <2> SUFFICES ASSUME Init PROVE RosterInv
        OBVIOUS
    <2>1. IsFiniteSet({}) /\ IsFiniteSet({Me})
        BY FS_EmptySet, FS_Singleton
    <2>2. Few
        BY <2>1 DEF Init, Few
    <2> QED
        BY <2>2 DEF Init, RosterInv, RosterAccounts, Answered
<1>2. IInv /\ RosterInv /\ [Next]_vars => RosterInv'
    BY RosterStep
<1>3. RosterInv => RosterAccounts
    BY DEF RosterInv
<1> QED
    BY <1>1, <1>2, <1>3, DirectoryInvariantHolds, PTL DEF Spec
=============================================================================
