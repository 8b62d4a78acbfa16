--------------------------- MODULE PresenceProofs ----------------------------
(* Theorems about module Presence, for any number of streams and reapers and  *)
(* any times.                                                                 *)
EXTENDS Presence, TLAPS

Newest(states) == opened # 0 /\ pc[opened] \in states

\* Streams open in order, only the newest is read, and none touches presence
\* before it has registered.
StreamOrder ==
    /\ current \in {0, opened}
    /\ \A c \in Conns : c > opened => pc[c] = "unopened"
    /\ lastTouch # 0 => pc[lastTouch] \notin {"unopened", "register", "touch"}

\* A reaper tests a hash that is gone: one that is there was written after it.
LiveIsListed == agentTtl > 0 => raced \/ (inAgents /\ ~ReaperBusy)

RegisteredIsLive ==
    Newest(LoopStates \cup {"touch", "subscribe"}) => outlived \/ agentTtl > 0

\* From a stream's touch to its next ping there are two waits at most.
PresenceLasts ==
    Newest(LoopStates \cup {"subscribe"}) /\ lastTouch = opened /\ ~struck =>
        /\ owner = opened
        /\ presenceTtl + sincePing[opened]
             + (IF pc[opened] = "subscribe" THEN 0 ELSE PingEvery + PingSlack) >= PresenceTtl

HiddenSincePing ==
    /\ InLoop(current) => hiddenFor <= sincePing[current]
    /\ current # 0 /\ pc[current] = "subscribe" => hiddenFor = 0

\* Mail stored between a reaper's DEL and its SREM.
DeletedIsEmpty ==
    inboxKey /\ (\E r \in Reapers : reaper[r] = "deleted") => raced \/ lateStore

ListInv == LiveIsListed /\ RegisteredIsLive /\ DeletedIsEmpty /\ OrphanOnlyIf

IInv ==
    /\ TypeOK
    /\ StreamOrder
    /\ ListInv
    /\ PresenceLasts
    /\ HiddenSincePing
    /\ HiddenAtMostOnePing

LEMMA InitEstablishes == Init => IInv
<1> SUFFICES ASSUME Init PROVE IInv
    OBVIOUS
<1> USE PresenceAssumption DEF PresenceAssumption, Init
<1>1. TypeOK
    <2>1. pc \in [Conns -> PcStates]
        BY DEF PcStates
    <2>2. sincePing \in [Conns -> 0..(PingEvery + PingSlack)]
        OBVIOUS
    <2>3. reaper \in [Reapers -> {"idle", "listed", "found", "deleted"}]
        OBVIOUS
    <2>4. 0 \in 0..Retention /\ 0 \in 0..PresenceTtl /\ 0 \in 0..MaxConns /\ 0 \in 0..0
        OBVIOUS
    <2> QED
        BY <2>1, <2>2, <2>3, <2>4 DEF TypeOK
<1>2. StreamOrder /\ ListInv
    BY DEF StreamOrder, ListInv, LiveIsListed, RegisteredIsLive, DeletedIsEmpty, OrphanOnlyIf,
           Newest
<1>3. PresenceLasts /\ HiddenSincePing /\ HiddenAtMostOnePing
    BY DEF PresenceLasts, HiddenSincePing, HiddenAtMostOnePing, Newest, InLoop, Conns
<1> QED
    BY <1>1, <1>2, <1>3 DEF IInv

-----------------------------------------------------------------------------
LEMMA RegisterKeeps ==
    ASSUME IInv, NEW c \in Conns, Register(c)
    PROVE  IInv'
<1> USE PresenceAssumption DEF PresenceAssumption, Register, WriteAgent, presence
<1>1. c \in Nat /\ c # 0 /\ c <= MaxConns /\ (c <= opened \/ pc[c] = "unopened")
    BY DEF IInv, TypeOK, StreamOrder, Conns
<1>2. \A d \in Conns : pc'[d] = IF d = c THEN "touch" ELSE pc[d]
    BY DEF IInv, TypeOK
<1>3. opened \in Nat /\ (opened # 0 => opened \in Conns)
    BY DEF IInv, TypeOK, Conns
<1>4. TypeOK'
    <2>1. raced' \in BOOLEAN /\ outlived' \in BOOLEAN
        BY DEF ReaperBusy
    <2>2. pc' \in [Conns -> PcStates] /\ agentTtl' \in 0..Retention
        BY DEF IInv, TypeOK, PcStates, LoopStates, SetupStates
    <2> QED
        BY <2>1, <2>2 DEF IInv, TypeOK
<1>5. StreamOrder'
    BY <1>1, <1>2, <1>3 DEF IInv, TypeOK, StreamOrder, Conns, LoopStates, SetupStates
<1>6. LiveIsListed'
    BY <1>1 DEF IInv, TypeOK, ListInv, LiveIsListed, ReaperBusy
<1>7. RegisteredIsLive'
    BY <1>1, <1>2, <1>3 DEF IInv, TypeOK, ListInv, RegisteredIsLive, Newest, LoopStates, SetupStates
<1>8. DeletedIsEmpty' /\ OrphanOnlyIf'
    BY <1>1 DEF IInv, ListInv, DeletedIsEmpty, OrphanOnlyIf, ReaperBusy
<1>9. PresenceLasts'
    BY <1>1, <1>2, <1>3 DEF IInv, TypeOK, StreamOrder, PresenceLasts, Newest, LoopStates, SetupStates
<1>10. HiddenSincePing' /\ HiddenAtMostOnePing'
    BY <1>1, <1>2, <1>3 DEF IInv, TypeOK, StreamOrder, HiddenSincePing, HiddenAtMostOnePing, InLoop,
                            LoopStates, SetupStates
<1> QED
    BY <1>4, <1>5, <1>6, <1>7, <1>8, <1>9, <1>10 DEF IInv, ListInv

LEMMA TouchKeeps ==
    ASSUME IInv, NEW c \in Conns, Touch(c)
    PROVE  IInv'
<1> USE PresenceAssumption DEF PresenceAssumption, Touch, WritePresence, directory
<1>1. c \in Nat /\ c # 0 /\ c <= MaxConns /\ (c <= opened \/ pc[c] = "unopened")
    BY DEF IInv, TypeOK, StreamOrder, Conns
<1>2. \A d \in Conns : pc'[d] = IF d = c THEN "subscribe" ELSE pc[d]
    BY DEF IInv, TypeOK
<1>3. opened \in Nat /\ (opened # 0 => opened \in Conns)
    BY DEF IInv, TypeOK, Conns
<1>4. TypeOK'
    <2>1. pc' \in [Conns -> PcStates]
        BY DEF IInv, TypeOK, PcStates, LoopStates, SetupStates
    <2>2. /\ owner' \in 0..MaxConns /\ presenceTtl' \in 0..PresenceTtl
          /\ owner' = 0 <=> presenceTtl' = 0
        BY <1>1
    <2>3. /\ sincePing' \in [Conns -> 0..(PingEvery + PingSlack)]
          /\ lastTouch' \in 0..MaxConns /\ hiddenFor' \in Nat
        BY <1>1 DEF IInv, TypeOK
    <2>4. pinged' \in BOOLEAN /\ struck' \in BOOLEAN
        OBVIOUS
    <2> QED
        BY <2>1, <2>2, <2>3, <2>4 DEF IInv, TypeOK
<1>5. StreamOrder'
    BY <1>1, <1>2, <1>3 DEF IInv, TypeOK, StreamOrder, Conns, LoopStates, SetupStates
<1>6. LiveIsListed'
    BY <1>1 DEF IInv, TypeOK, ListInv, LiveIsListed, ReaperBusy
<1>7. RegisteredIsLive'
    BY <1>1, <1>2, <1>3 DEF IInv, TypeOK, ListInv, RegisteredIsLive, Newest, LoopStates, SetupStates
<1>8. DeletedIsEmpty' /\ OrphanOnlyIf'
    BY <1>1 DEF IInv, ListInv, DeletedIsEmpty, OrphanOnlyIf, ReaperBusy
<1>9. PresenceLasts'
    BY <1>1, <1>2, <1>3 DEF IInv, TypeOK, StreamOrder, PresenceLasts, Newest, LoopStates, SetupStates
<1>10. HiddenSincePing' /\ HiddenAtMostOnePing'
    BY <1>1, <1>2, <1>3 DEF IInv, TypeOK, StreamOrder, HiddenSincePing, HiddenAtMostOnePing, InLoop,
                            LoopStates, SetupStates
<1> QED
    BY <1>4, <1>5, <1>6, <1>7, <1>8, <1>9, <1>10 DEF IInv, ListInv

LEMMA EnterLoopKeeps ==
    ASSUME IInv, NEW c \in Conns, EnterLoop(c)
    PROVE  IInv'
<1> USE PresenceAssumption DEF PresenceAssumption, EnterLoop, directory, presence, history
<1>1. c \in Nat /\ c # 0 /\ c <= MaxConns /\ (c <= opened \/ pc[c] = "unopened")
    BY DEF IInv, TypeOK, StreamOrder, Conns
<1>2. \A d \in Conns : pc'[d] = IF d = c THEN "loop" ELSE pc[d]
    BY DEF IInv, TypeOK
<1>3. opened \in Nat /\ (opened # 0 => opened \in Conns)
    BY DEF IInv, TypeOK, Conns
<1>4. TypeOK'
    BY <1>1 DEF IInv, TypeOK, PcStates, LoopStates, SetupStates
<1>5. StreamOrder'
    BY <1>1, <1>2, <1>3 DEF IInv, TypeOK, StreamOrder, Conns, LoopStates, SetupStates
<1>6. LiveIsListed'
    BY <1>1 DEF IInv, TypeOK, ListInv, LiveIsListed, ReaperBusy
<1>7. RegisteredIsLive'
    BY <1>1, <1>2, <1>3 DEF IInv, TypeOK, ListInv, RegisteredIsLive, Newest, LoopStates, SetupStates
<1>8. DeletedIsEmpty' /\ OrphanOnlyIf'
    BY <1>1 DEF IInv, ListInv, DeletedIsEmpty, OrphanOnlyIf, ReaperBusy
<1>9. PresenceLasts'
    BY <1>1, <1>2, <1>3 DEF IInv, TypeOK, StreamOrder, PresenceLasts, Newest, LoopStates, SetupStates
<1>10. HiddenSincePing' /\ HiddenAtMostOnePing'
    BY <1>1, <1>2, <1>3 DEF IInv, TypeOK, StreamOrder, HiddenSincePing, HiddenAtMostOnePing, InLoop,
                            LoopStates, SetupStates
<1> QED
    BY <1>4, <1>5, <1>6, <1>7, <1>8, <1>9, <1>10 DEF IInv, ListInv

LEMMA ResolvedKeeps ==
    ASSUME IInv, NEW c \in Conns, NEW changed \in BOOLEAN, PingResolved(c, changed)
    PROVE  IInv'
<1> USE PresenceAssumption DEF PresenceAssumption, PingResolved, directory, presence, history
<1>1. c \in Nat /\ c # 0 /\ c <= MaxConns /\ (c <= opened \/ pc[c] = "unopened")
    BY DEF IInv, TypeOK, StreamOrder, Conns
<1>2. \A d \in Conns : pc'[d] = IF d = c THEN (IF changed THEN "reregister" ELSE "retouch") ELSE pc[d]
    BY DEF IInv, TypeOK
<1>3. opened \in Nat /\ (opened # 0 => opened \in Conns)
    BY DEF IInv, TypeOK, Conns
<1>4. TypeOK'
    BY <1>1 DEF IInv, TypeOK, PcStates, LoopStates, SetupStates
<1>5. StreamOrder'
    BY <1>1, <1>2, <1>3 DEF IInv, TypeOK, StreamOrder, Conns, LoopStates, SetupStates
<1>6. LiveIsListed'
    BY <1>1 DEF IInv, TypeOK, ListInv, LiveIsListed, ReaperBusy
<1>7. RegisteredIsLive'
    BY <1>1, <1>2, <1>3 DEF IInv, TypeOK, ListInv, RegisteredIsLive, Newest, LoopStates, SetupStates
<1>8. DeletedIsEmpty' /\ OrphanOnlyIf'
    BY <1>1 DEF IInv, ListInv, DeletedIsEmpty, OrphanOnlyIf, ReaperBusy
<1>9. PresenceLasts'
    BY <1>1, <1>2, <1>3 DEF IInv, TypeOK, StreamOrder, PresenceLasts, Newest, LoopStates, SetupStates
<1>10. HiddenSincePing' /\ HiddenAtMostOnePing'
    BY <1>1, <1>2, <1>3 DEF IInv, TypeOK, StreamOrder, HiddenSincePing, HiddenAtMostOnePing, InLoop,
                            LoopStates, SetupStates
<1> QED
    BY <1>4, <1>5, <1>6, <1>7, <1>8, <1>9, <1>10 DEF IInv, ListInv

LEMMA PingRegisterKeeps ==
    ASSUME IInv, NEW c \in Conns, PingRegister(c)
    PROVE  IInv'
<1> USE PresenceAssumption DEF PresenceAssumption, PingRegister, WriteAgent, presence
<1>1. c \in Nat /\ c # 0 /\ c <= MaxConns /\ (c <= opened \/ pc[c] = "unopened")
    BY DEF IInv, TypeOK, StreamOrder, Conns
<1>2. \A d \in Conns : pc'[d] = IF d = c THEN "retouch" ELSE pc[d]
    BY DEF IInv, TypeOK
<1>3. opened \in Nat /\ (opened # 0 => opened \in Conns)
    BY DEF IInv, TypeOK, Conns
<1>4. TypeOK'
    <2>1. raced' \in BOOLEAN /\ outlived' \in BOOLEAN
        BY DEF ReaperBusy
    <2>2. pc' \in [Conns -> PcStates] /\ agentTtl' \in 0..Retention
        BY DEF IInv, TypeOK, PcStates, LoopStates, SetupStates
    <2> QED
        BY <2>1, <2>2 DEF IInv, TypeOK
<1>5. StreamOrder'
    BY <1>1, <1>2, <1>3 DEF IInv, TypeOK, StreamOrder, Conns, LoopStates, SetupStates
<1>6. LiveIsListed'
    BY <1>1 DEF IInv, TypeOK, ListInv, LiveIsListed, ReaperBusy
<1>7. RegisteredIsLive'
    BY <1>1, <1>2, <1>3 DEF IInv, TypeOK, ListInv, RegisteredIsLive, Newest, LoopStates, SetupStates
<1>8. DeletedIsEmpty' /\ OrphanOnlyIf'
    BY <1>1 DEF IInv, ListInv, DeletedIsEmpty, OrphanOnlyIf, ReaperBusy
<1>9. PresenceLasts'
    BY <1>1, <1>2, <1>3 DEF IInv, TypeOK, StreamOrder, PresenceLasts, Newest, LoopStates, SetupStates
<1>10. HiddenSincePing' /\ HiddenAtMostOnePing'
    BY <1>1, <1>2, <1>3 DEF IInv, TypeOK, StreamOrder, HiddenSincePing, HiddenAtMostOnePing, InLoop,
                            LoopStates, SetupStates
<1> QED
    BY <1>4, <1>5, <1>6, <1>7, <1>8, <1>9, <1>10 DEF IInv, ListInv

LEMMA PingTouchKeeps ==
    ASSUME IInv, NEW c \in Conns, PingTouch(c)
    PROVE  IInv'
<1> USE PresenceAssumption DEF PresenceAssumption, PingTouch, WritePresence, directory
<1>1. c \in Nat /\ c # 0 /\ c <= MaxConns /\ (c <= opened \/ pc[c] = "unopened")
    BY DEF IInv, TypeOK, StreamOrder, Conns
<1>2. \A d \in Conns : pc'[d] = IF d = c THEN "loop" ELSE pc[d]
    BY DEF IInv, TypeOK
<1>3. opened \in Nat /\ (opened # 0 => opened \in Conns)
    BY DEF IInv, TypeOK, Conns
<1>4. TypeOK'
    <2>1. pc' \in [Conns -> PcStates]
        BY DEF IInv, TypeOK, PcStates, LoopStates, SetupStates
    <2>2. /\ owner' \in 0..MaxConns /\ presenceTtl' \in 0..PresenceTtl
          /\ owner' = 0 <=> presenceTtl' = 0
        BY <1>1
    <2>3. /\ sincePing' \in [Conns -> 0..(PingEvery + PingSlack)]
          /\ lastTouch' \in 0..MaxConns /\ hiddenFor' \in Nat
        BY <1>1 DEF IInv, TypeOK
    <2>4. pinged' \in BOOLEAN /\ struck' \in BOOLEAN
        OBVIOUS
    <2> QED
        BY <2>1, <2>2, <2>3, <2>4 DEF IInv, TypeOK
<1>5. StreamOrder'
    BY <1>1, <1>2, <1>3 DEF IInv, TypeOK, StreamOrder, Conns, LoopStates, SetupStates
<1>6. LiveIsListed'
    BY <1>1 DEF IInv, TypeOK, ListInv, LiveIsListed, ReaperBusy
<1>7. RegisteredIsLive'
    BY <1>1, <1>2, <1>3 DEF IInv, TypeOK, ListInv, RegisteredIsLive, Newest, LoopStates, SetupStates
<1>8. DeletedIsEmpty' /\ OrphanOnlyIf'
    BY <1>1 DEF IInv, ListInv, DeletedIsEmpty, OrphanOnlyIf, ReaperBusy
<1>9. PresenceLasts'
    BY <1>1, <1>2, <1>3 DEF IInv, TypeOK, StreamOrder, PresenceLasts, Newest, LoopStates, SetupStates
<1>10. HiddenSincePing' /\ HiddenAtMostOnePing'
    BY <1>1, <1>2, <1>3 DEF IInv, TypeOK, StreamOrder, HiddenSincePing, HiddenAtMostOnePing, InLoop,
                            LoopStates, SetupStates
<1> QED
    BY <1>4, <1>5, <1>6, <1>7, <1>8, <1>9, <1>10 DEF IInv, ListInv

LEMMA LeaveKeeps ==
    ASSUME IInv, NEW c \in Conns, Leave(c)
    PROVE  IInv'
<1> USE PresenceAssumption DEF PresenceAssumption, Leave, Unread, directory, presence, history
<1>1. c \in Nat /\ c # 0 /\ c <= MaxConns /\ (c <= opened \/ pc[c] = "unopened")
    BY DEF IInv, TypeOK, StreamOrder, Conns
<1>2. \A d \in Conns : pc'[d] = IF d = c THEN "closing" ELSE pc[d]
    BY DEF IInv, TypeOK
<1>3. opened \in Nat /\ (opened # 0 => opened \in Conns)
    BY DEF IInv, TypeOK, Conns
<1>4. TypeOK'
    BY <1>1 DEF IInv, TypeOK, PcStates, LoopStates, SetupStates
<1>5. StreamOrder'
    BY <1>1, <1>2, <1>3 DEF IInv, TypeOK, StreamOrder, Conns, LoopStates, SetupStates
<1>6. LiveIsListed'
    BY <1>1 DEF IInv, TypeOK, ListInv, LiveIsListed, ReaperBusy
<1>7. RegisteredIsLive'
    BY <1>1, <1>2, <1>3 DEF IInv, TypeOK, ListInv, RegisteredIsLive, Newest, LoopStates, SetupStates
<1>8. DeletedIsEmpty' /\ OrphanOnlyIf'
    BY <1>1 DEF IInv, ListInv, DeletedIsEmpty, OrphanOnlyIf, ReaperBusy
<1>9. PresenceLasts'
    BY <1>1, <1>2, <1>3 DEF IInv, TypeOK, StreamOrder, PresenceLasts, Newest, LoopStates, SetupStates
<1>10. HiddenSincePing' /\ HiddenAtMostOnePing'
    <2>1. current' # 0 => current' = current /\ current # c
        OBVIOUS
    <2>2. current' # 0 => current \in Conns /\ pc'[current] = pc[current]
        BY <1>2, <1>3, <2>1 DEF IInv, StreamOrder
    <2>3. HiddenSincePing'
        BY <2>1, <2>2 DEF IInv, HiddenSincePing, InLoop, Conns
    <2> QED
        BY <2>3 DEF IInv, HiddenAtMostOnePing
<1> QED
    BY <1>4, <1>5, <1>6, <1>7, <1>8, <1>9, <1>10 DEF IInv, ListInv

LEMMA ClearKeeps ==
    ASSUME IInv, NEW c \in Conns, ClearPresence(c)
    PROVE  IInv'
<1> USE PresenceAssumption DEF PresenceAssumption, ClearPresence, directory, history
<1>1. c \in Nat /\ c # 0 /\ c <= MaxConns /\ (c <= opened \/ pc[c] = "unopened")
    BY DEF IInv, TypeOK, StreamOrder, Conns
<1>2. \A d \in Conns : pc'[d] = IF d = c THEN "gone" ELSE pc[d]
    BY DEF IInv, TypeOK
<1>3. opened \in Nat /\ (opened # 0 => opened \in Conns)
    BY DEF IInv, TypeOK, Conns
<1>4. TypeOK'
    BY <1>1 DEF IInv, TypeOK, PcStates, LoopStates, SetupStates
<1>5. StreamOrder'
    BY <1>1, <1>2, <1>3 DEF IInv, TypeOK, StreamOrder, Conns, LoopStates, SetupStates
<1>6. LiveIsListed'
    BY <1>1 DEF IInv, TypeOK, ListInv, LiveIsListed, ReaperBusy
<1>7. RegisteredIsLive'
    BY <1>1, <1>2, <1>3 DEF IInv, TypeOK, ListInv, RegisteredIsLive, Newest, LoopStates, SetupStates
<1>8. DeletedIsEmpty' /\ OrphanOnlyIf'
    BY <1>1 DEF IInv, ListInv, DeletedIsEmpty, OrphanOnlyIf, ReaperBusy
<1>9. PresenceLasts'
    BY <1>1, <1>2, <1>3 DEF IInv, TypeOK, StreamOrder, PresenceLasts, Newest, LoopStates, SetupStates
<1>10. HiddenSincePing' /\ HiddenAtMostOnePing'
    BY <1>1, <1>2, <1>3 DEF IInv, TypeOK, StreamOrder, HiddenSincePing, HiddenAtMostOnePing, InLoop,
                            LoopStates, SetupStates
<1> QED
    BY <1>4, <1>5, <1>6, <1>7, <1>8, <1>9, <1>10 DEF IInv, ListInv

LEMMA VanishKeeps ==
    ASSUME IInv, NEW c \in Conns, Vanish(c)
    PROVE  IInv'
<1> USE PresenceAssumption DEF PresenceAssumption, Vanish, Unread, directory, presence, history
<1>1. c \in Nat /\ c # 0 /\ c <= MaxConns /\ (c <= opened \/ pc[c] = "unopened")
    BY DEF IInv, TypeOK, StreamOrder, Conns
<1>2. \A d \in Conns : pc'[d] = IF d = c THEN "gone" ELSE pc[d]
    BY DEF IInv, TypeOK
<1>3. opened \in Nat /\ (opened # 0 => opened \in Conns)
    BY DEF IInv, TypeOK, Conns
<1>4. TypeOK'
    BY <1>1 DEF IInv, TypeOK, PcStates, LoopStates, SetupStates
<1>5. StreamOrder'
    BY <1>1, <1>2, <1>3 DEF IInv, TypeOK, StreamOrder, Conns, LoopStates, SetupStates
<1>6. LiveIsListed'
    BY <1>1 DEF IInv, TypeOK, ListInv, LiveIsListed, ReaperBusy
<1>7. RegisteredIsLive'
    BY <1>1, <1>2, <1>3 DEF IInv, TypeOK, ListInv, RegisteredIsLive, Newest, LoopStates, SetupStates
<1>8. DeletedIsEmpty' /\ OrphanOnlyIf'
    BY <1>1 DEF IInv, ListInv, DeletedIsEmpty, OrphanOnlyIf, ReaperBusy
<1>9. PresenceLasts'
    BY <1>1, <1>2, <1>3 DEF IInv, TypeOK, StreamOrder, PresenceLasts, Newest, LoopStates, SetupStates
<1>10. HiddenSincePing' /\ HiddenAtMostOnePing'
    <2>1. current' # 0 => current' = current /\ current # c
        OBVIOUS
    <2>2. current' # 0 => current \in Conns /\ pc'[current] = pc[current]
        BY <1>2, <1>3, <2>1 DEF IInv, StreamOrder
    <2>3. HiddenSincePing'
        BY <2>1, <2>2 DEF IInv, HiddenSincePing, InLoop, Conns
    <2> QED
        BY <2>3 DEF IInv, HiddenAtMostOnePing
<1> QED
    BY <1>4, <1>5, <1>6, <1>7, <1>8, <1>9, <1>10 DEF IInv, ListInv

LEMMA OpenKeeps ==
    ASSUME IInv, Open
    PROVE  IInv'
<1> USE PresenceAssumption DEF PresenceAssumption, Open, directory, presence, history
<1>1. opened + 1 \in Conns /\ opened \in Nat
    BY DEF IInv, TypeOK, Conns
<1>2. \A d \in Conns : pc'[d] = IF d = opened + 1 THEN "register" ELSE pc[d]
    BY DEF IInv, TypeOK
<1>3. TypeOK'
    BY <1>1 DEF IInv, TypeOK, PcStates, SetupStates, Conns
<1>4. StreamOrder'
    <2>1. pc[opened + 1] = "unopened"
        BY <1>1 DEF IInv, StreamOrder
    <2>2. \A c \in Conns : c > opened' => pc'[c] = "unopened"
        BY <1>1, <1>2 DEF IInv, StreamOrder, Conns
    <2>3. lastTouch # 0 => lastTouch \in Conns /\ lastTouch # opened + 1
        BY <2>1 DEF IInv, TypeOK, StreamOrder, Conns
    <2> QED
        BY <1>2, <2>2, <2>3 DEF IInv, StreamOrder
<1>5. ListInv'
    BY <1>1, <1>2 DEF IInv, ListInv, LiveIsListed, RegisteredIsLive, DeletedIsEmpty, OrphanOnlyIf,
                      ReaperBusy, Newest, LoopStates
<1>6. PresenceLasts' /\ HiddenSincePing' /\ HiddenAtMostOnePing'
    BY <1>1, <1>2 DEF IInv, PresenceLasts, HiddenSincePing, HiddenAtMostOnePing, InLoop, Newest,
                      LoopStates
<1> QED
    BY <1>3, <1>4, <1>5, <1>6 DEF IInv

LEMMA LoseReaderKeeps ==
    ASSUME IInv, LoseReader
    PROVE  IInv'
<1> USE DEF LoseReader, directory, presence, history
<1>1. TypeOK' /\ StreamOrder'
    BY DEF IInv, TypeOK, StreamOrder
<1>2. ListInv'
    BY DEF IInv, ListInv, LiveIsListed, RegisteredIsLive, DeletedIsEmpty, OrphanOnlyIf,
           ReaperBusy, Newest
<1>3. PresenceLasts' /\ HiddenSincePing' /\ HiddenAtMostOnePing'
    BY DEF IInv, PresenceLasts, HiddenSincePing, HiddenAtMostOnePing, InLoop, Newest, Conns
<1> QED
    BY <1>1, <1>2, <1>3 DEF IInv

\* A reaper leaves the hash and the streams as they were.
LEMMA ReapKeeps ==
    ASSUME IInv, NEW r \in Reapers, Reap(r)
    PROVE  IInv'
<1> USE PresenceAssumption DEF PresenceAssumption, directory, presence, streams, history
<1>1. UNCHANGED <<agentTtl, streams, lastTouch, pinged, hiddenFor, raced, outlived>>
    BY DEF Reap, ReaperScans, ReaperTests, ReaperDelete, ReaperSrem, ReaperStops
<1>2. reaper[r] \in {"found", "deleted"} => ReaperBusy
    BY DEF ReaperBusy
<1>3. TypeOK'
    <2>1. reaper' \in [Reapers -> {"idle", "listed", "found", "deleted"}]
        BY DEF IInv, TypeOK, Reap, ReaperScans, ReaperTests, ReaperDelete, ReaperSrem, ReaperStops
    <2>2. inAgents' \in {inAgents, FALSE} /\ inboxKey' \in {inboxKey, FALSE}
        BY DEF Reap, ReaperScans, ReaperTests, ReaperDelete, ReaperSrem, ReaperStops
    <2>3. /\ lateStore' \in {lateStore, FALSE} /\ resolved' = resolved
          /\ struck' \in {struck, raced \/ outlived}
        BY DEF Reap, ReaperScans, ReaperTests, ReaperDelete, ReaperSrem, ReaperStops
    <2>4. (owner' = owner /\ presenceTtl' = presenceTtl) \/ (owner' = 0 /\ presenceTtl' = 0)
        BY DEF Reap, ReaperScans, ReaperTests, ReaperDelete, ReaperSrem, ReaperStops
    <2>5. /\ owner' \in 0..MaxConns /\ presenceTtl' \in 0..PresenceTtl
          /\ owner' = 0 <=> presenceTtl' = 0
        BY <2>4 DEF IInv, TypeOK
    <2> QED
        BY <1>1, <2>1, <2>2, <2>3, <2>5 DEF IInv, TypeOK
<1>4. StreamOrder' /\ RegisteredIsLive' /\ HiddenSincePing' /\ HiddenAtMostOnePing'
    BY <1>1 DEF IInv, ListInv, StreamOrder, RegisteredIsLive, HiddenSincePing,
                HiddenAtMostOnePing, Newest, InLoop
<1>5. LiveIsListed'
    <2> SUFFICES ASSUME agentTtl > 0, ~raced PROVE inAgents' /\ ~ReaperBusy'
        BY <1>1 DEF LiveIsListed
    <2>1. inAgents /\ ~ReaperBusy
        BY DEF IInv, ListInv, LiveIsListed
    <2>2. inAgents' /\ reaper'[r] \in {"idle", "listed"}
        <3>1. ~ReaperDelete(r) /\ ~ReaperSrem(r)
            BY <1>2, <2>1 DEF ReaperDelete, ReaperSrem
        <3>2. CASE ReaperScans(r) \/ ReaperStops(r)
            BY <2>1, <3>2 DEF IInv, TypeOK, ReaperScans, ReaperStops
        <3>3. CASE ReaperTests(r)
            BY <2>1, <3>3 DEF IInv, TypeOK, ReaperTests
        <3> QED
            BY <3>1, <3>2, <3>3 DEF Reap
    <2>3. \A s \in Reapers \ {r} : reaper'[s] = reaper[s]
        BY DEF IInv, TypeOK, Reap, ReaperScans, ReaperTests, ReaperDelete, ReaperSrem, ReaperStops
    <2> QED
        BY <2>1, <2>2, <2>3 DEF ReaperBusy
<1>6. DeletedIsEmpty'
    <2>1. CASE ReaperDelete(r)
        BY <2>1 DEF ReaperDelete, DeletedIsEmpty
    <2>2. CASE ~ReaperDelete(r)
        <3>1. /\ \A s \in Reapers : reaper'[s] = "deleted" => reaper[s] = "deleted"
              /\ UNCHANGED <<inboxKey, lateStore>>
            BY <2>2 DEF IInv, TypeOK, Reap, ReaperScans, ReaperTests, ReaperSrem, ReaperStops
        <3> QED
            BY <3>1, <1>1 DEF IInv, ListInv, DeletedIsEmpty
    <2> QED
        BY <2>1, <2>2
<1>7. OrphanOnlyIf'
    <2>1. CASE ReaperDelete(r)
        BY <2>1 DEF ReaperDelete, OrphanOnlyIf
    <2>2. CASE ReaperSrem(r)
        BY <2>2 DEF IInv, ListInv, ReaperSrem, DeletedIsEmpty, OrphanOnlyIf
    <2>3. CASE ReaperScans(r) \/ ReaperTests(r) \/ ReaperStops(r)
        BY <2>3 DEF IInv, ListInv, ReaperScans, ReaperTests, ReaperStops, OrphanOnlyIf
    <2> QED
        BY <2>1, <2>2, <2>3 DEF Reap
<1>8. PresenceLasts'
    <2>1. CASE ReaperDelete(r)
        <3>1. agentTtl > 0 => raced
            BY <1>2, <2>1 DEF IInv, ListInv, LiveIsListed, ReaperDelete
        <3>2. Newest(LoopStates \cup {"subscribe"}) => raced \/ outlived
            BY <3>1 DEF IInv, ListInv, RegisteredIsLive, Newest
        <3>3. struck' = (raced \/ outlived)
            BY <2>1 DEF ReaperDelete
        <3> QED
            BY <1>1, <3>2, <3>3 DEF PresenceLasts, Newest
    <2>2. CASE ~ReaperDelete(r)
        <3>1. UNCHANGED <<owner, presenceTtl, struck>>
            BY <2>2 DEF Reap, ReaperScans, ReaperTests, ReaperSrem, ReaperStops
        <3> QED
            BY <1>1, <3>1 DEF IInv, PresenceLasts, Newest
    <2> QED
        BY <2>1, <2>2
<1> QED
    BY <1>3, <1>4, <1>5, <1>6, <1>7, <1>8 DEF IInv, ListInv

LEMMA ChatKeeps ==
    ASSUME IInv, ChatResolve \/ ChatStore
    PROVE  IInv'
<1> USE DEF ChatResolve, ChatStore, directory, presence, streams, history
<1>1. TypeOK' /\ StreamOrder'
    BY DEF IInv, TypeOK, StreamOrder
<1>2. LiveIsListed' /\ RegisteredIsLive'
    BY DEF IInv, ListInv, LiveIsListed, RegisteredIsLive, ReaperBusy, Newest
<1>3. DeletedIsEmpty' /\ OrphanOnlyIf'
    BY DEF IInv, TypeOK, ListInv, LiveIsListed, DeletedIsEmpty, OrphanOnlyIf, ReaperBusy
<1>4. PresenceLasts' /\ HiddenSincePing' /\ HiddenAtMostOnePing'
    BY DEF IInv, PresenceLasts, HiddenSincePing, HiddenAtMostOnePing, InLoop, Newest
<1> QED
    BY <1>1, <1>2, <1>3, <1>4 DEF IInv, ListInv

LEMMA TickKeeps ==
    ASSUME IInv, Tick
    PROVE  IInv'
<1> USE PresenceAssumption DEF PresenceAssumption, Tick
<1>1. /\ opened \in Nat /\ (opened # 0 => opened \in Conns)
      /\ current \in {0, opened}
    BY DEF IInv, TypeOK, StreamOrder, Conns
<1>2. \A c \in Conns : /\ sincePing[c] \in 0..(PingEvery + PingSlack)
                        /\ sincePing'[c] \in 0..(PingEvery + PingSlack)
                        /\ Hasty(c) => /\ sincePing'[c] = sincePing[c] + 1
                                        /\ sincePing[c] < PingEvery + PingSlack
    BY DEF IInv, TypeOK
<1>3. /\ hiddenFor' \in Nat
      /\ \A c \in Conns : sincePing'[c] \in Nat /\ sincePing'[c] <= PingEvery + PingSlack
    BY DEF IInv, TypeOK
<1>4. TypeOK'
    <2>1. sincePing' \in [Conns -> 0..(PingEvery + PingSlack)]
        <3>1. \A c \in Conns :
                 (IF Hasty(c) THEN sincePing[c] + 1 ELSE 0) \in 0..(PingEvery + PingSlack)
            BY DEF IInv, TypeOK
        <3> QED
            BY <3>1
    <2>2. agentTtl' \in 0..Retention /\ outlived' \in BOOLEAN
        BY DEF IInv, TypeOK
    <2>3. /\ owner' \in 0..MaxConns /\ presenceTtl' \in 0..PresenceTtl
          /\ owner' = 0 <=> presenceTtl' = 0
        BY DEF IInv, TypeOK
    <2> QED
        BY <1>3, <2>1, <2>2, <2>3 DEF IInv, TypeOK
<1>5. StreamOrder'
    BY DEF IInv, StreamOrder
<1>6. LiveIsListed' /\ DeletedIsEmpty' /\ OrphanOnlyIf'
    BY DEF IInv, TypeOK, ListInv, LiveIsListed, DeletedIsEmpty, OrphanOnlyIf, ReaperBusy
<1>7. RegisteredIsLive'
    <2> SUFFICES ASSUME Newest(LoopStates \cup {"touch", "subscribe"})
                 PROVE  outlived' \/ agentTtl' > 0
        BY DEF RegisteredIsLive, Newest
    <2>1. Hasty(opened) /\ opened \in Conns
        BY <1>1 DEF Newest, Hasty
    <2>2. outlived \/ agentTtl > 0
        BY DEF IInv, ListInv, RegisteredIsLive
    <2>3. CASE outlived
        BY <2>3
    <2>4. CASE agentTtl = 1
        BY <2>1, <2>4
    <2>5. CASE agentTtl > 0 /\ agentTtl # 1
        BY <2>5 DEF IInv, TypeOK
    <2> QED
        BY <2>2, <2>3, <2>4, <2>5
<1>8. PresenceLasts'
    <2> SUFFICES ASSUME Newest(LoopStates \cup {"subscribe"}), lastTouch = opened,
                        ~struck
                 PROVE  /\ owner' = opened
                        /\ presenceTtl' + sincePing'[opened]
                             + (IF pc[opened] = "subscribe" THEN 0 ELSE PingEvery + PingSlack)
                                >= PresenceTtl
        BY DEF PresenceLasts, Newest
    <2>1. Hasty(opened) /\ opened \in Conns
        BY <1>1 DEF Newest, Hasty
    <2>2. /\ owner = opened
          /\ presenceTtl + sincePing[opened]
               + (IF pc[opened] = "subscribe" THEN 0 ELSE PingEvery + PingSlack) >= PresenceTtl
        BY <2>1 DEF IInv, PresenceLasts
    <2>3. /\ presenceTtl \in Nat
          /\ sincePing[opened] \in Nat /\ sincePing'[opened] = sincePing[opened] + 1
          /\ sincePing[opened] < PingEvery + PingSlack
        BY <1>2, <2>1 DEF IInv, TypeOK
    <2>4. presenceTtl > 1 /\ presenceTtl' = presenceTtl - 1
        BY <2>2, <2>3
    <2> QED
        BY <2>2, <2>3, <2>4
<1>9. HiddenSincePing' /\ HiddenAtMostOnePing'
    <2>1. CASE Hidden
        <3>1. InLoop(current) /\ current \in Conns /\ Hasty(current)
            BY <2>1 DEF Hidden, InLoop, Hasty
        <3>2. hiddenFor' <= sincePing'[current]
            BY <1>2, <2>1, <3>1 DEF IInv, TypeOK, HiddenSincePing
        <3>3. pc[current] # "subscribe"
            BY <3>1 DEF InLoop, LoopStates
        <3>4. HiddenAtMostOnePing'
            <4> HIDE DEF Tick
            <4>1. sincePing'[current] \in Nat /\ sincePing'[current] <= PingEvery + PingSlack
                BY <1>3, <3>1
            <4> QED
                BY <1>3, <3>2, <4>1 DEF HiddenAtMostOnePing
        <3> QED
            BY <3>2, <3>3, <3>4 DEF HiddenSincePing, InLoop
    <2>2. CASE ~Hidden
        <3>1. hiddenFor' = 0 /\ current' = current /\ pc' = pc
            BY <2>2
        <3> HIDE DEF Tick
        <3>2. current \in Conns => sincePing'[current] \in Nat
            BY <1>3
        <3> QED
            BY <3>1, <3>2 DEF HiddenSincePing, HiddenAtMostOnePing, InLoop
    <2> QED
        BY <2>1, <2>2
<1> QED
    BY <1>4, <1>5, <1>6, <1>7, <1>8, <1>9 DEF IInv, ListInv

LEMMA NextKeeps == IInv /\ [Next]_vars => IInv'
<1> SUFFICES ASSUME IInv, [Next]_vars PROVE IInv'
    OBVIOUS
<1>1. ASSUME NEW c \in Conns, Stream(c) PROVE IInv'
    BY <1>1, RegisterKeeps, TouchKeeps, EnterLoopKeeps, ResolvedKeeps, PingRegisterKeeps,
       PingTouchKeeps, LeaveKeeps, ClearKeeps, VanishKeeps
    DEF Stream
<1>2. ASSUME NEW r \in Reapers, Reap(r) PROVE IInv'
    BY <1>2, ReapKeeps
<1>3. CASE Open \/ LoseReader \/ ChatResolve \/ ChatStore \/ Tick
    BY <1>3, OpenKeeps, LoseReaderKeeps, ChatKeeps, TickKeeps
<1>4. CASE UNCHANGED vars
    BY <1>4 DEF vars, IInv, ListInv, TypeOK, StreamOrder, LiveIsListed, RegisteredIsLive,
        DeletedIsEmpty, OrphanOnlyIf, PresenceLasts, HiddenSincePing, HiddenAtMostOnePing,
        ReaperBusy, Newest, InLoop
<1> QED
    BY <1>1, <1>2, <1>3, <1>4 DEF Next

-----------------------------------------------------------------------------
(* The invariant behind the others holds throughout.                          *)
THEOREM PresenceInvariantHolds == Safety => []IInv
<1> QED
    BY InitEstablishes, NextKeeps, PTL DEF Safety

(* Keys, streams and reapers keep their types; a presence key and its TTL     *)
(* exist together (store.py:34-52).                                           *)
THEOREM PresenceTypeCorrect == Safety => []TypeOK
<1>1. IInv => TypeOK
    BY DEF IInv
<1> QED
    BY <1>1, PresenceInvariantHolds, PTL

(* A running stream is without presence only if an older stream wrote it last *)
(* or a reaper deleted it by accident: after a registration it raced, or once *)
(* the hash had run out under the agent (stream.py:33-71, reaper.py:14-17).   *)
THEOREM HiddenOnlyIfHolds == Safety => []HiddenOnlyIf
<1>1. ASSUME IInv PROVE HiddenOnlyIf
    <2> SUFFICES ASSUME Hidden, lastTouch = current, ~struck PROVE FALSE
        BY DEF HiddenOnlyIf
    <2>1. current = opened /\ opened # 0 /\ pc[opened] \in LoopStates /\ owner = 0
        BY <1>1 DEF IInv, StreamOrder, Hidden, InLoop, Conns
    <2>2. owner = opened
        BY <1>1, <2>1 DEF IInv, PresenceLasts, Newest
    <2> QED
        BY <2>1, <2>2
<1> QED
    BY <1>1, PresenceInvariantHolds, PTL

(* It is hidden no longer than a ping may take (stream.py:49-60).             *)
THEOREM HiddenAtMostOnePingHolds == Safety => []HiddenAtMostOnePing
<1>1. IInv => HiddenAtMostOnePing
    BY DEF IInv
<1> QED
    BY <1>1, PresenceInvariantHolds, PTL

(* A running stream's agent is listed unless its last registration raced a    *)
(* reaper or its hash has run out since (store.py:21-31, reaper.py:14-17).    *)
THEOREM UnlistedOnlyIfHolds == Safety => []UnlistedOnlyIf
<1>1. ASSUME IInv PROVE UnlistedOnlyIf
    <2> SUFFICES ASSUME InLoop(current), ~raced, ~outlived PROVE Listed
        BY DEF UnlistedOnlyIf
    <2>1. Newest(LoopStates \cup {"touch", "subscribe"})
        BY <1>1 DEF IInv, StreamOrder, InLoop, Newest, Conns
    <2>2. agentTtl > 0
        BY <1>1, <2>1 DEF IInv, ListInv, RegisteredIsLive
    <2> QED
        BY <1>1, <2>2 DEF IInv, ListInv, LiveIsListed, Listed
<1> QED
    BY <1>1, PresenceInvariantHolds, PTL

(* No inbox is without a directory entry unless the last registration raced a *)
(* reaper or a chat stored after the hash was gone (reaper.py:14-17,          *)
(* ops.py:50-59).                                                             *)
THEOREM OrphanOnlyIfHolds == Safety => []OrphanOnlyIf
<1>1. IInv => OrphanOnlyIf
    BY DEF IInv, ListInv
<1> QED
    BY <1>1, PresenceInvariantHolds, PTL
=============================================================================
