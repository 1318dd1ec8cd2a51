------------------------- MODULE ParticipantPoolProofs -------------------------
(***************************************************************************)
(* Theorems about ParticipantPool for any number of participants, starts,   *)
(* stops and SDP requests.                                                  *)
(*                                                                          *)
(* NoMemberMissed rests on References: what a request or the pool holds is  *)
(* a participant of that very id, so that closing one makes no other        *)
(* member silent.  StopSilences rests on Settled, which says for each phase *)
(* of a stop what is silent already and that nothing can start again.       *)
(* LoopsBounded rests on Served: a loop of a participant is due to a start   *)
(* that has passed it, and to one start only.                               *)
(***************************************************************************)
EXTENDS ParticipantPool, FiniteSetTheorems, TLAPS

(* A request has added its participant to the pool. *)
Added(r) == request[r].pc \in {"start", "offer", "offered", "done"}
Holding(r) == request[r].pc \in {"check", "remove", "start", "offer", "offered"}

References ==
  /\ \A id \in Ids : members[id] # None =>
       Added(members[id]) /\ request[members[id]].id = id
  /\ \A r \in Requests : request[r].found # None =>
       Added(request[r].found) /\ request[request[r].found].id = request[r].id
  /\ \A r \in Requests : Holding(r) => request[r].found # None
  /\ \A r \in Requests : request[r].pc = "start" => request[r].found = r

(* What streams was added before, and what a start will reach as well. *)
NotBeforeAdded ==
  /\ \A r \in Requests : webrtc[r].active => Added(r)
  /\ \A s \in Starters : \A o \in starter[s].objects : Added(o)

(* After a stop that no start overlapped. *)
Settled ==
  ~NeverStopped /\ ~overlap =>
    /\ ~running
    /\ ~Starting
    /\ (\A t \in Stoppers : stopper[t] # "udp") => \A id \in Ids : ~udp[id].active
    /\ ~StopUnderWay => \A o \in Members : ~webrtc[o].active

(* The starts that have passed a participant. *)
UdpServed(id) ==
  {s \in Starters : \/ starter[s].pc \in {"webrtc", "done"}
                    \/ starter[s].pc = "udp" /\ id \notin starter[s].ids}
WebrtcServed(o) ==
  {s \in Starters : \/ starter[s].pc = "done"
                    \/ starter[s].pc = "webrtc" /\ o \notin starter[s].objects}

(* The request that added o has started it if it had to. *)
OwnStart(o) == IF request[o].pc \in {"offer", "offered", "done"} THEN 1 ELSE 0

Served ==
  /\ \A id \in Ids : udp[id].loops <= Cardinality(UdpServed(id))
  /\ \A o \in Requests : webrtc[o].loops <= Cardinality(WebrtcServed(o)) + OwnStart(o)

IInv == TypeOK /\ References /\ NotBeforeAdded /\ NoMemberMissed /\ Settled /\ Served

LEMMA NoneIsNoRequest == None \notin Requests
BY DEF None, Requests

-----------------------------------------------------------------------------
(* Type correctness. *)

LEMMA InitTypeOK == Init => TypeOK
<1> SUFFICES ASSUME Init PROVE TypeOK
  OBVIOUS
<1>1. AnyId \in Ids
  BY PoolAssumption DEF AnyId
<1>2. running \in BOOLEAN /\ overlap \in BOOLEAN
  BY Zenon DEF Init
<1>3. QED
  BY <1>1, <1>2 DEF Init, TypeOK, States, Peers, StarterPcs, StopperPcs, RequestPcs

LEMMA NextTypeOK == TypeOK /\ [Next]_vars => TypeOK'
<1> SUFFICES ASSUME TypeOK, [Next]_vars PROVE TypeOK'
  OBVIOUS
<1> USE DEF TypeOK
<1>1. CASE UNCHANGED vars
  BY <1>1 DEF vars
<1>2. ASSUME NEW s \in Starters, handleStartTest(s) PROVE TypeOK'
  BY <1>2 DEF handleStartTest, StarterPcs, States
<1>3. ASSUME NEW s \in Starters, StartSetRunning(s) PROVE TypeOK'
  BY <1>3 DEF StartSetRunning, StarterPcs
<1>4. ASSUME NEW s \in Starters, NEW id \in Ids, StartUdp(s, id) PROVE TypeOK'
  <2>1. starter' \in [Starters -> [pc : StarterPcs, ids : SUBSET Ids, objects : SUBSET Requests]]
    BY <1>4 DEF StartUdp
  <2>2. udp[id].loops + 1 \in Nat
    OBVIOUS
  <2>3. udp' \in [Ids -> [active : BOOLEAN, open : BOOLEAN, loops : Nat]]
    BY <1>4, <2>2 DEF StartUdp
  <2>4. QED
    BY <1>4, <2>1, <2>3 DEF StartUdp
<1>5. ASSUME NEW s \in Starters, StartSnapshot(s) PROVE TypeOK'
  BY <1>5 DEF StartSnapshot, StarterPcs, Members
<1>6. ASSUME NEW s \in Starters, NEW o \in Requests, StartWebrtc(s, o) PROVE TypeOK'
  <2>1. starter' \in [Starters -> [pc : StarterPcs, ids : SUBSET Ids, objects : SUBSET Requests]]
    BY <1>6 DEF StartWebrtc
  <2>2. webrtc[o].loops + 1 \in Nat
    OBVIOUS
  <2>3. webrtc' \in [Requests -> [active : BOOLEAN, peer : Peers, loops : Nat]]
    BY <1>6, <2>2 DEF StartWebrtc, StartObject
  <2>4. QED
    BY <1>6, <2>1, <2>3 DEF StartWebrtc
<1>7. ASSUME NEW s \in Starters, StartReturns(s) PROVE TypeOK'
  BY <1>7 DEF StartReturns, StarterPcs
<1>8. ASSUME NEW t \in Stoppers, handleStopTest(t) PROVE TypeOK'
  BY <1>8 DEF handleStopTest, StopperPcs, Starting
<1>9. ASSUME NEW t \in Stoppers, StopUdp(t) PROVE TypeOK'
  BY <1>9 DEF StopUdp, StopperPcs
<1>10. ASSUME NEW t \in Stoppers, StopWebrtc(t) PROVE TypeOK'
  BY <1>10 DEF StopWebrtc, StopperPcs
<1>11. ASSUME NEW t \in Stoppers, StopReturns(t) PROVE TypeOK'
  BY <1>11 DEF StopReturns, StopperPcs, States
<1>12. ASSUME NEW r \in Requests, NEW id \in Ids, handleGetSDP(r, id) PROVE TypeOK'
  BY <1>12 DEF handleGetSDP, RequestPcs
<1>13. ASSUME NEW r \in Requests, GetWebRTCParticipant(r) PROVE TypeOK'
  BY <1>13 DEF GetWebRTCParticipant, RequestPcs
<1>14. ASSUME NEW r \in Requests, KeepParticipant(r) PROVE TypeOK'
  BY <1>14 DEF KeepParticipant, RequestStep, RequestPcs
<1>15. ASSUME NEW r \in Requests, CloseParticipant(r) PROVE TypeOK'
  BY <1>15 DEF CloseParticipant, RequestStep, RequestPcs, Peers
<1>16. ASSUME NEW r \in Requests, RemoveWebRTCParticipant(r) PROVE TypeOK'
  BY <1>16 DEF RemoveWebRTCParticipant, RequestStep, RequestPcs
<1>17. ASSUME NEW r \in Requests, CreateFails(r) PROVE TypeOK'
  BY <1>17 DEF CreateFails, RequestStep, RequestPcs
<1>18. ASSUME NEW r \in Requests, AddWebRTCParticipant(r) PROVE TypeOK'
  BY <1>18 DEF AddWebRTCParticipant, RequestPcs, Peers
<1>19. ASSUME NEW r \in Requests, StartAdded(r) PROVE TypeOK'
  BY <1>19 DEF StartAdded, StartObject, RequestStep, RequestPcs
<1>20. ASSUME NEW r \in Requests, CreateOffer(r) PROVE TypeOK'
  BY <1>20 DEF CreateOffer, RequestStep, RequestPcs
<1>21. ASSUME NEW r \in Requests, handleSetAnswer(r) PROVE TypeOK'
  BY <1>21 DEF handleSetAnswer, RequestStep, RequestPcs, Peers
<1>22. ASSUME NEW id \in Ids, UdpLoopExits(id) PROVE TypeOK'
  BY <1>22 DEF UdpLoopExits
<1>23. ASSUME NEW o \in Requests, WebrtcLoopExits(o) PROVE TypeOK'
  BY <1>23 DEF WebrtcLoopExits
<1>24. QED
  BY <1>1, <1>2, <1>3, <1>4, <1>5, <1>6, <1>7, <1>8, <1>9, <1>10, <1>11, <1>12, <1>13,
     <1>14, <1>15, <1>16, <1>17, <1>18, <1>19, <1>20, <1>21, <1>22, <1>23
     DEF Next, StarterNext, StopperNext, RequestNext

(* Every variable keeps its type. *)
THEOREM Typing == Spec => []TypeOK
BY InitTypeOK, NextTypeOK, PTL DEF Spec

-----------------------------------------------------------------------------
(* References: only the SDP requests move members and requests, and a request *)
(* never leaves the places where its participant is in the pool's reach.      *)

LEMMA NextReferences == TypeOK /\ References /\ [Next]_vars => References'
<1> SUFFICES ASSUME TypeOK, References, [Next]_vars PROVE References'
  OBVIOUS
<1> USE NoneIsNoRequest DEF TypeOK, References, Added, Holding
<1>1. CASE UNCHANGED <<members, request>>
  BY <1>1
<1>2. ASSUME NEW r \in Requests, NEW id \in Ids, handleGetSDP(r, id) PROVE References'
  BY <1>2 DEF handleGetSDP
<1>3. ASSUME NEW r \in Requests, GetWebRTCParticipant(r) PROVE References'
  BY <1>3 DEF GetWebRTCParticipant
<1>4. ASSUME NEW r \in Requests, KeepParticipant(r) PROVE References'
  BY <1>4 DEF KeepParticipant, RequestStep
<1>5. ASSUME NEW r \in Requests, CloseParticipant(r) PROVE References'
  BY <1>5 DEF CloseParticipant, RequestStep
<1>6. ASSUME NEW r \in Requests, RemoveWebRTCParticipant(r) PROVE References'
  BY <1>6 DEF RemoveWebRTCParticipant, RequestStep
<1>7. ASSUME NEW r \in Requests, CreateFails(r) PROVE References'
  BY <1>7 DEF CreateFails, RequestStep
<1>8. ASSUME NEW r \in Requests, AddWebRTCParticipant(r) PROVE References'
  BY <1>8 DEF AddWebRTCParticipant
<1>9. ASSUME NEW r \in Requests, StartAdded(r) PROVE References'
  BY <1>9 DEF StartAdded, RequestStep
<1>10. ASSUME NEW r \in Requests, CreateOffer(r) PROVE References'
  BY <1>10 DEF CreateOffer, RequestStep
<1>11. ASSUME NEW r \in Requests, handleSetAnswer(r) PROVE References'
  BY <1>11 DEF handleSetAnswer, RequestStep
<1>12. ASSUME NEW s \in Starters, handleStartTest(s) \/ StarterNext(s)
       PROVE  UNCHANGED <<members, request>>
  BY <1>12 DEF handleStartTest, StarterNext, StartSetRunning, StartUdp, StartSnapshot,
               StartWebrtc, StartReturns
<1>13. ASSUME NEW t \in Stoppers, handleStopTest(t) \/ StopperNext(t)
       PROVE  UNCHANGED <<members, request>>
  BY <1>13 DEF handleStopTest, StopperNext, StopUdp, StopWebrtc, StopReturns
<1>14. ASSUME \/ \E id \in Ids : UdpLoopExits(id)
              \/ \E o \in Requests : WebrtcLoopExits(o)
              \/ UNCHANGED vars
       PROVE  UNCHANGED <<members, request>>
  BY <1>14 DEF UdpLoopExits, WebrtcLoopExits, vars
<1>15. QED
  BY <1>1, <1>2, <1>3, <1>4, <1>5, <1>6, <1>7, <1>8, <1>9, <1>10, <1>11, <1>12, <1>13, <1>14
     DEF Next, RequestNext

-----------------------------------------------------------------------------
(* NotBeforeAdded: an object is started by the request that added it, or from *)
(* a snapshot of the members.                                                 *)

LEMMA NextNotBeforeAdded ==
  TypeOK /\ References /\ NotBeforeAdded /\ [Next]_vars => NotBeforeAdded'
<1> SUFFICES ASSUME TypeOK, References, NotBeforeAdded, [Next]_vars PROVE NotBeforeAdded'
  OBVIOUS
<1> USE NoneIsNoRequest DEF TypeOK, References, NotBeforeAdded, Added, Holding
<1>1. CASE UNCHANGED vars
  BY <1>1 DEF vars
<1>2. ASSUME NEW s \in Starters, handleStartTest(s) PROVE NotBeforeAdded'
  BY <1>2 DEF handleStartTest
<1>3. ASSUME NEW s \in Starters, StartSetRunning(s) PROVE NotBeforeAdded'
  BY <1>3 DEF StartSetRunning
<1>4. ASSUME NEW s \in Starters, NEW id \in Ids, StartUdp(s, id) PROVE NotBeforeAdded'
  BY <1>4 DEF StartUdp
<1>5. ASSUME NEW s \in Starters, StartSnapshot(s) PROVE NotBeforeAdded'
  BY <1>5 DEF StartSnapshot, Members
<1>6. ASSUME NEW s \in Starters, NEW o \in Requests, StartWebrtc(s, o) PROVE NotBeforeAdded'
  BY <1>6 DEF StartWebrtc, StartObject
<1>7. ASSUME NEW s \in Starters, StartReturns(s) PROVE NotBeforeAdded'
  BY <1>7 DEF StartReturns
<1>8. ASSUME NEW t \in Stoppers, handleStopTest(t) PROVE NotBeforeAdded'
  BY <1>8 DEF handleStopTest
<1>9. ASSUME NEW t \in Stoppers, StopUdp(t) PROVE NotBeforeAdded'
  BY <1>9 DEF StopUdp
<1>10. ASSUME NEW t \in Stoppers, StopWebrtc(t) PROVE NotBeforeAdded'
  BY <1>10 DEF StopWebrtc
<1>11. ASSUME NEW t \in Stoppers, StopReturns(t) PROVE NotBeforeAdded'
  BY <1>11 DEF StopReturns
<1>12. ASSUME NEW r \in Requests, NEW id \in Ids, handleGetSDP(r, id) PROVE NotBeforeAdded'
  BY <1>12 DEF handleGetSDP
<1>13. ASSUME NEW r \in Requests, GetWebRTCParticipant(r) PROVE NotBeforeAdded'
  BY <1>13 DEF GetWebRTCParticipant
<1>14. ASSUME NEW r \in Requests, KeepParticipant(r) PROVE NotBeforeAdded'
  BY <1>14 DEF KeepParticipant, RequestStep
<1>15. ASSUME NEW r \in Requests, CloseParticipant(r) PROVE NotBeforeAdded'
  BY <1>15 DEF CloseParticipant, RequestStep
<1>16. ASSUME NEW r \in Requests, RemoveWebRTCParticipant(r) PROVE NotBeforeAdded'
  BY <1>16 DEF RemoveWebRTCParticipant, RequestStep
<1>17. ASSUME NEW r \in Requests, CreateFails(r) PROVE NotBeforeAdded'
  BY <1>17 DEF CreateFails, RequestStep
<1>18. ASSUME NEW r \in Requests, AddWebRTCParticipant(r) PROVE NotBeforeAdded'
  BY <1>18 DEF AddWebRTCParticipant
<1>19. ASSUME NEW r \in Requests, StartAdded(r) PROVE NotBeforeAdded'
  BY <1>19 DEF StartAdded, StartObject, RequestStep
<1>20. ASSUME NEW r \in Requests, CreateOffer(r) PROVE NotBeforeAdded'
  BY <1>20 DEF CreateOffer, RequestStep
<1>21. ASSUME NEW r \in Requests, handleSetAnswer(r) PROVE NotBeforeAdded'
  BY <1>21 DEF handleSetAnswer, RequestStep
<1>22. ASSUME NEW id \in Ids, UdpLoopExits(id) PROVE NotBeforeAdded'
  BY <1>22 DEF UdpLoopExits
<1>23. ASSUME NEW o \in Requests, WebrtcLoopExits(o) PROVE NotBeforeAdded'
  BY <1>23 DEF WebrtcLoopExits
<1>24. QED
  BY <1>1, <1>2, <1>3, <1>4, <1>5, <1>6, <1>7, <1>8, <1>9, <1>10, <1>11, <1>12,
     <1>13, <1>14, <1>15, <1>16, <1>17, <1>18, <1>19, <1>20, <1>21, <1>22, <1>23
     DEF Next, StarterNext, StopperNext, RequestNext


-----------------------------------------------------------------------------
(* NoMemberMissed: one case per action.                                       *)

LEMMA NextNoMemberMissed ==
  TypeOK /\ References /\ NoMemberMissed /\ [Next]_vars => NoMemberMissed'
<1> SUFFICES ASSUME TypeOK, References, NoMemberMissed, [Next]_vars PROVE NoMemberMissed'
  OBVIOUS
<1> USE NoneIsNoRequest DEF TypeOK, References, Added, Holding, NoMemberMissed, NeverStopped, WillStart, BeingReplaced
<1>1. CASE UNCHANGED vars
  BY <1>1 DEF vars
<1>2. ASSUME NEW s \in Starters, handleStartTest(s) PROVE NoMemberMissed'
  BY <1>2 DEF handleStartTest
<1>3. ASSUME NEW s \in Starters, StartSetRunning(s) PROVE NoMemberMissed'
  BY <1>3 DEF StartSetRunning
<1>4. ASSUME NEW s \in Starters, NEW id \in Ids, StartUdp(s, id) PROVE NoMemberMissed'
  BY <1>4 DEF StartUdp
<1>5. ASSUME NEW s \in Starters, StartSnapshot(s) PROVE NoMemberMissed'
  BY <1>5 DEF StartSnapshot, Members
<1>6. ASSUME NEW s \in Starters, NEW o \in Requests, StartWebrtc(s, o) PROVE NoMemberMissed'
  BY <1>6 DEF StartWebrtc, StartObject
<1>7. ASSUME NEW s \in Starters, StartReturns(s) PROVE NoMemberMissed'
  BY <1>7 DEF StartReturns
<1>8. ASSUME NEW t \in Stoppers, handleStopTest(t) PROVE NoMemberMissed'
  BY <1>8 DEF handleStopTest
<1>9. ASSUME NEW t \in Stoppers, StopUdp(t) PROVE NoMemberMissed'
  <2>1. stopper'[t] = "webrtc"
    BY <1>9 DEF StopUdp
  <2>2. QED
    BY <2>1
<1>10. ASSUME NEW t \in Stoppers, StopWebrtc(t) PROVE NoMemberMissed'
  BY <1>10 DEF StopWebrtc
<1>11. ASSUME NEW t \in Stoppers, StopReturns(t) PROVE NoMemberMissed'
  BY <1>11 DEF StopReturns
<1>12. ASSUME NEW r \in Requests, NEW id \in Ids, handleGetSDP(r, id) PROVE NoMemberMissed'
  BY <1>12 DEF handleGetSDP
<1>13. ASSUME NEW r \in Requests, GetWebRTCParticipant(r) PROVE NoMemberMissed'
  BY <1>13 DEF GetWebRTCParticipant
<1>14. ASSUME NEW r \in Requests, KeepParticipant(r) PROVE NoMemberMissed'
  BY <1>14 DEF KeepParticipant, RequestStep
<1>15. ASSUME NEW r \in Requests, CloseParticipant(r) PROVE NoMemberMissed'
  BY <1>15 DEF CloseParticipant, RequestStep
<1>16. ASSUME NEW r \in Requests, RemoveWebRTCParticipant(r) PROVE NoMemberMissed'
  BY <1>16 DEF RemoveWebRTCParticipant, RequestStep
<1>17. ASSUME NEW r \in Requests, CreateFails(r) PROVE NoMemberMissed'
  BY <1>17 DEF CreateFails, RequestStep
<1>18. ASSUME NEW r \in Requests, AddWebRTCParticipant(r) PROVE NoMemberMissed'
  BY <1>18 DEF AddWebRTCParticipant
<1>19. ASSUME NEW r \in Requests, StartAdded(r) PROVE NoMemberMissed'
  BY <1>19 DEF StartAdded, StartObject, RequestStep
<1>20. ASSUME NEW r \in Requests, CreateOffer(r) PROVE NoMemberMissed'
  BY <1>20 DEF CreateOffer, RequestStep
<1>21. ASSUME NEW r \in Requests, handleSetAnswer(r) PROVE NoMemberMissed'
  BY <1>21 DEF handleSetAnswer, RequestStep
<1>22. ASSUME NEW id \in Ids, UdpLoopExits(id) PROVE NoMemberMissed'
  BY <1>22 DEF UdpLoopExits
<1>23. ASSUME NEW o \in Requests, WebrtcLoopExits(o) PROVE NoMemberMissed'
  BY <1>23 DEF WebrtcLoopExits
<1>24. QED
  BY <1>1, <1>2, <1>3, <1>4, <1>5, <1>6, <1>7, <1>8, <1>9, <1>10, <1>11, <1>12,
     <1>13, <1>14, <1>15, <1>16, <1>17, <1>18, <1>19, <1>20, <1>21, <1>22, <1>23
     DEF Next, StarterNext, StopperNext, RequestNext


-----------------------------------------------------------------------------
(* Settled: one case per action.                                              *)

LEMMA NextSettled ==
  TypeOK /\ NotBeforeAdded /\ Settled /\ [Next]_vars => Settled'
<1> SUFFICES ASSUME TypeOK, NotBeforeAdded, Settled, [Next]_vars PROVE Settled'
  OBVIOUS
<1> USE NoneIsNoRequest DEF TypeOK, NotBeforeAdded, Added, Settled, NeverStopped, StopUnderWay, Starting, Members
<1>1. CASE UNCHANGED vars
  BY <1>1 DEF vars
<1>2. ASSUME NEW s \in Starters, handleStartTest(s) PROVE Settled'
  BY <1>2 DEF handleStartTest
<1>3. ASSUME NEW s \in Starters, StartSetRunning(s) PROVE Settled'
  BY <1>3 DEF StartSetRunning
<1>4. ASSUME NEW s \in Starters, NEW id \in Ids, StartUdp(s, id) PROVE Settled'
  BY <1>4 DEF StartUdp
<1>5. ASSUME NEW s \in Starters, StartSnapshot(s) PROVE Settled'
  BY <1>5 DEF StartSnapshot, Members
<1>6. ASSUME NEW s \in Starters, NEW o \in Requests, StartWebrtc(s, o) PROVE Settled'
  BY <1>6 DEF StartWebrtc, StartObject
<1>7. ASSUME NEW s \in Starters, StartReturns(s) PROVE Settled'
  BY <1>7 DEF StartReturns
<1>8. ASSUME NEW t \in Stoppers, handleStopTest(t) PROVE Settled'
  BY <1>8 DEF handleStopTest
<1>9. ASSUME NEW t \in Stoppers, StopUdp(t) PROVE Settled'
  <2>1. /\ stopper[t] = "udp"
        /\ stopper' = [stopper EXCEPT ![t] = "webrtc"]
        /\ UNCHANGED <<running, members, webrtc, starter, request, overlap>>
    BY <1>9 DEF StopUdp
  <2>2. \A id \in Ids : ~udp'[id].active
    BY <1>9 DEF StopUdp
  <2>3. stopper'[t] = "webrtc"
    BY <2>1
  <2>4. SUFFICES ASSUME ~NeverStopped', ~overlap'
                 PROVE  ~running' /\ ~Starting'
    BY <2>2, <2>3
  <2>5. ~NeverStopped /\ ~overlap
    BY <2>1, <2>4
  <2>6. QED
    BY <2>1, <2>5
<1>10. ASSUME NEW t \in Stoppers, StopWebrtc(t) PROVE Settled'
  BY <1>10 DEF StopWebrtc
<1>11. ASSUME NEW t \in Stoppers, StopReturns(t) PROVE Settled'
  BY <1>11 DEF StopReturns
<1>12. ASSUME NEW r \in Requests, NEW id \in Ids, handleGetSDP(r, id) PROVE Settled'
  BY <1>12 DEF handleGetSDP
<1>13. ASSUME NEW r \in Requests, GetWebRTCParticipant(r) PROVE Settled'
  BY <1>13 DEF GetWebRTCParticipant
<1>14. ASSUME NEW r \in Requests, KeepParticipant(r) PROVE Settled'
  BY <1>14 DEF KeepParticipant, RequestStep
<1>15. ASSUME NEW r \in Requests, CloseParticipant(r) PROVE Settled'
  BY <1>15 DEF CloseParticipant, RequestStep
<1>16. ASSUME NEW r \in Requests, RemoveWebRTCParticipant(r) PROVE Settled'
  BY <1>16 DEF RemoveWebRTCParticipant, RequestStep
<1>17. ASSUME NEW r \in Requests, CreateFails(r) PROVE Settled'
  BY <1>17 DEF CreateFails, RequestStep
<1>18. ASSUME NEW r \in Requests, AddWebRTCParticipant(r) PROVE Settled'
  <2>1. /\ request[r].pc = "create"
        /\ members' = [members EXCEPT ![request[r].id] = r]
        /\ webrtc' = [webrtc EXCEPT ![r].peer = "new"]
        /\ UNCHANGED <<running, udp, starter, stopper, overlap>>
    BY <1>18 DEF AddWebRTCParticipant
  <2>2. SUFFICES ASSUME ~NeverStopped, ~overlap
                 PROVE  /\ ~Starting'
                        /\ ~StopUnderWay => \A o \in Members' : ~webrtc'[o].active
    BY <2>1
  <2>3. ~running
    BY <2>2
  <2>4. request' = [request EXCEPT ![r] = [pc |-> "offer", id |-> @.id, found |-> r]]
    BY <1>18, <2>3 DEF AddWebRTCParticipant
  <2>5. ~Starting'
    BY <2>1, <2>2, <2>4
  <2>6. \A o \in Requests : webrtc'[o].active = webrtc[o].active
    BY <2>1
  <2>7. ~webrtc[r].active
    BY <2>1
  <2>8. \A o \in Members' : o = r \/ o \in Members
    BY <2>1
  <2>9. Members' \subseteq Requests
    BY <2>1
  <2>10. QED
    BY <2>2, <2>5, <2>6, <2>7, <2>8, <2>9
<1>19. ASSUME NEW r \in Requests, StartAdded(r) PROVE Settled'
  BY <1>19 DEF StartAdded, StartObject, RequestStep
<1>20. ASSUME NEW r \in Requests, CreateOffer(r) PROVE Settled'
  BY <1>20 DEF CreateOffer, RequestStep
<1>21. ASSUME NEW r \in Requests, handleSetAnswer(r) PROVE Settled'
  BY <1>21 DEF handleSetAnswer, RequestStep
<1>22. ASSUME NEW id \in Ids, UdpLoopExits(id) PROVE Settled'
  BY <1>22 DEF UdpLoopExits
<1>23. ASSUME NEW o \in Requests, WebrtcLoopExits(o) PROVE Settled'
  BY <1>23 DEF WebrtcLoopExits
<1>24. QED
  BY <1>1, <1>2, <1>3, <1>4, <1>5, <1>6, <1>7, <1>8, <1>9, <1>10, <1>11, <1>12,
     <1>13, <1>14, <1>15, <1>16, <1>17, <1>18, <1>19, <1>20, <1>21, <1>22, <1>23
     DEF Next, StarterNext, StopperNext, RequestNext

-----------------------------------------------------------------------------
(* Served: the sets of starts only grow, and grow with every loop.            *)

LEMMA Growing ==
  ASSUME NEW S, NEW T, S \subseteq T, T \subseteq Starters
  PROVE  /\ Cardinality(S) \in Nat /\ Cardinality(T) \in Nat
         /\ Cardinality(S) <= Cardinality(T)
         /\ S # T => Cardinality(S) + 1 <= Cardinality(T)
<1>1. IsFiniteSet(T)
  BY PoolAssumption, FS_Subset
<1>2. IsFiniteSet(S) /\ Cardinality(S) <= Cardinality(T)
  BY <1>1, FS_Subset
<1>3. Cardinality(S) \in Nat /\ Cardinality(T) \in Nat
  BY <1>1, <1>2, FS_CardinalityType
<1>4. ASSUME S # T PROVE Cardinality(S) # Cardinality(T)
  BY <1>1, <1>4, FS_Subset
<1>5. QED
  BY <1>2, <1>3, <1>4

(* No start un-passes a participant, and no request takes its own start back. *)
Monotone ==
  /\ \A id \in Ids : UdpServed(id) \subseteq UdpServed(id)'
  /\ \A o \in Requests : WebrtcServed(o) \subseteq WebrtcServed(o)'
  /\ \A o \in Requests : OwnStart(o) <= OwnStart(o)'

LEMMA NextMonotone == TypeOK /\ [Next]_vars => Monotone
<1> SUFFICES ASSUME TypeOK, [Next]_vars PROVE Monotone
  OBVIOUS
<1> USE DEF TypeOK, Monotone, UdpServed, WebrtcServed, OwnStart
<1>1. CASE UNCHANGED <<starter, request>>
  BY <1>1
<1>2. ASSUME NEW s \in Starters, handleStartTest(s) PROVE Monotone
  BY <1>2 DEF handleStartTest
<1>3. ASSUME NEW s \in Starters, StartSetRunning(s) PROVE Monotone
  BY <1>3 DEF StartSetRunning
<1>4. ASSUME NEW s \in Starters, NEW id \in Ids, StartUdp(s, id) PROVE Monotone
  BY <1>4 DEF StartUdp
<1>5. ASSUME NEW s \in Starters, StartSnapshot(s) PROVE Monotone
  BY <1>5 DEF StartSnapshot
<1>6. ASSUME NEW s \in Starters, NEW o \in Requests, StartWebrtc(s, o) PROVE Monotone
  BY <1>6 DEF StartWebrtc
<1>7. ASSUME NEW s \in Starters, StartReturns(s) PROVE Monotone
  BY <1>7 DEF StartReturns
<1>8. ASSUME NEW t \in Stoppers, handleStopTest(t) \/ StopperNext(t)
      PROVE  UNCHANGED <<starter, request>>
  BY <1>8 DEF handleStopTest, StopperNext, StopUdp, StopWebrtc, StopReturns
<1>9. ASSUME NEW r \in Requests, NEW id \in Ids, handleGetSDP(r, id) PROVE Monotone
  BY <1>9 DEF handleGetSDP
<1>10. ASSUME NEW r \in Requests, GetWebRTCParticipant(r) PROVE Monotone
  BY <1>10 DEF GetWebRTCParticipant
<1>11. ASSUME NEW r \in Requests, KeepParticipant(r) PROVE Monotone
  BY <1>11 DEF KeepParticipant, RequestStep
<1>12. ASSUME NEW r \in Requests, CloseParticipant(r) PROVE Monotone
  BY <1>12 DEF CloseParticipant, RequestStep
<1>13. ASSUME NEW r \in Requests, RemoveWebRTCParticipant(r) PROVE Monotone
  BY <1>13 DEF RemoveWebRTCParticipant, RequestStep
<1>14. ASSUME NEW r \in Requests, CreateFails(r) PROVE Monotone
  BY <1>14 DEF CreateFails, RequestStep
<1>15. ASSUME NEW r \in Requests, AddWebRTCParticipant(r) PROVE Monotone
  BY <1>15 DEF AddWebRTCParticipant
<1>16. ASSUME NEW r \in Requests, StartAdded(r) PROVE Monotone
  BY <1>16 DEF StartAdded, RequestStep
<1>17. ASSUME NEW r \in Requests, CreateOffer(r) PROVE Monotone
  BY <1>17 DEF CreateOffer, RequestStep
<1>18. ASSUME NEW r \in Requests, handleSetAnswer(r) PROVE Monotone
  BY <1>18 DEF handleSetAnswer, RequestStep
<1>19. ASSUME \/ \E id \in Ids : UdpLoopExits(id)
              \/ \E o \in Requests : WebrtcLoopExits(o)
              \/ UNCHANGED vars
       PROVE  UNCHANGED <<starter, request>>
  BY <1>19 DEF UdpLoopExits, WebrtcLoopExits, vars
<1>20. QED
  BY <1>1, <1>2, <1>3, <1>4, <1>5, <1>6, <1>7, <1>8, <1>9, <1>10, <1>11, <1>12,
     <1>13, <1>14, <1>15, <1>16, <1>17, <1>18, <1>19
     DEF Next, StarterNext, RequestNext

(* Whose loops a step may add to. *)
LoopsStep ==
  /\ \A id \in Ids : \/ udp'[id].loops <= udp[id].loops
                      \/ /\ udp'[id].loops = udp[id].loops + 1
                         /\ UdpServed(id)' # UdpServed(id)
  /\ \A o \in Requests : \/ webrtc'[o].loops <= webrtc[o].loops
                          \/ /\ webrtc'[o].loops = webrtc[o].loops + 1
                             /\ \/ WebrtcServed(o)' # WebrtcServed(o)
                                \/ OwnStart(o) = 0 /\ OwnStart(o)' = 1

LEMMA NextLoops == TypeOK /\ References /\ [Next]_vars => LoopsStep
<1> SUFFICES ASSUME TypeOK, References, [Next]_vars PROVE LoopsStep
  OBVIOUS
<1> USE DEF TypeOK, LoopsStep
<1>1. CASE UNCHANGED <<udp, webrtc>>
  BY <1>1
<1>2. ASSUME NEW s \in Starters, handleStartTest(s) PROVE UNCHANGED <<udp, webrtc>>
  BY <1>2 DEF handleStartTest
<1>3. ASSUME NEW s \in Starters, StartSetRunning(s) \/ StartSnapshot(s) \/ StartReturns(s)
      PROVE  UNCHANGED <<udp, webrtc>>
  BY <1>3 DEF StartSetRunning, StartSnapshot, StartReturns
<1>4. ASSUME NEW s \in Starters, NEW id \in Ids, StartUdp(s, id) PROVE LoopsStep
  <2>1. s \in UdpServed(id)' /\ s \notin UdpServed(id)
    BY <1>4 DEF StartUdp, UdpServed
  <2>2. udp'[id].loops = udp[id].loops + 1
    BY <1>4 DEF StartUdp
  <2>3. \A other \in Ids \ {id} : udp'[other].loops = udp[other].loops
    BY <1>4 DEF StartUdp
  <2>4. webrtc' = webrtc
    BY <1>4 DEF StartUdp
  <2>5. QED
    BY <2>1, <2>2, <2>3, <2>4
<1>5. ASSUME NEW s \in Starters, NEW o \in Requests, StartWebrtc(s, o) PROVE LoopsStep
  <2>1. s \in WebrtcServed(o)' /\ s \notin WebrtcServed(o)
    BY <1>5 DEF StartWebrtc, WebrtcServed
  <2>2. webrtc'[o].loops = webrtc[o].loops + 1
    BY <1>5 DEF StartWebrtc, StartObject
  <2>3. \A other \in Requests \ {o} : webrtc'[other].loops = webrtc[other].loops
    BY <1>5 DEF StartWebrtc, StartObject
  <2>4. udp' = udp
    BY <1>5 DEF StartWebrtc
  <2>5. QED
    BY <2>1, <2>2, <2>3, <2>4
<1>6. ASSUME NEW t \in Stoppers, handleStopTest(t) \/ StopReturns(t)
      PROVE  UNCHANGED <<udp, webrtc>>
  BY <1>6 DEF handleStopTest, StopReturns
<1>7. ASSUME NEW t \in Stoppers, StopUdp(t) PROVE LoopsStep
  BY <1>7 DEF StopUdp
<1>8. ASSUME NEW t \in Stoppers, StopWebrtc(t) PROVE LoopsStep
  BY <1>8 DEF StopWebrtc
<1>9. ASSUME NEW r \in Requests, NEW id \in Ids, handleGetSDP(r, id)
      PROVE  UNCHANGED <<udp, webrtc>>
  BY <1>9 DEF handleGetSDP
<1>10. ASSUME NEW r \in Requests,
              \/ GetWebRTCParticipant(r) \/ KeepParticipant(r)
              \/ RemoveWebRTCParticipant(r) \/ CreateFails(r) \/ CreateOffer(r)
       PROVE  UNCHANGED <<udp, webrtc>>
  BY <1>10 DEF GetWebRTCParticipant, KeepParticipant, RemoveWebRTCParticipant, CreateFails,
               CreateOffer
<1>11. ASSUME NEW r \in Requests, CloseParticipant(r) PROVE LoopsStep
  <2>1. request[r].found \in Requests
    BY <1>11 DEF CloseParticipant, RequestStep, References, Holding
  <2>2. QED
    BY <1>11, <2>1 DEF CloseParticipant
<1>12. ASSUME NEW r \in Requests, AddWebRTCParticipant(r) PROVE LoopsStep
  BY <1>12 DEF AddWebRTCParticipant
<1>13. ASSUME NEW r \in Requests, StartAdded(r) PROVE LoopsStep
  <2>1. webrtc'[r].loops = webrtc[r].loops + 1
    BY <1>13 DEF StartAdded, StartObject
  <2>2. OwnStart(r) = 0 /\ OwnStart(r)' = 1
    BY <1>13 DEF StartAdded, RequestStep, OwnStart
  <2>3. \A other \in Requests \ {r} : webrtc'[other].loops = webrtc[other].loops
    BY <1>13 DEF StartAdded, StartObject
  <2>4. udp' = udp
    BY <1>13 DEF StartAdded
  <2>5. QED
    BY <2>1, <2>2, <2>3, <2>4
<1>14. ASSUME NEW r \in Requests, handleSetAnswer(r) PROVE LoopsStep
  BY <1>14 DEF handleSetAnswer
<1>15. ASSUME NEW id \in Ids, UdpLoopExits(id) PROVE LoopsStep
  BY <1>15 DEF UdpLoopExits
<1>16. ASSUME NEW o \in Requests, WebrtcLoopExits(o) PROVE LoopsStep
  BY <1>16 DEF WebrtcLoopExits
<1>17. ASSUME UNCHANGED vars PROVE UNCHANGED <<udp, webrtc>>
  BY <1>17 DEF vars
<1>18. QED
  BY <1>1, <1>2, <1>3, <1>4, <1>5, <1>6, <1>7, <1>8, <1>9, <1>10, <1>11, <1>12,
     <1>13, <1>14, <1>15, <1>16, <1>17
     DEF Next, StarterNext, StopperNext, RequestNext

LEMMA NextServed ==
  TypeOK /\ TypeOK' /\ References /\ Served /\ [Next]_vars => Served'
<1> SUFFICES ASSUME TypeOK, TypeOK', Served, Monotone, LoopsStep PROVE Served'
  BY NextMonotone, NextLoops
<1>1. ASSUME NEW id \in Ids PROVE udp'[id].loops <= Cardinality(UdpServed(id)')
  <2> DEFINE n == Cardinality(UdpServed(id))
             m == Cardinality(UdpServed(id)')
  <2>1. UdpServed(id)' \subseteq Starters
    BY DEF UdpServed
  <2>2. UdpServed(id) \subseteq UdpServed(id)'
    BY DEF Monotone
  <2>3. n \in Nat /\ m \in Nat /\ n <= m /\ (UdpServed(id) # UdpServed(id)' => n + 1 <= m)
    BY <2>1, <2>2, Growing
  <2>4. udp[id].loops \in Nat /\ udp'[id].loops \in Nat /\ udp[id].loops <= n
    BY DEF TypeOK, Served
  <2>5. QED
    BY <2>3, <2>4 DEF LoopsStep
<1>2. ASSUME NEW o \in Requests
      PROVE  webrtc'[o].loops <= Cardinality(WebrtcServed(o)') + OwnStart(o)'
  <2> DEFINE n == Cardinality(WebrtcServed(o))
             m == Cardinality(WebrtcServed(o)')
  <2>1. WebrtcServed(o)' \subseteq Starters
    BY DEF WebrtcServed
  <2>2. WebrtcServed(o) \subseteq WebrtcServed(o)' /\ OwnStart(o) <= OwnStart(o)'
    BY DEF Monotone
  <2>3. /\ n \in Nat /\ m \in Nat /\ n <= m
        /\ WebrtcServed(o) # WebrtcServed(o)' => n + 1 <= m
    BY <2>1, <2>2, Growing
  <2>4. /\ webrtc[o].loops \in Nat /\ webrtc'[o].loops \in Nat
        /\ webrtc[o].loops <= n + OwnStart(o)
    BY DEF TypeOK, Served
  <2>5. OwnStart(o) \in Nat /\ OwnStart(o)' \in Nat
    BY DEF OwnStart
  <2>6. \/ webrtc'[o].loops <= webrtc[o].loops
        \/ /\ webrtc'[o].loops = webrtc[o].loops + 1
           /\ \/ WebrtcServed(o)' # WebrtcServed(o)
              \/ OwnStart(o) = 0 /\ OwnStart(o)' = 1
    BY DEF LoopsStep
  <2>7. QED
    BY <2>2, <2>3, <2>4, <2>5, <2>6
<1>3. QED
  BY <1>1, <1>2 DEF Served

-----------------------------------------------------------------------------
(* The inductive invariant and what follows from it. *)

LEMMA InitIInv == Init => IInv
<1> SUFFICES ASSUME Init PROVE IInv
  OBVIOUS
<1>1. TypeOK
  BY InitTypeOK
<1>2. References
  BY DEF Init, References, Added, Holding
<1>3. \A o \in Requests : ~webrtc[o].active
  BY Zenon DEF Init
<1>4. NotBeforeAdded
  BY <1>3 DEF Init, NotBeforeAdded
<1>5. ~running
  BY Zenon DEF Init
<1>6. NeverStopped
  BY DEF Init, NeverStopped
<1>7. Served
  <2>1. \A id \in Ids : Cardinality(UdpServed(id)) \in Nat
    BY Growing DEF UdpServed
  <2>2. \A o \in Requests : Cardinality(WebrtcServed(o)) \in Nat /\ OwnStart(o) \in Nat
    BY Growing DEF WebrtcServed, OwnStart
  <2>3. (\A id \in Ids : udp[id].loops = 0) /\ (\A o \in Requests : webrtc[o].loops = 0)
    BY DEF Init
  <2>4. QED
    BY <2>1, <2>2, <2>3 DEF Served
<1>8. QED
  BY <1>1, <1>2, <1>4, <1>5, <1>6, <1>7 DEF IInv, NoMemberMissed, Settled

LEMMA NextIInv == IInv /\ [Next]_vars => IInv'
BY NextTypeOK, NextReferences, NextNotBeforeAdded, NextNoMemberMissed, NextSettled,
   NextServed DEF IInv

THEOREM PoolInvariant == Spec => []IInv
BY InitIInv, NextIInv, PTL DEF Spec

(* Whoever joins the pool of a started test streams, is about to be started,  *)
(* or is being replaced (participant.go:108-119 against 144-173): a member    *)
(* cannot fall between the snapshot of Start and the flag AddWebRTC reads.    *)
THEOREM NobodyMissed == Spec => []NoMemberMissed
BY PoolInvariant, PTL DEF IInv

(* A stop that no start overlapped leaves no member of the pool streaming,    *)
(* and none that joins later starts (participant.go:175-193).                 *)
THEOREM StopIsFinal == Spec => []StopSilences
<1>1. IInv => StopSilences
  <2> SUFFICES ASSUME IInv, ~NeverStopped, ~StopUnderWay, ~overlap
               PROVE  (\A id \in Ids : ~udp[id].active) /\ (\A o \in Members : ~webrtc[o].active)
    BY DEF StopSilences
  <2>1. \A t \in Stoppers : stopper[t] # "udp"
    BY DEF StopUnderWay
  <2>2. QED
    BY <2>1 DEF IInv, Settled
<1>2. QED
  BY PoolInvariant, <1>1, PTL

(* A participant has at most one stream loop per start of the test, a WebRTC  *)
(* participant one more from the request that added it (streaming.go:87-134), *)
(* for any number of starts, stops and requests in any interleaving.          *)
THEOREM LoopsStayBounded == Spec => []LoopsBounded
<1>1. IInv => LoopsBounded
  <2> SUFFICES ASSUME IInv PROVE LoopsBounded
    OBVIOUS
  <2>1. StartsAsked \subseteq Starters
    BY DEF StartsAsked
  <2>2. \A id \in Ids : UdpServed(id) \subseteq StartsAsked
    BY DEF UdpServed, StartsAsked
  <2>3. \A o \in Requests : WebrtcServed(o) \subseteq StartsAsked /\ OwnStart(o) \in 0..1
    BY DEF WebrtcServed, OwnStart, StartsAsked
  <2>4. ASSUME NEW id \in Ids PROVE udp[id].loops <= Cardinality(StartsAsked)
    <3>1. /\ Cardinality(UdpServed(id)) \in Nat /\ Cardinality(StartsAsked) \in Nat
          /\ Cardinality(UdpServed(id)) <= Cardinality(StartsAsked)
      BY <2>1, <2>2, Growing
    <3>2. udp[id].loops \in Nat /\ udp[id].loops <= Cardinality(UdpServed(id))
      BY DEF IInv, TypeOK, Served
    <3>3. QED
      BY <3>1, <3>2
  <2>5. ASSUME NEW o \in Requests PROVE webrtc[o].loops <= Cardinality(StartsAsked) + 1
    <3>1. /\ Cardinality(WebrtcServed(o)) \in Nat /\ Cardinality(StartsAsked) \in Nat
          /\ Cardinality(WebrtcServed(o)) <= Cardinality(StartsAsked)
      BY <2>1, <2>3, Growing
    <3>2. webrtc[o].loops \in Nat /\ webrtc[o].loops <= Cardinality(WebrtcServed(o)) + OwnStart(o)
      BY DEF IInv, TypeOK, Served
    <3>3. QED
      BY <2>3, <3>1, <3>2
  <2>6. QED
    BY <2>4, <2>5 DEF LoopsBounded
<1>2. QED
  BY PoolInvariant, <1>1, PTL
=============================================================================
