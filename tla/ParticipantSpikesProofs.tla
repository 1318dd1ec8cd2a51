------------------------- MODULE ParticipantSpikesProofs -------------------------
(***************************************************************************)
(* Proofs about ParticipantSpikes, for any participants, events and bounds: *)
(* its types, that a timed spike of a UDP participant has a removal coming, *)
(* and that a spike gets to its targets and to nobody else.                 *)
(***************************************************************************)
EXTENDS ParticipantSpikes, TLAPS

(* What a map of spikes holds was put there by a call that has got so far, and *)
(* under the id of its event.                                                  *)
Reached ==
  /\ \A p \in UdpIds, s \in SpikeIds :
       LET n == udpSpikes[p][s]
       IN n # NoCall => calls[n].pc # "idle" /\ calls[n].event.id = s
  /\ \A p \in WebrtcIds, s \in SpikeIds :
       webrtcSpikes[p][s] # NoCall => calls[webrtcSpikes[p][s]].pc # "idle"

(* Given targets are not changed on the way, and who is still to be visited is *)
(* one of them.                                                                *)
TargetsKept ==
  \A n \in Calls :
    /\ calls[n].pc # "idle" /\ calls[n].event.targets # {} =>
         calls[n].targets = calls[n].event.targets
    /\ \A p \in Ids : calls[n].left[p] > 0 => p \in calls[n].targets

IInv == TypeOK /\ Reached /\ TargetsKept /\ RemovalArmed /\ OnlyTargets

-----------------------------------------------------------------------------
LEMMA NoCallIsNone == NoCall \notin Calls
BY EventsAssumption DEF NoCall, Calls

LEMMA EventId == \A e \in Events : e.id \in SpikeIds
BY DEF SpikeIds

LEMMA CallAtType ==
  ASSUME TypeOK, NEW n \in Calls, NEW pc \in CallPcs, NEW left \in [Ids -> 0..2]
  PROVE  CallAt(n, pc, left) \in [Calls -> [pc : CallPcs, event : Events, targets : SUBSET Ids,
                                            left : [Ids -> 0..2]]]
BY DEF TypeOK, CallAt

(* What a call going on leaves as it is. *)
LEMMA CallAtKeeps ==
  ASSUME TypeOK, NEW n \in Calls, NEW pc \in CallPcs, NEW left \in [Ids -> 0..2],
         calls' = CallAt(n, pc, left)
  PROVE  /\ calls'[n].pc = pc
         /\ calls'[n].left = left
         /\ \A k \in Calls : /\ calls'[k].event = calls[k].event
                             /\ calls'[k].targets = calls[k].targets
                             /\ k # n => calls'[k] = calls[k]
BY DEF TypeOK, CallAt

LEMMA OneLess ==
  ASSUME NEW left \in [Ids -> 0..2], NEW p \in Ids, left[p] > 0
  PROVE  [left EXCEPT ![p] = left[p] - 1] \in [Ids -> 0..2]
<1>1. left[p] \in 0..2
  OBVIOUS
<1>2. left[p] - 1 \in 0..2
  BY <1>1
<1>3. QED
  BY <1>2

LEMMA VisitKeeps ==
  ASSUME TypeOK, NEW n \in Calls, NEW p \in Ids, Visit(n, p)
  PROVE  /\ calls' \in [Calls -> [pc : CallPcs, event : Events, targets : SUBSET Ids,
                                  left : [Ids -> 0..2]]]
         /\ calls[n].left[p] > 0
         /\ \A k \in Calls : /\ calls'[k].pc = calls[k].pc
                             /\ calls'[k].event = calls[k].event
                             /\ calls'[k].targets = calls[k].targets
                             /\ \A q \in Ids : calls'[k].left[q] > 0 => calls[k].left[q] > 0
<1> DEFINE less == [calls[n].left EXCEPT ![p] = calls[n].left[p] - 1]
<1>1. calls[n].left \in [Ids -> 0..2] /\ calls[n].pc \in CallPcs /\ calls[n].left[p] > 0
  BY DEF TypeOK, Visit
<1>2. less \in [Ids -> 0..2]
  BY <1>1, OneLess
<1>3. \A q \in Ids : less[q] > 0 => calls[n].left[q] > 0
  BY <1>1
<1>4. calls' = CallAt(n, calls[n].pc, less)
  BY DEF Visit
<1> HIDE DEF less
<1>5. calls' \in [Calls -> [pc : CallPcs, event : Events, targets : SUBSET Ids,
                            left : [Ids -> 0..2]]]
  BY <1>1, <1>2, <1>4, CallAtType
<1>6. /\ calls'[n].pc = calls[n].pc
      /\ calls'[n].left = less
      /\ \A k \in Calls : /\ calls'[k].event = calls[k].event
                          /\ calls'[k].targets = calls[k].targets
                          /\ k # n => calls'[k] = calls[k]
  BY <1>1, <1>2, <1>4, CallAtKeeps
<1>7. QED
  BY <1>1, <1>3, <1>5, <1>6

LEMMA PutType ==
  ASSUME NEW Owners, NEW spikes \in [Owners -> [SpikeIds -> Calls \cup {NoCall}]],
         NEW p \in Owners, NEW n \in Calls, calls[n].event \in Events
  PROVE  /\ Put(spikes, p, n) \in [Owners -> [SpikeIds -> Calls \cup {NoCall}]]
         /\ \A q \in Owners, s \in SpikeIds :
              \/ q = p /\ s = calls[n].event.id /\ Put(spikes, p, n)[q][s] = n
              \/ ~(q = p /\ s = calls[n].event.id) /\ Put(spikes, p, n)[q][s] = spikes[q][s]
BY EventId DEF Put

LEMMA IdsFacts == UdpIds \subseteq Ids /\ WebrtcIds \subseteq Ids
BY DEF Ids

-----------------------------------------------------------------------------
(* Type correctness. *)

LEMMA InitTypeOK == Init => TypeOK
<1> SUFFICES ASSUME Init PROVE TypeOK
  OBVIOUS
<1>1. NoneLeft \in [Ids -> 0..2]
  BY DEF NoneLeft
<1>2. IdleCall \in [pc : CallPcs, event : Events, targets : SUBSET Ids, left : [Ids -> 0..2]]
  BY <1>1, EventsAssumption DEF IdleCall, CallPcs
<1>3. calls \in [Calls -> [pc : CallPcs, event : Events, targets : SUBSET Ids,
                           left : [Ids -> 0..2]]]
  BY <1>2 DEF Init
<1>4. QED
  BY <1>3, EventsAssumption DEF Init, TypeOK, NoSpikes

LEMMA NextTypeOK == TypeOK /\ [Next]_vars => TypeOK'
<1> SUFFICES ASSUME TypeOK, [Next]_vars PROVE TypeOK'
  OBVIOUS
<1> USE EventsAssumption
<1>1. ASSUME NEW n \in Calls, NEW e \in Events, InjectSpike(n, e) PROVE TypeOK'
  <2>1. e.targets \subseteq Ids /\ UdpIds \subseteq Ids /\ joined \subseteq Ids
    BY DEF TypeOK, Ids
  <2> DEFINE targets == Targets(e)
  <2> DEFINE left == [p \in Ids |-> IF p \notin targets \cap UdpIds THEN 0
                                    ELSE IF e.targets = {} /\ p \in joined THEN 2 ELSE 1]
  <2> DEFINE c == [pc |-> "udp", event |-> e, targets |-> targets, left |-> left]
  <2>2. targets \in SUBSET Ids /\ left \in [Ids -> 0..2]
    BY <2>1 DEF Targets
  <2>3. calls' = [calls EXCEPT ![n] = c]
    BY <1>1 DEF InjectSpike
  <2> HIDE DEF targets, left
  <2>4. c \in [pc : CallPcs, event : Events, targets : SUBSET Ids, left : [Ids -> 0..2]]
    BY <2>2 DEF CallPcs
  <2>5. calls' \in [Calls -> [pc : CallPcs, event : Events, targets : SUBSET Ids,
                              left : [Ids -> 0..2]]]
    BY <2>3, <2>4 DEF TypeOK
  <2>6. QED
    BY <1>1, <2>5 DEF InjectSpike, TypeOK
<1>2. ASSUME NEW n \in Calls, NEW p \in UdpIds, AddToUdp(n, p) PROVE TypeOK'
  <2>1. calls' \in [Calls -> [pc : CallPcs, event : Events, targets : SUBSET Ids,
                              left : [Ids -> 0..2]]]
    BY <1>2, VisitKeeps, IdsFacts DEF AddToUdp
  <2>2. calls[n].event \in Events
    BY DEF TypeOK
  <2>3. udpSpikes' \in [UdpIds -> [SpikeIds -> Calls \cup {NoCall}]]
    BY <1>2, <2>2, PutType DEF AddToUdp, TypeOK
  <2>4. bitrate' \in Nat
    BY <1>2, <2>2 DEF AddToUdp, TypeOK
  <2>5. timers[p] \in [Calls -> Nat] /\ timers[p][n] + 1 \in Nat
    BY DEF TypeOK
  <2>6. timers' \in [UdpIds -> [Calls -> Nat]]
    BY <1>2, <2>5 DEF AddToUdp, TypeOK
  <2>7. QED
    BY <1>2, <2>1, <2>3, <2>4, <2>6 DEF AddToUdp, TypeOK
<1>3. ASSUME NEW n \in Calls, WalkWebrtc(n) PROVE TypeOK'
  <2> DEFINE left == [p \in Ids |-> IF p \in calls[n].targets \cap joined THEN 1 ELSE 0]
  <2>1. left \in [Ids -> 0..2] /\ "webrtc" \in CallPcs
    BY DEF CallPcs
  <2>2. calls' = CallAt(n, "webrtc", left)
    BY <1>3 DEF WalkWebrtc
  <2> HIDE DEF left
  <2>3. calls' \in [Calls -> [pc : CallPcs, event : Events, targets : SUBSET Ids,
                              left : [Ids -> 0..2]]]
    BY <2>1, <2>2, CallAtType
  <2>4. QED
    BY <1>3, <2>3 DEF WalkWebrtc, TypeOK
<1>4. ASSUME NEW n \in Calls, NEW p \in WebrtcIds, AddToWebrtc(n, p) PROVE TypeOK'
  <2>1. calls' \in [Calls -> [pc : CallPcs, event : Events, targets : SUBSET Ids,
                              left : [Ids -> 0..2]]]
    BY <1>4, VisitKeeps, IdsFacts DEF AddToWebrtc
  <2>2. calls[n].event \in Events
    BY DEF TypeOK
  <2>3. webrtcSpikes' \in [WebrtcIds -> [SpikeIds -> Calls \cup {NoCall}]]
    BY <1>4, <2>2, PutType DEF AddToWebrtc, TypeOK
  <2>4. QED
    BY <1>4, <2>1, <2>3 DEF AddToWebrtc, TypeOK
<1>5. ASSUME NEW n \in Calls, InjectReturns(n) PROVE TypeOK'
  <2>1. NoneLeft \in [Ids -> 0..2] /\ "done" \in CallPcs
    BY DEF NoneLeft, CallPcs
  <2>2. QED
    BY <1>5, <2>1, CallAtType DEF InjectReturns, TypeOK
<1>6. ASSUME NEW p \in UdpIds, NEW n \in Calls, RemoveSpike(p, n) PROVE TypeOK'
  <2>1. calls[n].event.id \in SpikeIds
    BY EventId DEF TypeOK
  <2>2. timers[p][n] \in Nat /\ timers[p][n] > 0
    BY <1>6 DEF RemoveSpike, TypeOK
  <2>3. timers[p][n] - 1 \in Nat
    BY <2>2
  <2>4. timers' \in [UdpIds -> [Calls -> Nat]]
    BY <1>6, <2>3 DEF RemoveSpike, TypeOK
  <2>5. udpSpikes' \in [UdpIds -> [SpikeIds -> Calls \cup {NoCall}]]
    BY <1>6, <2>1 DEF RemoveSpike, TypeOK
  <2>6. QED
    BY <1>6, <2>4, <2>5 DEF RemoveSpike, TypeOK
<1>7. ASSUME NEW p \in WebrtcIds, Join(p) \/ Leave(p) PROVE TypeOK'
  BY <1>7 DEF Join, Leave, TypeOK, NoSpikes
<1>8. CASE UNCHANGED vars
  BY <1>8 DEF vars, TypeOK
<1>9. QED
  BY <1>1, <1>2, <1>3, <1>4, <1>5, <1>6, <1>7, <1>8 DEF Next, CallNext

(* Every variable of the participants' spikes has its type, for any number of *)
(* participants and calls (participant.go:195-247).                            *)
THEOREM Typing == Spec => []TypeOK
BY InitTypeOK, NextTypeOK, PTL DEF Spec

-----------------------------------------------------------------------------
(* The inductive invariant. *)

LEMMA InitIInv == Init => IInv
<1> SUFFICES ASSUME Init PROVE IInv
  OBVIOUS
<1>1. TypeOK
  BY InitTypeOK
<1>2. \A n \in Calls : /\ calls[n].pc = "idle"
                       /\ \A p \in Ids : calls[n].left[p] = 0
  BY DEF Init, IdleCall, NoneLeft
<1>3. /\ \A p \in UdpIds, s \in SpikeIds : udpSpikes[p][s] = NoCall
      /\ \A p \in WebrtcIds, s \in SpikeIds : webrtcSpikes[p][s] = NoCall
  BY DEF Init, NoSpikes
<1>4. QED
  BY <1>1, <1>2, <1>3 DEF IInv, Reached, TargetsKept, RemovalArmed, OnlyTargets, Meant

(* What is on a participant: a call, begun, whose event is of that id. *)
LEMMA HeldIsACall ==
  ASSUME TypeOK, Reached
  PROVE  /\ \A p \in UdpIds, s \in SpikeIds :
              udpSpikes[p][s] # NoCall => /\ udpSpikes[p][s] \in Calls
                                          /\ calls[udpSpikes[p][s]].pc # "idle"
                                          /\ calls[udpSpikes[p][s]].event.id = s
         /\ \A p \in WebrtcIds, s \in SpikeIds :
              webrtcSpikes[p][s] # NoCall => /\ webrtcSpikes[p][s] \in Calls
                                             /\ calls[webrtcSpikes[p][s]].pc # "idle"
BY DEF TypeOK, Reached

(* Calls that go on without putting a spike anywhere disturb nothing, as long  *)
(* as a begun call keeps its event.                                            *)
LEMMA CallsOnly ==
  ASSUME IInv, UNCHANGED <<udpSpikes, webrtcSpikes, timers>>,
         \A k \in Calls : calls[k].pc # "idle" =>
           calls'[k].pc # "idle" /\ calls'[k].event = calls[k].event
  PROVE  Reached' /\ RemovalArmed' /\ OnlyTargets'
<1> USE DEF IInv
<1>1. udpSpikes' = udpSpikes /\ webrtcSpikes' = webrtcSpikes /\ timers' = timers
  OBVIOUS
<1>2. /\ \A p \in UdpIds, s \in SpikeIds :
           udpSpikes[p][s] # NoCall =>
             /\ calls'[udpSpikes[p][s]].pc # "idle"
             /\ calls'[udpSpikes[p][s]].event = calls[udpSpikes[p][s]].event
      /\ \A p \in WebrtcIds, s \in SpikeIds :
           webrtcSpikes[p][s] # NoCall =>
             /\ calls'[webrtcSpikes[p][s]].pc # "idle"
             /\ calls'[webrtcSpikes[p][s]].event = calls[webrtcSpikes[p][s]].event
  BY HeldIsACall
<1>3. Reached'
  BY <1>1, <1>2 DEF Reached
<1>4. RemovalArmed'
  BY <1>1, <1>2 DEF RemovalArmed
<1>5. OnlyTargets'
  <2>1. ASSUME NEW p \in UdpIds, NEW s \in SpikeIds, udpSpikes[p][s] # NoCall
        PROVE  Meant(p, udpSpikes[p][s])'
    BY <1>1, <1>2, <2>1 DEF OnlyTargets, Meant
  <2>2. ASSUME NEW p \in WebrtcIds, NEW s \in SpikeIds, webrtcSpikes[p][s] # NoCall
        PROVE  Meant(p, webrtcSpikes[p][s])'
    BY <1>1, <1>2, <2>2 DEF OnlyTargets, Meant
  <2>3. QED
    BY <1>1, <2>1, <2>2 DEF OnlyTargets
<1>6. QED
  BY <1>3, <1>4, <1>5

LEMMA InjectKeeps ==
  ASSUME IInv, NEW n \in Calls, NEW e \in Events, InjectSpike(n, e)
  PROVE  Reached' /\ TargetsKept' /\ RemovalArmed' /\ OnlyTargets'
<1> USE DEF IInv
<1>1. calls[n].pc = "idle" /\ UNCHANGED <<udpSpikes, webrtcSpikes, timers>>
  BY DEF InjectSpike
<1>2. \A k \in Calls : k # n => calls'[k] = calls[k]
  BY DEF InjectSpike, TypeOK
<1>3. /\ calls'[n].event = e
      /\ e.targets # {} => calls'[n].targets = e.targets
      /\ \A p \in Ids : calls'[n].left[p] > 0 => p \in calls'[n].targets
  BY DEF InjectSpike, Targets, TypeOK
<1>4. TargetsKept'
  BY <1>2, <1>3 DEF TargetsKept
<1>5. Reached' /\ RemovalArmed' /\ OnlyTargets'
  BY <1>1, <1>2, CallsOnly
<1>6. QED
  BY <1>4, <1>5

LEMMA WalkKeeps ==
  ASSUME IInv, NEW n \in Calls, WalkWebrtc(n) \/ InjectReturns(n)
  PROVE  Reached' /\ TargetsKept' /\ RemovalArmed' /\ OnlyTargets'
<1> USE DEF IInv
<1>1. PICK pc \in CallPcs \ {"idle"}, left \in [Ids -> 0..2] :
        /\ calls' = CallAt(n, pc, left)
        /\ \A p \in Ids : left[p] > 0 => p \in calls[n].targets
  <2>1. CASE WalkWebrtc(n)
    <3> DEFINE l == [p \in Ids |-> IF p \in calls[n].targets \cap joined THEN 1 ELSE 0]
    <3>1. l \in [Ids -> 0..2] /\ "webrtc" \in CallPcs \ {"idle"}
      BY DEF CallPcs
    <3>2. \A p \in Ids : l[p] > 0 => p \in calls[n].targets
      OBVIOUS
    <3>3. calls' = CallAt(n, "webrtc", l)
      BY <2>1 DEF WalkWebrtc
    <3> HIDE DEF l
    <3>4. QED
      BY <3>1, <3>2, <3>3
  <2>2. CASE InjectReturns(n)
    <3>1. NoneLeft \in [Ids -> 0..2] /\ "done" \in CallPcs \ {"idle"}
      BY DEF NoneLeft, CallPcs
    <3>2. \A p \in Ids : NoneLeft[p] > 0 => p \in calls[n].targets
      BY DEF NoneLeft
    <3>3. calls' = CallAt(n, "done", NoneLeft)
      BY <2>2 DEF InjectReturns
    <3>4. QED
      BY <3>1, <3>2, <3>3
  <2>3. QED
    BY <2>1, <2>2
<1>2. /\ calls'[n].pc = pc
      /\ calls'[n].left = left
      /\ \A k \in Calls : /\ calls'[k].event = calls[k].event
                          /\ calls'[k].targets = calls[k].targets
                          /\ k # n => calls'[k] = calls[k]
  BY <1>1, CallAtKeeps
<1>3. calls[n].pc # "idle" /\ UNCHANGED <<udpSpikes, webrtcSpikes, timers>>
  BY DEF WalkWebrtc, InjectReturns
<1>4. TargetsKept'
  BY <1>1, <1>2, <1>3 DEF TargetsKept
<1>5. \A k \in Calls : calls[k].pc # "idle" =>
        calls'[k].pc # "idle" /\ calls'[k].event = calls[k].event
  BY <1>1, <1>2
<1>6. Reached' /\ RemovalArmed' /\ OnlyTargets'
  BY <1>3, <1>5, CallsOnly
<1>7. QED
  BY <1>4, <1>6

LEMMA VisitKeepsTargets ==
  ASSUME IInv, NEW n \in Calls, NEW p \in Ids, Visit(n, p)
  PROVE  TargetsKept'
BY VisitKeeps DEF IInv, TargetsKept

LEMMA AddToUdpKeeps ==
  ASSUME IInv, NEW n \in Calls, NEW q \in UdpIds, AddToUdp(n, q)
  PROVE  Reached' /\ TargetsKept' /\ RemovalArmed' /\ OnlyTargets'
<1> USE DEF IInv
<1> DEFINE e == calls[n].event
<1>1. /\ calls[n].pc = "udp" /\ Visit(n, q)
      /\ udpSpikes' = Put(udpSpikes, q, n) /\ webrtcSpikes' = webrtcSpikes
  BY DEF AddToUdp
<1>2. q \in Ids /\ e \in Events /\ e.id \in SpikeIds /\ n # NoCall
  BY IdsFacts, EventId, NoCallIsNone DEF TypeOK
<1>3. /\ calls[n].left[q] > 0
      /\ \A k \in Calls : /\ calls'[k].pc = calls[k].pc
                          /\ calls'[k].event = calls[k].event
  BY <1>1, <1>2, VisitKeeps
\* Where it is put, and everywhere else.
<1>4. \A p \in UdpIds, s \in SpikeIds :
        \/ p = q /\ s = e.id /\ udpSpikes'[p][s] = n
        \/ udpSpikes'[p][s] = udpSpikes[p][s]
  BY <1>1, <1>2, PutType DEF TypeOK
<1>5. /\ e.timed => timers'[q][n] > 0
      /\ \A p \in UdpIds, k \in Calls : timers[p][k] > 0 => timers'[p][k] > 0
  <2>1. timers[q] \in [Calls -> Nat] /\ timers[q][n] \in Nat /\ timers[q][n] + 1 > 0
    BY DEF TypeOK
  <2>2. QED
    BY <2>1 DEF AddToUdp, TypeOK
<1>6. TargetsKept'
  BY <1>1, <1>2, VisitKeepsTargets
<1>7. Reached'
  <2>1. ASSUME NEW p \in UdpIds, NEW s \in SpikeIds, udpSpikes'[p][s] # NoCall
        PROVE  /\ calls'[udpSpikes'[p][s]].pc # "idle"
               /\ calls'[udpSpikes'[p][s]].event.id = s
    BY <1>1, <1>3, <1>4, <2>1, HeldIsACall
  <2>2. ASSUME NEW p \in WebrtcIds, NEW s \in SpikeIds, webrtcSpikes'[p][s] # NoCall
        PROVE  calls'[webrtcSpikes'[p][s]].pc # "idle"
    BY <1>1, <1>3, <2>2, HeldIsACall
  <2>3. QED
    BY <2>1, <2>2 DEF Reached
<1>8. RemovalArmed'
  <2>1. ASSUME NEW p \in UdpIds, NEW s \in SpikeIds, udpSpikes'[p][s] # NoCall,
               calls'[udpSpikes'[p][s]].event.timed
        PROVE  timers'[p][udpSpikes'[p][s]] > 0
    BY <1>3, <1>4, <1>5, <2>1, HeldIsACall DEF RemovalArmed
  <2>2. QED
    BY <2>1 DEF RemovalArmed
<1>9. OnlyTargets'
  <2>1. e.targets = {} \/ q \in e.targets
    BY <1>1, <1>2, <1>3 DEF TargetsKept
  <2>2. ASSUME NEW p \in UdpIds, NEW s \in SpikeIds, udpSpikes'[p][s] # NoCall,
               calls'[udpSpikes'[p][s]].event.targets # {}
        PROVE  p \in calls'[udpSpikes'[p][s]].event.targets
    BY <1>3, <1>4, <2>1, <2>2, HeldIsACall DEF OnlyTargets, Meant
  <2>3. ASSUME NEW p \in WebrtcIds, NEW s \in SpikeIds, webrtcSpikes'[p][s] # NoCall,
               calls'[webrtcSpikes'[p][s]].event.targets # {}
        PROVE  p \in calls'[webrtcSpikes'[p][s]].event.targets
    BY <1>1, <1>3, <2>3, HeldIsACall DEF OnlyTargets, Meant
  <2>4. QED
    BY <2>2, <2>3 DEF OnlyTargets, Meant
<1>10. QED
  BY <1>6, <1>7, <1>8, <1>9

LEMMA AddToWebrtcKeeps ==
  ASSUME IInv, NEW n \in Calls, NEW q \in WebrtcIds, AddToWebrtc(n, q)
  PROVE  Reached' /\ TargetsKept' /\ RemovalArmed' /\ OnlyTargets'
<1> USE DEF IInv
<1> DEFINE e == calls[n].event
<1>1. /\ calls[n].pc = "webrtc" /\ Visit(n, q) /\ webrtcSpikes' = Put(webrtcSpikes, q, n)
      /\ udpSpikes' = udpSpikes /\ timers' = timers
  BY DEF AddToWebrtc
<1>2. q \in Ids /\ e \in Events /\ n # NoCall
  BY IdsFacts, NoCallIsNone DEF TypeOK
<1>3. /\ calls[n].left[q] > 0
      /\ \A k \in Calls : /\ calls'[k].pc = calls[k].pc
                          /\ calls'[k].event = calls[k].event
  BY <1>1, <1>2, VisitKeeps
<1>4. \A p \in WebrtcIds, s \in SpikeIds :
        \/ p = q /\ webrtcSpikes'[p][s] = n
        \/ webrtcSpikes'[p][s] = webrtcSpikes[p][s]
  BY <1>1, <1>2, PutType DEF TypeOK
<1>5. TargetsKept'
  BY <1>1, <1>2, VisitKeepsTargets
<1>6. Reached'
  <2>1. ASSUME NEW p \in UdpIds, NEW s \in SpikeIds, udpSpikes'[p][s] # NoCall
        PROVE  /\ calls'[udpSpikes'[p][s]].pc # "idle"
               /\ calls'[udpSpikes'[p][s]].event.id = s
    BY <1>1, <1>3, <2>1, HeldIsACall
  <2>2. ASSUME NEW p \in WebrtcIds, NEW s \in SpikeIds, webrtcSpikes'[p][s] # NoCall
        PROVE  calls'[webrtcSpikes'[p][s]].pc # "idle"
    BY <1>1, <1>3, <1>4, <2>2, HeldIsACall
  <2>3. QED
    BY <2>1, <2>2 DEF Reached
<1>7. RemovalArmed'
  BY <1>1, <1>3, HeldIsACall DEF RemovalArmed
<1>8. OnlyTargets'
  <2>1. e.targets = {} \/ q \in e.targets
    BY <1>1, <1>2, <1>3 DEF TargetsKept
  <2>2. ASSUME NEW p \in UdpIds, NEW s \in SpikeIds, udpSpikes'[p][s] # NoCall,
               calls'[udpSpikes'[p][s]].event.targets # {}
        PROVE  p \in calls'[udpSpikes'[p][s]].event.targets
    BY <1>1, <1>3, <2>2, HeldIsACall DEF OnlyTargets, Meant
  <2>3. ASSUME NEW p \in WebrtcIds, NEW s \in SpikeIds, webrtcSpikes'[p][s] # NoCall,
               calls'[webrtcSpikes'[p][s]].event.targets # {}
        PROVE  p \in calls'[webrtcSpikes'[p][s]].event.targets
    BY <1>3, <1>4, <2>1, <2>3, HeldIsACall DEF OnlyTargets, Meant
  <2>4. QED
    BY <2>2, <2>3 DEF OnlyTargets, Meant
<1>9. QED
  BY <1>5, <1>6, <1>7, <1>8

LEMMA RemoveSpikeKeeps ==
  ASSUME IInv, NEW q \in UdpIds, NEW n \in Calls, RemoveSpike(q, n)
  PROVE  Reached' /\ TargetsKept' /\ RemovalArmed' /\ OnlyTargets'
<1> USE DEF IInv
<1>1. calls' = calls /\ webrtcSpikes' = webrtcSpikes
  BY DEF RemoveSpike
<1>2. \A p \in UdpIds, s \in SpikeIds :
        \/ udpSpikes'[p][s] = NoCall
        \/ /\ udpSpikes'[p][s] = udpSpikes[p][s]
           /\ p = q => s # calls[n].event.id
  BY EventId DEF RemoveSpike, TypeOK
<1>3. \A p \in UdpIds, k \in Calls : (p = q => k # n) => timers'[p][k] = timers[p][k]
  BY DEF RemoveSpike, TypeOK
<1>4. RemovalArmed'
  <2>1. ASSUME NEW p \in UdpIds, NEW s \in SpikeIds, udpSpikes'[p][s] # NoCall,
               calls'[udpSpikes'[p][s]].event.timed
        PROVE  timers'[p][udpSpikes'[p][s]] > 0
    <3>1. /\ udpSpikes'[p][s] = udpSpikes[p][s]
          /\ udpSpikes[p][s] \in Calls /\ calls[udpSpikes[p][s]].event.id = s
      BY <1>2, <2>1, HeldIsACall
    <3>2. p = q => udpSpikes[p][s] # n
      BY <1>2, <2>1, <3>1
    <3>3. timers[p][udpSpikes[p][s]] > 0
      BY <1>1, <2>1, <3>1 DEF RemovalArmed
    <3>4. QED
      BY <1>3, <3>1, <3>2, <3>3
  <2>2. QED
    BY <2>1 DEF RemovalArmed
<1>5. Reached'
  BY <1>1, <1>2 DEF Reached
<1>6. TargetsKept'
  BY <1>1 DEF TargetsKept
<1>7. OnlyTargets'
  BY <1>1, <1>2 DEF OnlyTargets, Meant
<1>8. QED
  BY <1>4, <1>5, <1>6, <1>7

LEMMA ComeAndGoKeeps ==
  ASSUME IInv, NEW q \in WebrtcIds, Join(q) \/ Leave(q)
  PROVE  Reached' /\ TargetsKept' /\ RemovalArmed' /\ OnlyTargets'
<1> USE DEF IInv
<1>1. calls' = calls /\ udpSpikes' = udpSpikes /\ timers' = timers
  BY DEF Join, Leave
<1>2. \A p \in WebrtcIds, s \in SpikeIds :
        \/ webrtcSpikes'[p][s] = NoCall
        \/ webrtcSpikes'[p][s] = webrtcSpikes[p][s]
  BY DEF Join, Leave, TypeOK, NoSpikes
<1>3. Reached'
  BY <1>1, <1>2 DEF Reached
<1>4. TargetsKept' /\ RemovalArmed'
  BY <1>1 DEF TargetsKept, RemovalArmed
<1>5. OnlyTargets'
  BY <1>1, <1>2 DEF OnlyTargets, Meant
<1>6. QED
  BY <1>3, <1>4, <1>5

LEMMA NextIInv == IInv /\ [Next]_vars => IInv'
<1> SUFFICES ASSUME IInv, [Next]_vars PROVE IInv'
  OBVIOUS
<1>1. TypeOK'
  BY NextTypeOK DEF IInv
<1>2. ASSUME NEW n \in Calls, NEW e \in Events, InjectSpike(n, e) PROVE IInv'
  BY <1>1, <1>2, InjectKeeps DEF IInv
<1>3. ASSUME NEW n \in Calls, NEW p \in UdpIds, AddToUdp(n, p) PROVE IInv'
  BY <1>1, <1>3, AddToUdpKeeps DEF IInv
<1>4. ASSUME NEW n \in Calls, NEW p \in WebrtcIds, AddToWebrtc(n, p) PROVE IInv'
  BY <1>1, <1>4, AddToWebrtcKeeps DEF IInv
<1>5. ASSUME NEW p \in UdpIds, NEW n \in Calls, RemoveSpike(p, n) PROVE IInv'
  BY <1>1, <1>5, RemoveSpikeKeeps DEF IInv
<1>6. ASSUME NEW p \in WebrtcIds, Join(p) \/ Leave(p) PROVE IInv'
  BY <1>1, <1>6, ComeAndGoKeeps DEF IInv
<1>7. ASSUME NEW n \in Calls, WalkWebrtc(n) \/ InjectReturns(n) PROVE IInv'
  BY <1>1, <1>7, WalkKeeps DEF IInv
<1>8. CASE UNCHANGED vars
  BY <1>1, <1>8 DEF vars, IInv, Reached, TargetsKept, RemovalArmed, OnlyTargets, Meant
<1>9. QED
  BY <1>2, <1>3, <1>4, <1>5, <1>6, <1>7, <1>8 DEF Next, CallNext

LEMMA SpikesInvariant == Spec => []IInv
BY InitIInv, NextIInv, PTL DEF Spec

(* A timed spike on a UDP participant always has its own removal coming, *)
(* however often its id is used again (participant.go:195-222).          *)
THEOREM RemovalAlwaysArmed == Spec => []RemovalArmed
<1>1. IInv => RemovalArmed
  BY DEF IInv
<1>2. QED
  BY <1>1, SpikesInvariant, PTL

-----------------------------------------------------------------------------
(* Everybody the event is for.  An untargeted spike lists every UDP id, so     *)
(* whoever joins later is listed too, and no one joins during the walk.        *)
WalkReaches ==
  \A n \in Calls :
    /\ calls[n].pc # "idle" /\ calls[n].event.targets = {} => UdpIds \subseteq calls[n].targets
    /\ calls[n].pc = "webrtc" =>
         \A p \in joined : Meant(p, n) =>
           calls[n].left[p] > 0 \/ webrtcSpikes[p][calls[n].event.id] # NoCall

(* A call in its UDP walk, or none yet, has not to have reached anybody.       *)
LEMMA NotWalkingYet ==
  ASSUME IInv, WalkReaches, NEW n \in Calls, calls'[n].pc = "udp", joined' = joined,
         calls'[n].event.targets = {} => UdpIds \subseteq calls'[n].targets,
         \A k \in Calls : k # n => calls'[k] = calls[k],
         webrtcSpikes' = webrtcSpikes
  PROVE  WalkReaches'
BY DEF WalkReaches, Meant

LEMMA VisitOne ==
  ASSUME TypeOK, NEW n \in Calls, NEW p \in Ids, Visit(n, p)
  PROVE  \A k \in Calls : /\ k # n => calls'[k] = calls[k]
                          /\ \A q \in Ids : q # p => calls'[k].left[q] = calls[k].left[q]
<1>1. calls[n].left \in [Ids -> 0..2] /\ calls[n].pc \in CallPcs /\ calls[n].left[p] > 0
  BY DEF TypeOK, Visit
<1> DEFINE less == [calls[n].left EXCEPT ![p] = calls[n].left[p] - 1]
<1>2. less \in [Ids -> 0..2] /\ \A q \in Ids : q # p => less[q] = calls[n].left[q]
  BY <1>1, OneLess
<1>3. calls' = CallAt(n, calls[n].pc, less)
  BY DEF Visit
<1> HIDE DEF less
<1>4. calls'[n].left = less /\ \A k \in Calls : k # n => calls'[k] = calls[k]
  BY <1>1, <1>2, <1>3, CallAtKeeps
<1>5. QED
  BY <1>2, <1>4

LEMMA NextWalkReaches == IInv /\ WalkReaches /\ [Next]_vars => WalkReaches'
<1> SUFFICES ASSUME IInv, WalkReaches, [Next]_vars PROVE WalkReaches'
  OBVIOUS
<1>0. TypeOK /\ TargetsKept
  BY DEF IInv
<1>1. ASSUME NEW n \in Calls, NEW e \in Events, InjectSpike(n, e) PROVE WalkReaches'
  <2>1. /\ calls'[n].pc = "udp" /\ calls'[n].event = e /\ calls'[n].targets = Targets(e)
        /\ \A k \in Calls : k # n => calls'[k] = calls[k]
        /\ joined' = joined /\ webrtcSpikes' = webrtcSpikes
    BY <1>0, <1>1 DEF InjectSpike, TypeOK
  <2>2. QED
    BY <2>1, NotWalkingYet DEF Targets
<1>2. ASSUME NEW n \in Calls, NEW p \in UdpIds, AddToUdp(n, p) PROVE WalkReaches'
  <2>1. /\ calls[n].pc = "udp" /\ Visit(n, p)
        /\ joined' = joined /\ webrtcSpikes' = webrtcSpikes
    BY <1>2 DEF AddToUdp
  <2>2. /\ calls'[n].pc = "udp" /\ calls'[n].event = calls[n].event
        /\ calls'[n].targets = calls[n].targets
        /\ \A k \in Calls : k # n => calls'[k] = calls[k]
    BY <1>0, <2>1, IdsFacts, VisitKeeps, VisitOne
  <2>3. calls'[n].event.targets = {} => UdpIds \subseteq calls'[n].targets
    BY <2>1, <2>2 DEF WalkReaches
  <2>4. QED
    BY <2>1, <2>2, <2>3, NotWalkingYet
<1>3. ASSUME NEW n \in Calls, WalkWebrtc(n) PROVE WalkReaches'
  <2> DEFINE left == [p \in Ids |-> IF p \in calls[n].targets \cap joined THEN 1 ELSE 0]
  <2>1. left \in [Ids -> 0..2] /\ "webrtc" \in CallPcs
    BY DEF CallPcs
  <2>2. \A p \in joined : p \in calls[n].targets => left[p] > 0
    BY <1>0 DEF TypeOK, Ids
  <2>3. calls' = CallAt(n, "webrtc", left) /\ joined' = joined /\ webrtcSpikes' = webrtcSpikes
        /\ calls[n].pc = "udp"
    BY <1>3 DEF WalkWebrtc
  <2> HIDE DEF left
  <2>4. /\ calls'[n].left = left
        /\ \A k \in Calls : /\ calls'[k].event = calls[k].event
                            /\ calls'[k].targets = calls[k].targets
                            /\ k # n => calls'[k] = calls[k]
    BY <1>0, <2>1, <2>3, CallAtKeeps
  <2>5. ASSUME NEW p \in joined, Meant(p, n) PROVE p \in calls[n].targets
    <3>1. p \in UdpIds
      BY <1>0, TwinAssumption DEF TypeOK
    <3>2. QED
      BY <1>0, <2>3, <2>5, <3>1 DEF Meant, TargetsKept, WalkReaches
  <2>6. ASSUME NEW p \in joined, Meant(p, n) PROVE calls'[n].left[p] > 0
    BY <2>2, <2>4, <2>5, <2>6
  <2>7. calls[n].event.targets = {} => UdpIds \subseteq calls[n].targets
    BY <2>3 DEF WalkReaches
  <2>8. QED
    BY <2>3, <2>4, <2>6, <2>7 DEF WalkReaches, Meant
<1>4. ASSUME NEW n \in Calls, NEW q \in WebrtcIds, AddToWebrtc(n, q) PROVE WalkReaches'
  <2>1. /\ calls[n].pc = "webrtc" /\ Visit(n, q) /\ webrtcSpikes' = Put(webrtcSpikes, q, n)
        /\ joined' = joined
    BY <1>4 DEF AddToWebrtc
  <2>2. q \in Ids /\ calls[n].event \in Events /\ calls[n].event.id \in SpikeIds
        /\ n # NoCall /\ joined \subseteq WebrtcIds
    BY <1>0, IdsFacts, EventId, NoCallIsNone DEF TypeOK
  <2>3. \A k \in Calls : /\ calls'[k].pc = calls[k].pc
                         /\ calls'[k].event = calls[k].event
                         /\ calls'[k].targets = calls[k].targets
                         /\ k # n => calls'[k] = calls[k]
                         /\ \A p \in Ids : p # q => calls'[k].left[p] = calls[k].left[p]
    BY <1>0, <2>1, <2>2, VisitKeeps, VisitOne
  <2>4. \A p \in WebrtcIds, s \in SpikeIds :
          \/ p = q /\ s = calls[n].event.id /\ webrtcSpikes'[p][s] = n
          \/ ~(p = q /\ s = calls[n].event.id) /\ webrtcSpikes'[p][s] = webrtcSpikes[p][s]
    <3>1. webrtcSpikes \in [WebrtcIds -> [SpikeIds -> Calls \cup {NoCall}]]
      BY <1>0 DEF TypeOK
    <3>2. PICK i \in SpikeIds : i = calls[n].event.id
      BY <2>2
    <3>3. webrtcSpikes' = [webrtcSpikes EXCEPT ![q] = [webrtcSpikes[q] EXCEPT ![i] = n]]
      BY <2>1, <3>2 DEF Put
    <3>4. \A p \in WebrtcIds, s \in SpikeIds :
            \/ p = q /\ s = i /\ webrtcSpikes'[p][s] = n
            \/ ~(p = q /\ s = i) /\ webrtcSpikes'[p][s] = webrtcSpikes[p][s]
      BY <3>1, <3>3
    <3>5. QED
      BY <3>2, <3>4, Zenon
  <2>5. ASSUME NEW k \in Calls, calls'[k].pc = "webrtc", NEW p \in joined, Meant(p, k)
        PROVE  calls'[k].left[p] > 0 \/ webrtcSpikes'[p][calls[k].event.id] # NoCall
    <3>1. p \in WebrtcIds /\ p \in Ids /\ calls[k].event.id \in SpikeIds
      BY <1>0, <2>2, IdsFacts, EventId DEF TypeOK
    <3>2. calls[k].left[p] > 0 \/ webrtcSpikes[p][calls[k].event.id] # NoCall
      BY <2>3, <2>5 DEF WalkReaches
    <3>3. CASE k = n /\ p = q
      BY <2>2, <2>4, <3>1, <3>3
    <3>4. CASE k # n \/ p # q
      BY <2>2, <2>3, <2>4, <3>1, <3>2, <3>4
    <3>5. QED
      BY <3>3, <3>4
  <2>6. QED
    BY <2>1, <2>3, <2>5 DEF WalkReaches, Meant
<1>5. ASSUME NEW n \in Calls, InjectReturns(n) PROVE WalkReaches'
  <2>1. NoneLeft \in [Ids -> 0..2] /\ "done" \in CallPcs
    BY DEF NoneLeft, CallPcs
  <2>2. calls' = CallAt(n, "done", NoneLeft) /\ joined' = joined /\ webrtcSpikes' = webrtcSpikes
        /\ calls[n].pc = "webrtc"
    BY <1>5 DEF InjectReturns
  <2>3. /\ calls'[n].pc = "done"
        /\ \A k \in Calls : /\ calls'[k].event = calls[k].event
                            /\ calls'[k].targets = calls[k].targets
                            /\ k # n => calls'[k] = calls[k]
    BY <1>0, <2>1, <2>2, CallAtKeeps
  <2>4. QED
    BY <2>2, <2>3 DEF WalkReaches, Meant
<1>6. ASSUME NEW p \in UdpIds, NEW n \in Calls, RemoveSpike(p, n) PROVE WalkReaches'
  BY <1>6 DEF RemoveSpike, WalkReaches, Meant
<1>7. ASSUME NEW p \in WebrtcIds, Join(p) \/ Leave(p) PROVE WalkReaches'
  BY <1>7 DEF Join, Leave, Walking, WalkReaches, Meant
<1>8. CASE UNCHANGED vars
  BY <1>8 DEF vars, WalkReaches, Meant
<1>9. QED
  BY <1>1, <1>2, <1>3, <1>4, <1>5, <1>6, <1>7, <1>8 DEF Next, CallNext

(* A spike gets to those it is meant for and to nobody else, whoever joins or *)
(* leaves while it is injected (participant.go:195-241).                       *)
THEOREM TargetsJustReached == Spec => []JustTargets
<1>1. Init => WalkReaches
  <2>1. Init => \A n \in Calls : calls[n].pc = "idle"
    BY DEF Init, IdleCall
  <2>2. QED
    BY <2>1 DEF WalkReaches
<1>2. IInv /\ WalkReaches => JustTargets
  <2> SUFFICES ASSUME IInv, WalkReaches, NEW n \in Calls, calls[n].pc = "webrtc",
                      calls[n].left = NoneLeft, NEW p \in joined, Meant(p, n)
               PROVE  webrtcSpikes[p][calls[n].event.id] # NoCall
    BY DEF JustTargets, AllTargets, IInv
  <2>1. p \in Ids
    BY DEF IInv, TypeOK, Ids
  <2>2. ~(calls[n].left[p] > 0)
    BY <2>1 DEF NoneLeft
  <2>3. QED
    BY <2>2 DEF WalkReaches
<1>3. QED
  BY <1>1, <1>2, NextWalkReaches, SpikesInvariant, PTL DEF Spec
=============================================================================
