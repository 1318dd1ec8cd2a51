-------------------------- MODULE WebRTCReceiverProofs --------------------------
(***************************************************************************)
(* Proofs about WebRTCReceiver, for any setups, participants and attempts:   *)
(* its types; that no peer connection of the client is left behind; that a    *)
(* connection in the client's list is the one the server answered; that who   *)
(* is not connected had trouble in every attempt; and that the discovery      *)
(* finds as many participants as it should.                                  *)
(***************************************************************************)
EXTENDS WebRTCReceiver, WellFoundedInduction, FiniteSetTheorems, TLAPS

(* The shape of the three parts of the state.                                  *)
ServerTypes ==
  /\ test \in {"unknown", "stopped", "live"} /\ mine \subseteq Ids
  /\ member \in [Ids -> Maker]
  /\ object \in [Attempts -> [offered : BOOLEAN, remote : Maker, closed : BOOLEAN]]
  /\ sdp \in [Attempts -> [step : SdpSteps, found : Maker, awaited : BOOLEAN]]
  /\ answer \in [Attempts -> [step : AnswerSteps, found : Maker, awaited : BOOLEAN]]

ClientTypes ==
  /\ worker \in [Ids -> [step : WorkerSteps, k : 0..Tries]]
  /\ peer \in [Attempts -> [state : {"none", "open", "closed"}, offer : Maker,
                             reader : {"none", "reading", "ended"}]]
  /\ connections \subseteq Attempts

MainTypes ==
  /\ main \in MainSteps /\ wave \in 0..2
  /\ found \subseteq mine /\ remaining \subseteq found /\ failed \subseteq found

Searching == main \in {"metrics", "health", "probe", "probing"}

(* Only who was found is connected to, and only between the search and the     *)
(* statistics; who is still waiting for a token has no goroutine.              *)
Calm ==
  /\ setup \in Setups
  /\ Searching => remaining = {} /\ failed = {} /\ \A id \in Ids : worker[id].step = "idle"
  /\ main = "probing" => Candidate \in mine
  /\ main \in {"stats", "closed"} => Running = {}
  /\ \A id \in Ids : worker[id].step # "idle" => id \in found
  /\ \A id \in remaining : worker[id].step \in {"idle", "done"}

IInv == ServerTypes /\ ClientTypes /\ MainTypes /\ Calm /\ NothingLeaks

-----------------------------------------------------------------------------
LEMMA Makers == None \in Maker /\ 0..Tries \subseteq Maker
BY DEF Maker

LEMMA AttemptParts ==
  ASSUME NEW a \in Attempts
  PROVE  a[1] \in Ids /\ a[2] \in 0..Tries /\ a = <<a[1], a[2]>>
BY DEF Attempts

LEMMA AttemptOf ==
  ASSUME NEW id \in Ids, NEW k \in 0..Tries
  PROVE  <<id, k>> \in Attempts
BY DEF Attempts

LEMMA NowIsAttempt ==
  ASSUME ClientTypes, NEW id \in Ids
  PROVE  Now(id) \in Attempts /\ Now(id)[1] = id
BY DEF Now, Attempts, ClientTypes

LEMMA SdpStepType ==
  ASSUME ServerTypes, NEW a \in Attempts, NEW step \in SdpSteps, NEW f \in Maker, SdpStep(a, step, f)
  PROVE  sdp' \in [Attempts -> [step : SdpSteps, found : Maker, awaited : BOOLEAN]]
BY DEF SdpStep, ServerTypes

LEMMA AnswerStepType ==
  ASSUME ServerTypes, NEW a \in Attempts, NEW step \in AnswerSteps, NEW f \in Maker,
         AnswerStep(a, step, f)
  PROVE  answer' \in [Attempts -> [step : AnswerSteps, found : Maker, awaited : BOOLEAN]]
BY DEF AnswerStep, ServerTypes

LEMMA ObjectType ==
  ASSUME ServerTypes, NEW o, NEW r \in Maker,
         \/ UNCHANGED object
         \/ object' = [object EXCEPT ![o].offered = TRUE]
         \/ object' = [object EXCEPT ![o].remote = r]
  PROVE  object' \in [Attempts -> [offered : BOOLEAN, remote : Maker, closed : BOOLEAN]]
<1> DEFINE R == [offered : BOOLEAN, remote : Maker, closed : BOOLEAN]
<1>1. object \in [Attempts -> R]
  BY DEF ServerTypes
<1>2. CASE UNCHANGED object
  BY <1>1, <1>2
<1>3. CASE object' = [object EXCEPT ![o].offered = TRUE]
  BY <1>1, <1>3
<1>4. CASE object' = [object EXCEPT ![o].remote = r]
  BY <1>1, <1>4
<1>5. QED
  BY <1>2, <1>3, <1>4

(* A served request keeps the types of the server.                             *)
LEMMA ServeTypes ==
  ASSUME ServerTypes, NEW a \in Attempts, ServeSdp(a) \/ ServeAnswer(a)
  PROVE  ServerTypes'
<1> USE Makers, AttemptParts
<1>1. CASE SdpLookup(a)
  <2>1. member[a[1]] \in Maker
    BY DEF ServerTypes
  <2>2. PICK step \in SdpSteps : SdpStep(a, step, member[a[1]])
    BY <1>1 DEF SdpLookup, SdpSteps
  <2>3. QED
    BY <1>1, <2>1, <2>2, SdpStepType DEF SdpLookup, ServerTypes
<1>2. CASE SdpClose(a)
  <2>1. object' \in [Attempts -> [offered : BOOLEAN, remote : Maker, closed : BOOLEAN]]
    BY <1>2 DEF SdpClose, ServerTypes
  <2>2. SdpStep(a, "remove", None) /\ "remove" \in SdpSteps
    BY <1>2 DEF SdpClose, SdpSteps
  <2>3. QED
    BY <1>2, <2>1, <2>2, SdpStepType DEF SdpClose, ServerTypes
<1>3. CASE SdpRemove(a)
  <2>1. SdpStep(a, "create", None) /\ "create" \in SdpSteps
    BY <1>3 DEF SdpRemove, SdpSteps
  <2>2. QED
    BY <1>3, <2>1, SdpStepType DEF SdpRemove, ServerTypes
<1>4. CASE SdpCreate(a)
  <2>1. PICK step \in SdpSteps, f \in Maker : SdpStep(a, step, f)
    BY <1>4 DEF SdpCreate, SdpSteps
  <2>2. member' \in [Ids -> Maker]
    BY <1>4 DEF SdpCreate, ServerTypes
  <2>3. QED
    BY <1>4, <2>1, <2>2, SdpStepType DEF SdpCreate, ServerTypes
<1>5. CASE SdpOffer(a)
  <2>1. sdp[a].found \in Maker
    BY DEF ServerTypes
  <2>2. \/ SdpStep(a, "error", None)
        \/ SdpStep(a, "ok", sdp[a].found)
    BY <1>5 DEF SdpOffer
  <2>3. object' \in [Attempts -> [offered : BOOLEAN, remote : Maker, closed : BOOLEAN]]
    <3>1. \/ UNCHANGED object
          \/ object' = [object EXCEPT ![<<a[1], sdp[a].found>>].offered = TRUE]
      BY <1>5 DEF SdpOffer
    <3>2. QED
      BY <3>1, ObjectType
  <2>4. QED
    BY <1>5, <2>1, <2>2, <2>3, SdpStepType DEF SdpOffer, ServerTypes, SdpSteps
<1>6. CASE AnswerLookup(a)
  <2>1. member[a[1]] \in Maker
    BY DEF ServerTypes
  <2>2. PICK step \in AnswerSteps : AnswerStep(a, step, member[a[1]])
    BY <1>6 DEF AnswerLookup, AnswerSteps
  <2>3. QED
    BY <1>6, <2>1, <2>2, AnswerStepType DEF AnswerLookup, ServerTypes
<1>7. CASE SetRemoteAnswer(a)
  <2>1. answer[a].found \in Maker
    BY DEF ServerTypes
  <2>2. \/ AnswerStep(a, "ok", answer[a].found)
        \/ AnswerStep(a, "error", answer[a].found)
    BY <1>7 DEF SetRemoteAnswer
  <2>3. object' \in [Attempts -> [offered : BOOLEAN, remote : Maker, closed : BOOLEAN]]
    <3>1. \/ UNCHANGED object
          \/ object' = [object EXCEPT ![<<a[1], answer[a].found>>].remote = a[2]]
      BY <1>7 DEF SetRemoteAnswer
    <3>2. QED
      BY <3>1, ObjectType
  <2>4. QED
    BY <1>7, <2>1, <2>2, <2>3, AnswerStepType DEF SetRemoteAnswer, ServerTypes, AnswerSteps
<1>8. QED
  BY <1>1, <1>2, <1>3, <1>4, <1>5, <1>6, <1>7 DEF ServeSdp, ServeAnswer

-----------------------------------------------------------------------------
(* The goroutines of the client. *)

LEMMA OpenedType ==
  ASSUME ClientTypes, NEW a \in Attempts, NEW o \in Maker, Opened(a, o)
  PROVE  peer' \in [Attempts -> [state : {"none", "open", "closed"}, offer : Maker,
                                 reader : {"none", "reading", "ended"}]]
BY DEF Opened, ClientTypes

LEMMA ClosedType ==
  ASSUME ClientTypes, NEW a \in Attempts, Closed(a)
  PROVE  peer' \in [Attempts -> [state : {"none", "open", "closed"}, offer : Maker,
                                 reader : {"none", "reading", "ended"}]]
BY DEF Closed, ClientTypes

LEMMA GoType ==
  ASSUME ClientTypes, NEW id \in Ids, NEW step \in WorkerSteps, Go(id, step)
  PROVE  /\ worker' \in [Ids -> [step : WorkerSteps, k : 0..Tries]]
         /\ worker'[id] = [step |-> step, k |-> worker[id].k]
         /\ \A other \in Ids \ {id} : worker'[other] = worker[other]
<1> DEFINE W == [step : WorkerSteps, k : 0..Tries]
<1>1. worker \in [Ids -> W] /\ worker' = [worker EXCEPT ![id].step = step]
  BY DEF ClientTypes, Go
<1>2. worker[id] \in W
  BY <1>1
<1>3. worker'[id] = [worker[id] EXCEPT !.step = step]
  BY <1>1
<1>4. worker'[id] = [step |-> step, k |-> worker[id].k]
  BY <1>2, <1>3
<1>5. \A other \in Ids \ {id} : worker'[other] = worker[other]
  BY <1>1
<1>6. worker' \in [Ids -> W]
  BY <1>1, <1>2, <1>4
<1>7. QED
  BY <1>4, <1>5, <1>6

(* A goroutine's step, the kept connections and what becomes of its own peer   *)
(* connection decide whether one is left behind.                               *)
LEMMA StepLeavesNone ==
  ASSUME ClientTypes, NothingLeaks, NEW id \in Ids, NEW step \in WorkerSteps, Go(id, step),
         main' = main, connections \subseteq connections',
         \A a \in Attempts \ {Now(id)} : peer'[a] = peer[a],
         peer'[Now(id)].state = "open" =>
           /\ main # "closed"
           /\ Now(id) \in connections' \/ step \in {"describe", "post", "ice", "record"}
  PROVE  NothingLeaks'
<1> SUFFICES ASSUME NEW a \in Attempts, peer'[a].state = "open"
             PROVE  /\ main' # "closed"
                    /\ \/ a \in connections'
                       \/ /\ Now(a[1])' = a
                          /\ worker'[a[1]].step \in {"describe", "post", "ice", "record"}
  BY DEF NothingLeaks
<1>1. a[1] \in Ids
  BY AttemptParts
<1>2. worker'[id] = [step |-> step, k |-> worker[id].k]
  BY GoType
<1>3. Now(id)' = Now(id)
  BY <1>2 DEF Now
<1>4. CASE a = Now(id)
  <2>1. a[1] = id
    BY <1>4 DEF Now
  <2>2. worker'[a[1]].step = step
    BY <1>2, <2>1
  <2>3. QED
    BY <1>3, <1>4, <2>1, <2>2
<1>5. CASE a # Now(id)
  <2>1. peer[a].state = "open"
    BY <1>5
  <2>2. /\ main # "closed"
        /\ a \in connections \/ (Now(a[1]) = a /\ worker[a[1]].step \in {"describe", "post", "ice", "record"})
    BY <2>1 DEF NothingLeaks
  <2>3. CASE a \in connections
    BY <2>2, <2>3
  <2>4. CASE Now(a[1]) = a /\ worker[a[1]].step \in {"describe", "post", "ice", "record"}
    <3>1. a[1] # id
      BY <1>5, <2>4
    <3>2. worker'[a[1]] = worker[a[1]]
      BY <1>1, <3>1, GoType
    <3>3. QED
      BY <2>2, <2>4, <3>2 DEF Now
  <2>5. QED
    BY <2>2, <2>3, <2>4
<1>6. QED
  BY <1>4, <1>5

LEMMA ConnectingGoes ==
  ASSUME NEW id \in Ids, ConnectStep(id) \/ ConnectFault(id)
  PROVE  /\ worker[id].step \in {"get", "describe", "post", "ice", "record"}
         /\ \E step \in WorkerSteps \ {"idle"} : Go(id, step)
BY DEF ConnectStep, ConnectFault, OfferComes, OfferTimesOut, Describe, DescribeFails, AnswerRefused,
       AnswerTaken, AnswerTimesOut, ConnectReturns, Record, WorkerSteps

LEMMA SdpGivenUpType ==
  ASSUME ServerTypes, NEW a, sdp' = [sdp EXCEPT ![a].awaited = FALSE]
  PROVE  sdp' \in [Attempts -> [step : SdpSteps, found : Maker, awaited : BOOLEAN]]
BY DEF ServerTypes

LEMMA AnswerGivenUpType ==
  ASSUME ServerTypes, NEW a, answer' = [answer EXCEPT ![a].awaited = FALSE]
  PROVE  answer' \in [Attempts -> [step : AnswerSteps, found : Maker, awaited : BOOLEAN]]
BY DEF ServerTypes

(* A request given up, and a new one, keep the types of the server.            *)
LEMMA ConnectingServerTypes ==
  ASSUME ServerTypes, NEW id \in Ids, ConnectStep(id) \/ ConnectFault(id)
  PROVE  ServerTypes'
<1>1. /\ UNCHANGED <<test, mine, member, object>>
      /\ \/ UNCHANGED sdp
         \/ sdp' = [sdp EXCEPT ![Now(id)].awaited = FALSE]
      /\ \/ UNCHANGED answer
         \/ answer' = [answer EXCEPT ![Now(id)].awaited = FALSE]
         \/ answer' = [answer EXCEPT ![Now(id)] = Request("sent", None)]
  BY DEF ConnectStep, ConnectFault, OfferComes, OfferTimesOut, Describe, DescribeFails, AnswerRefused,
         AnswerTaken, AnswerTimesOut, ConnectReturns, Record, serverVars
<1>2. sdp' \in [Attempts -> [step : SdpSteps, found : Maker, awaited : BOOLEAN]]
  BY <1>1, SdpGivenUpType DEF ServerTypes
<1>3. answer' \in [Attempts -> [step : AnswerSteps, found : Maker, awaited : BOOLEAN]]
  <2>1. Request("sent", None) \in [step : AnswerSteps, found : Maker, awaited : BOOLEAN]
    BY Makers DEF Request, AnswerSteps
  <2>2. CASE answer' = [answer EXCEPT ![Now(id)] = Request("sent", None)]
    BY <2>1, <2>2 DEF ServerTypes
  <2>3. QED
    BY <1>1, <2>2, AnswerGivenUpType DEF ServerTypes
<1>4. QED
  BY <1>1, <1>2, <1>3 DEF ServerTypes

LEMMA ConnectingClientTypes ==
  ASSUME ServerTypes, ClientTypes, NEW id \in Ids, ConnectStep(id) \/ ConnectFault(id)
  PROVE  ClientTypes'
<1>1. Now(id) \in Attempts
  BY NowIsAttempt
<1>2. worker' \in [Ids -> [step : WorkerSteps, k : 0..Tries]]
  BY ConnectingGoes, GoType
<1>3. /\ \/ UNCHANGED peer
         \/ Opened(Now(id), sdp[Now(id)].found)
         \/ Closed(Now(id))
      /\ connections' \in {connections, connections \union {Now(id)}}
  BY DEF ConnectStep, ConnectFault, OfferComes, OfferTimesOut, Describe, DescribeFails, AnswerRefused,
         AnswerTaken, AnswerTimesOut, ConnectReturns, Record, serverVars
<1>4. sdp[Now(id)].found \in Maker
  BY <1>1 DEF ServerTypes
<1>5. peer' \in [Attempts -> [state : {"none", "open", "closed"}, offer : Maker,
                              reader : {"none", "reading", "ended"}]]
  <2>1. CASE UNCHANGED peer
    BY <2>1 DEF ClientTypes
  <2>2. CASE Opened(Now(id), sdp[Now(id)].found)
    BY <1>1, <1>4, <2>2, OpenedType
  <2>3. CASE Closed(Now(id))
    BY <1>1, <2>3, ClosedType
  <2>4. QED
    BY <1>3, <2>1, <2>2, <2>3
<1>6. QED
  BY <1>1, <1>2, <1>3, <1>5 DEF ClientTypes

(* Every way out of Connect closes the peer connection or lists it.            *)
LEMMA ConnectingLeavesNone ==
  ASSUME ClientTypes, NothingLeaks, main = "connect", main' = main,
         NEW id \in Ids, ConnectStep(id) \/ ConnectFault(id)
  PROVE  NothingLeaks'
<1> USE NowIsAttempt DEF WorkerSteps
<1>0. peer \in [Attempts -> [state : {"none", "open", "closed"}, offer : Maker,
                             reader : {"none", "reading", "ended"}]]
  BY DEF ClientTypes
<1>1. ASSUME Closed(Now(id))
      PROVE  /\ peer'[Now(id)].state = "closed"
             /\ \A a \in Attempts \ {Now(id)} : peer'[a] = peer[a]
  BY <1>0, <1>1 DEF Closed
<1>2. CASE OfferComes(id)
  <2>1. CASE Go(id, "describe") /\ Opened(Now(id), sdp[Now(id)].found)
    <3>1. \A a \in Attempts \ {Now(id)} : peer'[a] = peer[a]
      BY <1>0, <2>1 DEF Opened
    <3>2. connections' = connections
      BY <1>2 DEF OfferComes
    <3>3. QED
      BY <2>1, <3>1, <3>2, StepLeavesNone
  <2>2. CASE Go(id, "failed") /\ UNCHANGED peer
    <3>1. peer[Now(id)].state = "open" => Now(id) \in connections
      BY <1>2 DEF NothingLeaks, OfferComes
    <3>2. connections' = connections
      BY <1>2 DEF OfferComes
    <3>3. QED
      BY <2>2, <3>1, <3>2, StepLeavesNone
  <2>3. QED
    BY <1>2, <2>1, <2>2 DEF OfferComes
<1>3. CASE OfferTimesOut(id)
  <2>1. peer[Now(id)].state = "open" => Now(id) \in connections
    BY <1>3 DEF NothingLeaks, OfferTimesOut
  <2>2. Go(id, "failed") /\ connections' = connections /\ peer' = peer
    BY <1>3 DEF OfferTimesOut
  <2>3. QED
    BY <2>1, <2>2, StepLeavesNone
<1>4. CASE Describe(id)
  <2>1. Go(id, "post") /\ connections' = connections /\ peer' = peer
    BY <1>4 DEF Describe
  <2>2. QED
    BY <2>1, StepLeavesNone
<1>5. CASE DescribeFails(id) \/ AnswerRefused(id) \/ AnswerTimesOut(id)
  <2>1. Go(id, "failed") /\ Closed(Now(id)) /\ connections' = connections
    BY <1>5 DEF DescribeFails, AnswerRefused, AnswerTimesOut
  <2>2. QED
    BY <1>1, <2>1, StepLeavesNone
<1>6. CASE AnswerTaken(id)
  <2>1. Go(id, "ice") /\ connections' = connections /\ peer' = peer
    BY <1>6 DEF AnswerTaken
  <2>2. QED
    BY <2>1, StepLeavesNone
<1>7. CASE ConnectReturns(id)
  <2>1. Go(id, "record") /\ connections' = connections /\ peer' = peer
    BY <1>7 DEF ConnectReturns
  <2>2. QED
    BY <2>1, StepLeavesNone
<1>8. CASE Record(id)
  <2>1. Go(id, "done") /\ connections' = connections \union {Now(id)} /\ peer' = peer
    BY <1>8 DEF Record
  <2>2. QED
    BY <2>1, StepLeavesNone
<1>9. QED
  BY <1>2, <1>3, <1>4, <1>5, <1>6, <1>7, <1>8 DEF ConnectStep, ConnectFault

LEMMA ConnectingInvariant ==
  ASSUME IInv, NEW id \in Ids, Connecting(id)
  PROVE  IInv'
<1>1. Alive /\ (ConnectStep(id) \/ ConnectFault(id)) /\ UNCHANGED mainVars
  BY DEF Connecting
<1>2. worker[id].step \in {"get", "describe", "post", "ice", "record"}
  BY <1>1, ConnectingGoes
<1>3. main = "connect"
  <2>1. id \in Running
    BY <1>2 DEF Running
  <2>2. ~Searching
    BY <1>2 DEF IInv, Calm
  <2>3. QED
    BY <1>1, <2>1, <2>2 DEF IInv, Calm, MainTypes, MainSteps, Alive, Searching
<1>4. ServerTypes' /\ ClientTypes' /\ NothingLeaks'
  BY <1>1, <1>3, ConnectingServerTypes, ConnectingClientTypes, ConnectingLeavesNone DEF IInv, mainVars
<1>5. mine' = mine
  BY <1>1 DEF ConnectStep, ConnectFault, OfferComes, OfferTimesOut, Describe, DescribeFails, AnswerRefused,
         AnswerTaken, AnswerTimesOut, ConnectReturns, Record, serverVars
<1>6. MainTypes'
  BY <1>1, <1>5 DEF IInv, MainTypes, mainVars
<1>7. Calm'
  <2>1. PICK step \in WorkerSteps \ {"idle"} : Go(id, step)
    BY <1>1, ConnectingGoes
  <2>2. \A other \in Ids \ {id} : worker'[other] = worker[other]
    BY <2>1, GoType DEF IInv
  <2>3. id \in found /\ id \notin remaining
    BY <1>2 DEF IInv, Calm
  <2>4. remaining \subseteq Ids
    BY DEF IInv, MainTypes, ServerTypes
  <2>5. \A other \in remaining : worker'[other] = worker[other]
    BY <2>2, <2>3, <2>4
  <2>6. QED
    BY <1>1, <1>3, <2>2, <2>3, <2>5 DEF IInv, Calm, Searching, mainVars
<1>8. QED
  BY <1>4, <1>6, <1>7 DEF IInv

-----------------------------------------------------------------------------
(* The server and the peer connections. *)

LEMMA ServeInvariant ==
  ASSUME IInv, NEW a \in Attempts, Serve(a)
  PROVE  IInv'
<1>1. ServerTypes'
  BY ServeTypes DEF IInv, Serve
<1>2. UNCHANGED <<clientVars, mainVars>> /\ mine' = mine
  BY DEF Serve, ServeSdp, ServeAnswer, SdpLookup, SdpClose, SdpRemove, SdpCreate, SdpOffer, AnswerLookup,
         SetRemoteAnswer
<1>3. ClientTypes' /\ MainTypes'
  BY <1>2 DEF IInv, ClientTypes, MainTypes, clientVars, mainVars
<1>4. Calm' /\ NothingLeaks'
  BY <1>2 DEF IInv, Calm, Searching, Candidate, Running, NothingLeaks, Now, clientVars, mainVars
<1>5. QED
  BY <1>1, <1>3, <1>4 DEF IInv

LEMMA PeeringInvariant ==
  ASSUME IInv, NEW a \in Attempts, Peering(a)
  PROVE  IInv'
<1> DEFINE P == [state : {"none", "open", "closed"}, offer : Maker, reader : {"none", "reading", "ended"}]
<1>1. PICK r \in {"reading", "ended"} : peer' = [peer EXCEPT ![a].reader = r]
  BY DEF Peering, PeerEvent, TrackArrives, ReaderEnds
<1>2. UNCHANGED <<serverVars, worker, connections, faults>> /\ UNCHANGED mainVars
  BY DEF Peering, PeerEvent, TrackArrives, ReaderEnds
<1>3. peer \in [Attempts -> P]
  BY DEF IInv, ClientTypes
<1>4. peer' \in [Attempts -> P] /\ \A b \in Attempts : peer'[b].state = peer[b].state
  BY <1>1, <1>3
<1>5. ServerTypes' /\ ClientTypes' /\ MainTypes'
  BY <1>2, <1>4 DEF IInv, ServerTypes, ClientTypes, MainTypes, serverVars, mainVars
<1>6. Calm'
  BY <1>2 DEF IInv, Calm, Searching, Candidate, Running, serverVars, mainVars
<1>7. NothingLeaks'
  BY <1>2, <1>4 DEF IInv, NothingLeaks, Now, mainVars
<1>8. QED
  BY <1>5, <1>6, <1>7 DEF IInv

-----------------------------------------------------------------------------
(* The main goroutine. *)

(* What the main goroutine does to its own variables only.                     *)
LEMMA AsideInvariant ==
  ASSUME IInv, UNCHANGED <<serverVars, worker, peer, connections>>, setup' = setup, main # "closed",
         MainTypes', Calm',
         main' # "closed"
  PROVE  IInv'
<1>1. ServerTypes' /\ ClientTypes'
  BY DEF IInv, ServerTypes, ClientTypes, serverVars
<1>2. NothingLeaks'
  BY DEF IInv, NothingLeaks, Now
<1>3. QED
  BY <1>1, <1>2 DEF IInv

LEMMA StartConnectingInvariant ==
  ASSUME IInv, UNCHANGED <<serverVars, clientVars, setup, probe, failed>>, Searching,
         NEW ids \in SUBSET mine, StartConnecting(ids)
  PROVE  IInv'
<1>1. MainTypes'
  BY DEF IInv, MainTypes, Calm, Searching, StartConnecting, MainSteps, serverVars
<1>2. Calm'
  <2>1. ids \subseteq Ids
    BY DEF IInv, ServerTypes
  <2>2. QED
    BY <2>1 DEF IInv, Calm, Searching, StartConnecting, clientVars
<1>3. QED
  BY <1>1, <1>2, AsideInvariant DEF StartConnecting, Searching, clientVars

LEMMA SearchInvariant ==
  ASSUME IInv, FindByMetrics \/ MetricsFail \/ AskPartitions \/ ProbesEnd
  PROVE  IInv'
<1>1. CASE FindByMetrics
  <2>1. PICK ids \in SUBSET mine : StartConnecting(ids)
    BY <1>1 DEF FindByMetrics, kSubset
  <2>2. QED
    BY <1>1, <2>1, StartConnectingInvariant DEF FindByMetrics, Searching
<1>2. CASE ProbesEnd
  <2>1. found \in SUBSET mine
    BY DEF IInv, MainTypes
  <2>2. QED
    BY <1>2, <2>1, StartConnectingInvariant DEF ProbesEnd, Searching
<1>3. CASE MetricsFail
  <2>1. /\ main = "metrics" /\ main' \in {"health", "probe"}
        /\ UNCHANGED <<serverVars, worker, peer, connections, setup, found, wave, remaining, failed>>
    BY <1>3 DEF MetricsFail
  <2>2. MainTypes' /\ Calm'
    BY <2>1 DEF IInv, MainTypes, MainSteps, Calm, Searching, serverVars
  <2>3. QED
    BY <2>1, <2>2, AsideInvariant
<1>4. CASE AskPartitions
  <2>1. /\ main = "health" /\ main' = "probe"
        /\ UNCHANGED <<serverVars, worker, peer, connections, setup, found, wave, remaining, failed>>
    BY <1>4 DEF AskPartitions
  <2>2. MainTypes' /\ Calm'
    BY <2>1 DEF IInv, MainTypes, MainSteps, Calm, Searching, serverVars
  <2>3. QED
    BY <2>1, <2>2, AsideInvariant
<1>5. QED
  BY <1>1, <1>2, <1>3, <1>4

LEMMA ProbeInvariant ==
  ASSUME IInv, Probe \/ ProbeAnswered \/ ProbeTimesOut
  PROVE  IInv'
<1>1. CASE Probe
  <2>1. CASE Candidate \in mine
    <3>1. /\ main = "probe" /\ main' = "probing"
          /\ sdp' = [sdp EXCEPT ![<<Candidate, 0>>] = Request("sent", None)]
          /\ UNCHANGED <<test, mine, member, object, answer, clientVars, setup, probe, found, wave, remaining, failed>>
      BY <1>1, <2>1 DEF Probe
    <3>2. Request("sent", None) \in [step : SdpSteps, found : Maker, awaited : BOOLEAN]
      BY Makers DEF Request, SdpSteps
    <3>3. ServerTypes'
      BY <3>1, <3>2 DEF IInv, ServerTypes
    <3>4. ClientTypes' /\ MainTypes'
      BY <3>1 DEF IInv, ClientTypes, MainTypes, MainSteps, clientVars
    <3>5. Calm' /\ NothingLeaks'
      BY <2>1, <3>1 DEF IInv, Calm, Searching, Candidate, NothingLeaks, Now, clientVars
    <3>6. QED
      BY <3>3, <3>4, <3>5 DEF IInv
  <2>2. CASE Candidate \notin mine
    <3>1. main = "probe" /\ UNCHANGED <<serverVars, clientVars, main, setup, found, wave, remaining, failed>>
      BY <1>1, <2>2 DEF Probe, serverVars
    <3>2. MainTypes' /\ Calm'
      BY <3>1 DEF IInv, MainTypes, Calm, Searching, serverVars, clientVars
    <3>3. QED
      BY <3>1, <3>2, AsideInvariant DEF clientVars
  <2>3. QED
    BY <2>1, <2>2
<1>2. CASE ProbeAnswered
  <2>1. /\ main = "probing" /\ main' = "probe" /\ found' \in {found, found \union {Candidate}}
        /\ UNCHANGED <<serverVars, clientVars, setup, wave, remaining, failed>>
    BY <1>2 DEF ProbeAnswered
  <2>2. MainTypes' /\ Calm'
    BY <2>1 DEF IInv, MainTypes, MainSteps, Calm, Searching, serverVars, clientVars
  <2>3. QED
    BY <2>1, <2>2, AsideInvariant DEF clientVars
<1>3. CASE ProbeTimesOut
  <2>1. /\ main = "probing" /\ main' = "probe"
        /\ sdp' = [sdp EXCEPT ![<<Candidate, 0>>].awaited = FALSE]
        /\ UNCHANGED <<test, mine, member, object, answer, worker, peer, connections, setup, found, wave, remaining, failed>>
    BY <1>3 DEF ProbeTimesOut
  <2>2. ServerTypes'
    BY <2>1, SdpGivenUpType DEF IInv, ServerTypes
  <2>3. ClientTypes' /\ MainTypes' /\ Calm' /\ NothingLeaks'
    BY <2>1 DEF IInv, ClientTypes, MainTypes, MainSteps, Calm, Searching, NothingLeaks, Now
  <2>4. QED
    BY <2>2, <2>3 DEF IInv
<1>4. QED
  BY <1>1, <1>2, <1>3

-----------------------------------------------------------------------------
(* A goroutine starts, or starts again. *)

LEMMA BeginTypes ==
  ASSUME ServerTypes, ClientTypes, NEW id \in Ids, NEW k \in 0..Tries, Begin(id, k),
         UNCHANGED <<test, mine, member, object, answer, peer, connections>>
  PROVE  /\ ServerTypes' /\ ClientTypes'
         /\ worker'[id].step = "get" /\ \A other \in Ids \ {id} : worker'[other] = worker[other]
<1>1. Request("sent", None) \in [step : SdpSteps, found : Maker, awaited : BOOLEAN]
  BY Makers DEF Request, SdpSteps
<1>2. ServerTypes'
  BY <1>1 DEF ServerTypes, Begin
<1>3. [step |-> "get", k |-> k] \in [step : WorkerSteps, k : 0..Tries]
  BY DEF WorkerSteps
<1>4. QED
  BY <1>2, <1>3 DEF ClientTypes, Begin

(* A goroutine that is not connecting has nothing to leave behind.             *)
LEMMA RestartLeavesNone ==
  ASSUME NothingLeaks, NEW id \in Ids, worker[id].step \in {"idle", "done", "failed"},
         \A other \in Ids \ {id} : worker'[other] = worker[other],
         UNCHANGED <<main, peer, connections>>
  PROVE  NothingLeaks'
BY AttemptParts DEF NothingLeaks, Now

LEMMA LaunchInvariant ==
  ASSUME IInv, NEW id \in Ids, Launch(id)
  PROVE  IInv'
<1>1. /\ main = "connect" /\ id \in remaining /\ remaining' = remaining \ {id}
      /\ UNCHANGED <<test, mine, member, object, answer, peer, connections, setup, main, probe, found, wave, failed>>
  BY DEF Launch
<1>2. /\ ServerTypes' /\ ClientTypes'
      /\ worker'[id].step \in {"get", "done"} /\ \A other \in Ids \ {id} : worker'[other] = worker[other]
  <2>1. CASE Begin(id, wave)
    <3>1. wave \in 0..Tries
      BY TriesAssumption, ReceiverAssumption DEF IInv, MainTypes
    <3>2. QED
      BY <1>1, <2>1, <3>1, BeginTypes DEF IInv
  <2>2. CASE Go(id, "done") /\ UNCHANGED sdp
    <3>1. "done" \in WorkerSteps
      BY DEF WorkerSteps
    <3>2. /\ worker' \in [Ids -> [step : WorkerSteps, k : 0..Tries]]
          /\ worker'[id] = [step |-> "done", k |-> worker[id].k]
          /\ \A other \in Ids \ {id} : worker'[other] = worker[other]
      BY <2>2, <3>1, GoType DEF IInv
    <3>3. ServerTypes' /\ ClientTypes'
      BY <1>1, <2>2, <3>2 DEF IInv, ServerTypes, ClientTypes
    <3>4. QED
      BY <3>2, <3>3
  <2>3. QED
    BY <2>1, <2>2 DEF Launch, Go
<1>3. MainTypes'
  BY <1>1 DEF IInv, MainTypes
<1>4. Calm'
  <2>1. remaining \subseteq Ids /\ id \in found
    BY <1>1 DEF IInv, MainTypes, ServerTypes
  <2>2. QED
    BY <1>1, <1>2, <2>1 DEF IInv, Calm, Searching
<1>5. NothingLeaks'
  BY <1>1, <1>2, RestartLeavesNone DEF IInv, Calm
<1>6. QED
  BY <1>2, <1>3, <1>4, <1>5 DEF IInv

LEMMA RetryInvariant ==
  ASSUME IInv, NEW id \in Ids, Retry(id)
  PROVE  IInv'
<1>1. /\ main = "connect" /\ worker[id].step = "failed" /\ failed' \in {failed, failed \union {id}}
      /\ UNCHANGED <<test, mine, member, object, answer, peer, connections, setup, main, probe, found, wave, remaining>>
  BY DEF Retry
<1>2. id \in found /\ id \notin remaining
  BY <1>1 DEF IInv, Calm
<1>3. /\ ServerTypes' /\ ClientTypes'
      /\ \A other \in Ids \ {id} : worker'[other] = worker[other]
  <2>1. CASE Begin(id, worker[id].k + 1) /\ worker[id].k < setup.retries
    <3>1. worker[id].k \in 0..Tries
      BY DEF IInv, ClientTypes
    <3>2. setup.retries \in 0..Tries
      BY ReceiverAssumption DEF IInv, Calm
    <3>3. worker[id].k + 1 \in 0..Tries
      BY <2>1, <3>1, <3>2, TriesAssumption
    <3>4. QED
      BY <1>1, <2>1, <3>3, BeginTypes DEF IInv
  <2>2. CASE Go(id, "done") /\ UNCHANGED sdp
    <3>1. "done" \in WorkerSteps
      BY DEF WorkerSteps
    <3>2. QED
      BY <1>1, <2>2, <3>1, GoType DEF IInv, ServerTypes, ClientTypes
  <2>3. QED
    BY <2>1, <2>2 DEF Retry
<1>4. MainTypes'
  BY <1>1, <1>2 DEF IInv, MainTypes
<1>5. Calm'
  <2>1. remaining \subseteq Ids \ {id}
    BY <1>2 DEF IInv, MainTypes, ServerTypes
  <2>2. QED
    BY <1>1, <1>2, <1>3, <2>1 DEF IInv, Calm, Searching
<1>6. NothingLeaks'
  BY <1>1, <1>3, RestartLeavesNone DEF IInv
<1>7. QED
  BY <1>3, <1>4, <1>5, <1>6 DEF IInv

LEMMA WaveEndsInvariant ==
  ASSUME IInv, WaveEnds
  PROVE  IInv'
<1>1. /\ main = "connect" /\ Running = {} /\ remaining = {}
      /\ UNCHANGED <<serverVars, clientVars, setup, probe, found>>
      /\ \/ /\ wave < 2 /\ wave' = wave + 1 /\ remaining' = failed /\ failed' = {} /\ main' = main
         \/ main' \in {"fatal", "stats"} /\ UNCHANGED <<wave, remaining, failed>>
  BY DEF WaveEnds
<1>2. MainTypes'
  BY <1>1 DEF IInv, MainTypes, MainSteps, serverVars
<1>3. \A id \in Ids : worker[id].step \in {"idle", "done"}
  BY <1>1 DEF Running
<1>4. Calm'
  <2>1. remaining' \subseteq Ids
    BY <1>1 DEF IInv, MainTypes, ServerTypes
  <2>2. Running' = Running
    BY <1>1 DEF Running, clientVars
  <2>3. QED
    BY <1>1, <1>3, <2>1, <2>2 DEF IInv, Calm, Searching, serverVars, clientVars
<1>5. QED
  BY <1>1, <1>2, <1>4, AsideInvariant DEF clientVars

LEMMA MapRaceInvariant ==
  ASSUME IInv, MapRace
  PROVE  IInv'
<1>1. /\ main = "connect" /\ main' = "crashed"
      /\ UNCHANGED <<serverVars, clientVars, setup, probe, found, wave, remaining, failed>>
  BY DEF MapRace
<1>2. MainTypes' /\ Calm'
  BY <1>1 DEF IInv, MainTypes, MainSteps, Calm, Searching, serverVars, clientVars
<1>3. QED
  BY <1>1, <1>2, AsideInvariant DEF clientVars

(* CloseConnections has every open peer connection in its list.                *)
LEMMA InterruptInvariant ==
  ASSUME IInv, Interrupt
  PROVE  IInv'
<1> DEFINE P == [state : {"none", "open", "closed"}, offer : Maker, reader : {"none", "reading", "ended"}]
<1>1. /\ main = "stats" /\ main' = "closed"
      /\ peer' = [a \in Attempts |-> IF a \in connections THEN [peer[a] EXCEPT !.state = "closed"] ELSE peer[a]]
      /\ UNCHANGED <<serverVars, worker, connections, setup, probe, found, wave, remaining, failed>>
  BY DEF Interrupt
<1>2. peer \in [Attempts -> P]
  BY DEF IInv, ClientTypes
<1>3. \A a \in Attempts : peer'[a] \in P /\ (a \in connections => peer'[a].state = "closed")
                                        /\ (a \notin connections => peer'[a] = peer[a])
  BY <1>1, <1>2
<1>4. peer' \in [Attempts -> P]
  BY <1>1, <1>3
<1>5. Running = {} /\ Running' = {}
  BY <1>1 DEF IInv, Calm, Running
<1>6. \A a \in Attempts : peer[a].state = "open" => a \in connections
  BY <1>5, AttemptParts DEF IInv, NothingLeaks, Running
<1>7. NothingLeaks'
  BY <1>3, <1>6 DEF NothingLeaks
<1>8. ServerTypes' /\ ClientTypes' /\ MainTypes'
  BY <1>1, <1>4 DEF IInv, ServerTypes, ClientTypes, MainTypes, MainSteps, serverVars
<1>9. Calm'
  BY <1>1, <1>5 DEF IInv, Calm, Searching, serverVars
<1>10. QED
  BY <1>7, <1>8, <1>9 DEF IInv

-----------------------------------------------------------------------------
LEMMA InitInvariant == Init => IInv
<1> SUFFICES ASSUME Init PROVE IInv
  OBVIOUS
<1> USE Makers DEF Init, ServerInit, ClientInit
<1>1. ServerTypes
  <2>1. mine \subseteq Ids /\ test \in {"unknown", "stopped", "live"}
    BY ReceiverAssumption
  <2>2. NoObject \in [offered : BOOLEAN, remote : Maker, closed : BOOLEAN]
    BY DEF NoObject
  <2>3. Idle \in [step : SdpSteps, found : Maker, awaited : BOOLEAN]
    BY DEF Idle, Request, SdpSteps
  <2>4. Idle \in [step : AnswerSteps, found : Maker, awaited : BOOLEAN]
    BY DEF Idle, Request, AnswerSteps
  <2>5. QED
    BY <2>1, <2>2, <2>3, <2>4 DEF ServerTypes
<1>2. ClientTypes
  <2>1. [step |-> "idle", k |-> 0] \in [step : WorkerSteps, k : 0..Tries]
    BY TriesAssumption DEF WorkerSteps
  <2>2. NoPeer \in [state : {"none", "open", "closed"}, offer : Maker, reader : {"none", "reading", "ended"}]
    BY DEF NoPeer
  <2>3. QED
    BY <2>1, <2>2 DEF ClientTypes
<1>3. MainTypes /\ Calm
  BY DEF MainTypes, MainSteps, Calm, Searching
<1>4. NothingLeaks
  BY DEF NothingLeaks, NoPeer
<1>5. QED
  BY <1>1, <1>2, <1>3, <1>4 DEF IInv

LEMMA StepInvariant == IInv /\ [Next]_vars => IInv'
<1> SUFFICES ASSUME IInv, [Next]_vars PROVE IInv'
  OBVIOUS
<1>1. CASE UNCHANGED vars
  BY <1>1 DEF IInv, ServerTypes, ClientTypes, MainTypes, Calm, Searching, Candidate, Running, NothingLeaks,
              Now, vars, serverVars, clientVars, mainVars
<1>2. ASSUME NEW a \in Attempts, Serve(a) \/ Peering(a)
      PROVE  IInv'
  BY <1>2, ServeInvariant, PeeringInvariant
<1>3. CASE MainStep
  BY <1>3, SearchInvariant, ProbeInvariant, WaveEndsInvariant DEF MainStep
<1>4. CASE ProbeTimesOut \/ Interrupt \/ MapRace
  BY <1>4, ProbeInvariant, InterruptInvariant, MapRaceInvariant
<1>5. ASSUME NEW id \in Ids, Launch(id) \/ Retry(id) \/ Connecting(id)
      PROVE  IInv'
  BY <1>5, LaunchInvariant, RetryInvariant, ConnectingInvariant
<1>6. QED
  BY <1>1, <1>2, <1>3, <1>4, <1>5 DEF Next

-----------------------------------------------------------------------------
(* A connection in the list is the one the server answered.  Each attempt of    *)
(* the client asks under a name of its own, so while no request of an earlier   *)
(* one is served the server's participant is followed through the steps of     *)
(* both.                                                                       *)

Before == {"none", "sent", "close", "remove", "create"}
AnswerServing == {"sent", "apply"}

SpoiledType == spoiled \in [Ids -> SUBSET (0..Tries)]

(* An attempt that has made no participant yet finds no trace of one.          *)
Unmade(id, j) ==
  /\ object[<<id, j>>] = NoObject /\ member[id] # j
  /\ \A i \in 0..Tries : sdp[<<id, i>>].found # j /\ answer[<<id, i>>].found # j

Fresh == \A id \in Ids : \A j \in 0..Tries : sdp[<<id, j>>].step \in Before => Unmade(id, j)

(* An attempt and a probe are made once.                                       *)
Untried ==
  /\ \A id \in Ids : \A j \in 1..Tries : j > worker[id].k => sdp[<<id, j>>].step = "none"
  /\ main \in {"metrics", "health"} => \A id \in Ids : sdp[<<id, 0>>].step = "none"
  /\ main \in {"probe", "probing"} =>
       /\ probe.left \subseteq Nat
       /\ \A id \in probe.left \cap Ids :
            sdp[<<id, 0>>].step = "none" \/ (main = "probing" /\ id = Candidate)

(* A goroutine of a later wave or retry makes a later attempt, and who is       *)
(* connected is not tried again.                                               *)
Waves ==
  /\ \A id \in Ids : worker[id].step = "idle" => worker[id].k = 0
  /\ Batch => \A id \in Ids : worker[id].k <= wave
  /\ \A id \in remaining : worker[id].k < wave
  /\ failed \cap remaining = {}
  /\ \A id \in failed : worker[id].step = "done"
  /\ \A a \in connections : /\ worker[a[1]].step = "done" /\ Now(a[1]) = a
                            /\ a[1] \notin remaining /\ a[1] \notin failed

(* An answer is given to an offer that was asked for, and what is served late is *)
(* counted to an attempt that was made.                                        *)
Traced ==
  /\ \A a \in Attempts : answer[a].step # "none" => sdp[a].step # "none"
  /\ \A id \in Ids : \A j \in spoiled[id] : sdp[<<id, j>>].step # "none"

(* How far the requests of its attempt have come when a goroutine is at a step.  *)
Settled(id) ==
  /\ worker[id].step \notin {"idle", "done"} \/ Now(id) \in connections =>
       worker[id].k \in 1..Tries /\ sdp[Now(id)].step # "none"
  /\ worker[id].step \in {"get", "describe"} => answer[Now(id)].step = "none"
  /\ worker[id].step \in {"describe", "post", "ice", "record"} \/ Now(id) \in connections =>
       sdp[Now(id)].step = "ok"
  /\ worker[id].step \in {"ice", "record"} \/ Now(id) \in connections => answer[Now(id)].step = "ok"

(* The server's participant of id is o, whose offer nobody has answered.       *)
Open(id, o) ==
  /\ o \in 0..Tries /\ member[id] = o
  /\ object[<<id, o>>].remote = None /\ ~object[<<id, o>>].closed
Offered(id, o) == object[<<id, o>>].offered

(* The server's participant of id has the answer of this attempt.              *)
Answered(id) ==
  /\ peer[Now(id)].offer \in 0..Tries /\ member[id] = peer[Now(id)].offer
  /\ Linked(<<id, peer[Now(id)].offer>>, Now(id))

OfferPhase(id) ==
  worker[id].step = "get" =>
    /\ sdp[Now(id)].step \in {"offer", "ok"} => Open(id, sdp[Now(id)].found)
    /\ sdp[Now(id)].step = "ok" => Offered(id, sdp[Now(id)].found)
    /\ sdp[Now(id)].step = "error" => test # "live" \/ id \notin mine
AnswerPhase(id) ==
  /\ \/ worker[id].step = "describe"
     \/ worker[id].step = "post" /\ answer[Now(id)].step \in AnswerServing
     => /\ Open(id, peer[Now(id)].offer) /\ Offered(id, peer[Now(id)].offer)
        /\ worker[id].step = "post" /\ answer[Now(id)].step = "apply" =>
             answer[Now(id)].found = member[id]
  /\ worker[id].step = "post" /\ answer[Now(id)].step = "error" => test = "unknown"
LinkedPhase(id) ==
  \/ worker[id].step = "post" /\ answer[Now(id)].step = "ok"
  \/ worker[id].step \in {"ice", "record"}
  \/ Now(id) \in connections
  => Answered(id)

Phases ==
  \A id \in Ids : worker[id].k \notin spoiled[id] => OfferPhase(id) /\ AnswerPhase(id) /\ LinkedPhase(id)

Orderly ==
  SpoiledType /\ Fresh /\ Untried /\ Waves /\ Traced /\ (\A id \in Ids : Settled(id)) /\ Phases

-----------------------------------------------------------------------------
LEMMA SdpStepIs ==
  ASSUME ServerTypes, NEW a \in Attempts, NEW step, NEW f, SdpStep(a, step, f)
  PROVE  /\ sdp'[a] = [step |-> step, found |-> f, awaited |-> sdp[a].awaited]
         /\ \A b \in Attempts \ {a} : sdp'[b] = sdp[b]
<1>1. sdp \in [Attempts -> [step : SdpSteps, found : Maker, awaited : BOOLEAN]]
  BY DEF ServerTypes
<1>2. sdp' = [sdp EXCEPT ![a] = [@ EXCEPT !.step = step, !.found = f]]
  BY <1>1 DEF SdpStep
<1>3. QED
  BY <1>1, <1>2

LEMMA AnswerStepIs ==
  ASSUME ServerTypes, NEW a \in Attempts, NEW step, NEW f, AnswerStep(a, step, f)
  PROVE  /\ answer'[a] = [step |-> step, found |-> f, awaited |-> answer[a].awaited]
         /\ \A b \in Attempts \ {a} : answer'[b] = answer[b]
<1>1. answer \in [Attempts -> [step : AnswerSteps, found : Maker, awaited : BOOLEAN]]
  BY DEF ServerTypes
<1>2. answer' = [answer EXCEPT ![a] = [@ EXCEPT !.step = step, !.found = f]]
  BY <1>1 DEF AnswerStep
<1>3. QED
  BY <1>1, <1>2

(* What a served step leaves alone.                                            *)
Elsewhere(a) ==
  /\ \A id \in Ids \ {a[1]} : /\ member'[id] = member[id] /\ spoiled'[id] = spoiled[id]
                              /\ \A j \in 0..Tries : object'[<<id, j>>] = object[<<id, j>>]
  /\ \A b \in Attempts \ {a} : sdp'[b] = sdp[b] /\ answer'[b] = answer[b]
  /\ sdp'[a].awaited = sdp[a].awaited /\ answer'[a].awaited = answer[a].awaited

(* A request of an earlier attempt is remembered.                              *)
Remembers(a) ==
  /\ spoiled' \in [Ids -> SUBSET (0..Tries)]
  /\ spoiled[a[1]] \subseteq spoiled'[a[1]] /\ spoiled'[a[1]] \subseteq spoiled[a[1]] \union {Latest(a[1])}
  /\ a[2] # Latest(a[1]) => Latest(a[1]) \in spoiled'[a[1]]

LEMMA SmallestOf ==
  ASSUME NEW T, T \subseteq Nat, T # {}
  PROVE  Min(T) \in T /\ \A y \in T : Min(T) <= y
<1> DEFINE R == OpToRel(<, Nat)
<1>1. IsWellFoundedOn(R, Nat)
  BY NatLessThanWellFounded
<1> HIDE DEF R
<1>2. PICK x \in T : \A y \in T : ~ (<<y, x>> \in R)
  BY <1>1, WFMin
<1>3. \A y \in T : ~ (y < x)
  BY <1>2 DEF R, OpToRel
<1>4. \A y \in T : x =< y
  BY <1>3
<1>5. QED
  BY <1>4 DEF Min

(* The latest of some attempts is one of them.                                  *)
LEMMA LatestMade ==
  ASSUME NEW id \in Ids, NEW k \in 0..Tries, sdp[<<id, k>>].step # "none"
  PROVE  /\ Latest(id) \in 0..Tries /\ sdp[<<id, Latest(id)>>].step # "none"
         /\ Latest(id) >= k
<1> DEFINE S == {j \in 0..Tries : sdp[<<id, j>>].step # "none"}
           T == {Tries - j : j \in S}
<1>1. S \subseteq 0..Tries /\ k \in S
  OBVIOUS
<1> HIDE DEF S
<1>2. T \subseteq Nat /\ T # {}
  <2>1. \A j \in S : Tries - j \in Nat
    BY <1>1, TriesAssumption
  <2>2. Tries - k \in T
    BY <1>1
  <2>3. QED
    BY <2>1, <2>2
<1>3. Min(T) \in T /\ \A y \in T : Min(T) <= y
  BY <1>2, SmallestOf
<1>4. PICK n \in S : Min(T) = Tries - n
  BY <1>3
<1>5. ASSUME NEW j \in S PROVE j <= n
  <2>1. Tries - j \in T /\ j \in Int /\ n \in Int
    BY <1>1
  <2>2. Tries - n <= Tries - j
    BY <1>3, <1>4, <2>1
  <2>3. QED
    BY <2>1, <2>2, TriesAssumption
<1>6. \E m \in S : \A j \in S : m >= j
  BY <1>1, <1>5
<1>7. Max(S) \in S /\ \A j \in S : Max(S) >= j
  BY <1>6 DEF Max
<1>8. Latest(id) \in S /\ Latest(id) >= k
  BY <1>1, <1>7 DEF Latest, S
<1>9. QED
  BY <1>8 DEF S

LEMMA SpoilsRemembers ==
  ASSUME SpoiledType, NEW a \in Attempts, sdp[a].step # "none", Spoils(a[1])
  PROVE  /\ Remembers(a) /\ Latest(a[1]) \in spoiled'[a[1]]
         /\ \A id \in Ids \ {a[1]} : spoiled'[id] = spoiled[id]
<1>1. a[1] \in Ids /\ a[2] \in 0..Tries /\ a = <<a[1], a[2]>>
  BY AttemptParts
<1> PICK n \in 0..Tries : n = Latest(a[1])
  BY <1>1, LatestMade
<1>2. spoiled' = [spoiled EXCEPT ![a[1]] = spoiled[a[1]] \union {n}]
  BY DEF Spoils
<1>3. /\ spoiled'[a[1]] = spoiled[a[1]] \union {n}
      /\ \A id \in Ids \ {a[1]} : spoiled'[id] = spoiled[id]
  BY <1>1, <1>2 DEF SpoiledType
<1>4. spoiled' \in [Ids -> SUBSET (0..Tries)]
  BY <1>1, <1>2, <1>3 DEF SpoiledType
<1>5. QED
  BY <1>3, <1>4 DEF Remembers

LEMMA ServesRemembers ==
  ASSUME SpoiledType, NEW a \in Attempts, sdp[a].step # "none", Serves(a)
  PROVE  Remembers(a) /\ \A id \in Ids \ {a[1]} : spoiled'[id] = spoiled[id]
<1>1. CASE a[2] = Latest(a[1])
  BY <1>1, AttemptParts DEF Serves, Remembers, SpoiledType
<1>2. CASE a[2] # Latest(a[1])
  BY <1>2, SpoilsRemembers DEF Serves
<1>3. QED
  BY <1>1, <1>2

(* What each step of GET /sdp does to its own participant.                     *)
SameObjects(id) == \A j \in 0..Tries : object'[<<id, j>>] = object[<<id, j>>]
SameObjectsBut(id, o) == \A j \in 0..Tries \ {o} : object'[<<id, j>>] = object[<<id, j>>]

LooksUp(a) ==
  /\ sdp[a].step = "sent" /\ sdp'[a].step \in {"error", "create", "close", "offer"}
  /\ sdp'[a].found = member[a[1]] /\ member'[a[1]] = member[a[1]] /\ SameObjects(a[1])
  /\ sdp'[a].step = "offer" => Open(a[1], member[a[1]])
  /\ sdp'[a].step = "error" => test # "live"
Closes(a) ==
  /\ sdp[a].step = "close" /\ sdp'[a].step = "remove" /\ sdp'[a].found = None
  /\ member'[a[1]] = member[a[1]] /\ SameObjectsBut(a[1], sdp[a].found)
Removes(a) ==
  /\ sdp[a].step = "remove" /\ sdp'[a].step = "create" /\ sdp'[a].found = None
  /\ member'[a[1]] = None /\ SameObjects(a[1])
Creates(a) ==
  /\ sdp[a].step = "create" /\ SameObjects(a[1])
  /\ \/ sdp'[a].step = "offer" /\ sdp'[a].found = a[2] /\ member'[a[1]] = a[2]
     \/ /\ sdp'[a].step = "error" /\ sdp'[a].found = None /\ member'[a[1]] = member[a[1]]
        /\ a[1] \notin mine \/ Latest(a[1]) \in spoiled'[a[1]]
Offers(a) ==
  /\ sdp[a].step = "offer" /\ member'[a[1]] = member[a[1]] /\ SameObjectsBut(a[1], sdp[a].found)
  /\ sdp[a].found \in 0..Tries =>
       /\ object'[<<a[1], sdp[a].found>>].remote = object[<<a[1], sdp[a].found>>].remote
       /\ object'[<<a[1], sdp[a].found>>].closed = object[<<a[1], sdp[a].found>>].closed
  /\ \/ /\ sdp'[a].step = "ok" /\ sdp'[a].found = sdp[a].found
        /\ sdp[a].found \in 0..Tries => object'[<<a[1], sdp[a].found>>].offered
     \/ /\ sdp'[a].step = "error" /\ sdp'[a].found = None
        /\ object[<<a[1], sdp[a].found>>].closed

LEMMA SdpServedIs ==
  ASSUME ServerTypes, SpoiledType, NEW a \in Attempts, ServeSdp(a)
  PROVE  /\ LooksUp(a) \/ Closes(a) \/ Removes(a) \/ Creates(a) \/ Offers(a)
         /\ Elsewhere(a) /\ Remembers(a) /\ UNCHANGED <<test, mine, answer>>
<1>0. a[1] \in Ids /\ a[2] \in 0..Tries /\ a = <<a[1], a[2]>>
  BY AttemptParts
<1>1. CASE SdpLookup(a)
  <2> DEFINE m == member[a[1]]
             step == IF test # "live" THEN "error"
                     ELSE IF m = None THEN "create"
                     ELSE IF NeedsRecreation(<<a[1], m>>) THEN "close" ELSE "offer"
  <2>1. /\ sdp[a].step = "sent" /\ SdpStep(a, step, m) /\ Serves(a)
        /\ UNCHANGED <<test, mine, member, object, answer>>
    BY <1>1 DEF SdpLookup
  <2>2. step \in {"error", "create", "close", "offer"}
    OBVIOUS
  <2>3. step = "offer" => m # None /\ ~NeedsRecreation(<<a[1], m>>)
    OBVIOUS
  <2>4. m \in Maker
    BY <1>0 DEF ServerTypes
  <2>5. /\ step = "offer" => Open(a[1], m)
        /\ step = "error" => test # "live"
    BY <2>3, <2>4 DEF Open, NeedsRecreation, Maker
  <2> HIDE DEF step, m
  <2>6. /\ sdp'[a] = [step |-> step, found |-> m, awaited |-> sdp[a].awaited]
        /\ \A b \in Attempts \ {a} : sdp'[b] = sdp[b]
    BY <2>1, SdpStepIs
  <2>7. LooksUp(a)
    BY <2>1, <2>2, <2>5, <2>6 DEF LooksUp, SameObjects, m
  <2>8. Remembers(a) /\ \A id \in Ids \ {a[1]} : spoiled'[id] = spoiled[id]
    BY <2>1, ServesRemembers
  <2>9. Elsewhere(a)
    BY <2>1, <2>6, <2>8 DEF Elsewhere
  <2>10. QED
    BY <2>1, <2>7, <2>8, <2>9
<1>2. CASE SdpClose(a)
  <2>1. /\ sdp[a].step = "close" /\ SdpStep(a, "remove", None) /\ Serves(a)
        /\ object' = [object EXCEPT ![<<a[1], sdp[a].found>>].closed = TRUE]
        /\ UNCHANGED <<test, mine, member, answer>>
    BY <1>2 DEF SdpClose
  <2>2. /\ sdp'[a] = [step |-> "remove", found |-> None, awaited |-> sdp[a].awaited]
        /\ \A b \in Attempts \ {a} : sdp'[b] = sdp[b]
    BY <2>1, SdpStepIs
  <2>3. Remembers(a) /\ \A id \in Ids \ {a[1]} : spoiled'[id] = spoiled[id]
    BY <2>1, ServesRemembers
  <2>4. /\ SameObjectsBut(a[1], sdp[a].found)
        /\ \A id \in Ids \ {a[1]} : \A j \in 0..Tries : object'[<<id, j>>] = object[<<id, j>>]
    BY <1>0, <2>1, AttemptOf DEF SameObjectsBut, ServerTypes
  <2>5. QED
    BY <2>1, <2>2, <2>3, <2>4 DEF Closes, Elsewhere
<1>3. CASE SdpRemove(a)
  <2>1. /\ sdp[a].step = "remove" /\ SdpStep(a, "create", None) /\ Serves(a)
        /\ member' = [member EXCEPT ![a[1]] = None]
        /\ UNCHANGED <<test, mine, object, answer>>
    BY <1>3 DEF SdpRemove
  <2>2. /\ sdp'[a] = [step |-> "create", found |-> None, awaited |-> sdp[a].awaited]
        /\ \A b \in Attempts \ {a} : sdp'[b] = sdp[b]
    BY <2>1, SdpStepIs
  <2>3. Remembers(a) /\ \A id \in Ids \ {a[1]} : spoiled'[id] = spoiled[id]
    BY <2>1, ServesRemembers
  <2>4. member'[a[1]] = None /\ \A id \in Ids \ {a[1]} : member'[id] = member[id]
    BY <1>0, <2>1 DEF ServerTypes
  <2>5. QED
    BY <2>1, <2>2, <2>3, <2>4 DEF Removes, Elsewhere, SameObjects
<1>4. CASE SdpCreate(a)
  <2>1. /\ sdp[a].step = "create" /\ (Serves(a) \/ Spoils(a[1]))
        /\ \/ member' = [member EXCEPT ![a[1]] = a[2]] /\ SdpStep(a, "offer", a[2])
           \/ /\ SdpStep(a, "error", None) /\ UNCHANGED member
              /\ a[1] \notin mine \/ Spoils(a[1])
        /\ UNCHANGED <<test, mine, object, answer>>
    BY <1>4 DEF SdpCreate
  <2>2. /\ Remembers(a) /\ \A id \in Ids \ {a[1]} : spoiled'[id] = spoiled[id]
        /\ Spoils(a[1]) => Latest(a[1]) \in spoiled'[a[1]]
    BY <2>1, ServesRemembers, SpoilsRemembers
  <2>3. /\ \/ /\ sdp'[a] = [step |-> "offer", found |-> a[2], awaited |-> sdp[a].awaited]
              /\ member'[a[1]] = a[2]
           \/ /\ sdp'[a] = [step |-> "error", found |-> None, awaited |-> sdp[a].awaited]
              /\ member' = member /\ (a[1] \notin mine \/ Spoils(a[1]))
        /\ \A b \in Attempts \ {a} : sdp'[b] = sdp[b]
        /\ \A id \in Ids \ {a[1]} : member'[id] = member[id]
    BY <1>0, <2>1, SdpStepIs DEF ServerTypes
  <2>4. QED
    BY <2>1, <2>2, <2>3 DEF Creates, Elsewhere, SameObjects
<1>5. CASE SdpOffer(a)
  <2> DEFINE o == <<a[1], sdp[a].found>>
  <2>1. /\ sdp[a].step = "offer" /\ Serves(a)
        /\ \/ SdpStep(a, "error", None) /\ UNCHANGED object /\ object[o].closed
           \/ SdpStep(a, "ok", sdp[a].found) /\ object' = [object EXCEPT ![o].offered = TRUE]
        /\ UNCHANGED <<test, mine, member, answer>>
    BY <1>5 DEF SdpOffer
  <2>2. Remembers(a) /\ \A id \in Ids \ {a[1]} : spoiled'[id] = spoiled[id]
    BY <2>1, ServesRemembers
  <2>3. /\ \/ /\ sdp'[a] = [step |-> "ok", found |-> sdp[a].found, awaited |-> sdp[a].awaited]
              /\ object' = [object EXCEPT ![o].offered = TRUE]
           \/ /\ sdp'[a] = [step |-> "error", found |-> None, awaited |-> sdp[a].awaited]
              /\ object[o].closed
        /\ \A b \in Attempts \ {a} : sdp'[b] = sdp[b]
    BY <1>0, <2>1, SdpStepIs
  <2>4. /\ SameObjectsBut(a[1], sdp[a].found)
        /\ \A id \in Ids \ {a[1]} : \A j \in 0..Tries : object'[<<id, j>>] = object[<<id, j>>]
    BY <1>0, <2>1, AttemptOf DEF SameObjectsBut, ServerTypes
  <2>5. ASSUME sdp[a].found \in 0..Tries
        PROVE  /\ object'[o].remote = object[o].remote /\ object'[o].closed = object[o].closed
               /\ object' = [object EXCEPT ![o].offered = TRUE] => object'[o].offered
    <3>1. o \in Attempts
      BY <1>0, <2>5, AttemptOf
    <3>2. object[o] \in [offered : BOOLEAN, remote : Maker, closed : BOOLEAN]
      BY <3>1 DEF ServerTypes
    <3>3. object'[o] = object[o] \/ object'[o] = [object[o] EXCEPT !.offered = TRUE]
      BY <2>1, <3>1 DEF ServerTypes
    <3>4. object' = [object EXCEPT ![o].offered = TRUE] => object'[o] = [object[o] EXCEPT !.offered = TRUE]
      BY <3>1 DEF ServerTypes
    <3>5. QED
      BY <3>2, <3>3, <3>4
  <2>6. /\ sdp[a].step = "offer" /\ member'[a[1]] = member[a[1]]
        /\ \/ /\ sdp'[a].step = "ok" /\ sdp'[a].found = sdp[a].found
              /\ object' = [object EXCEPT ![o].offered = TRUE]
           \/ /\ sdp'[a].step = "error" /\ sdp'[a].found = None
              /\ object[o].closed
    BY <2>1, <2>3
  <2>7. Offers(a)
    BY <2>4, <2>5, <2>6 DEF Offers
  <2>8. Elsewhere(a)
    <3>1. sdp'[a].awaited = sdp[a].awaited
      BY <2>3
    <3>2. QED
      BY <2>1, <2>2, <2>3, <2>4, <3>1 DEF Elsewhere
  <2>9. QED
    BY <2>1, <2>2, <2>7, <2>8
<1>6. QED
  BY <1>1, <1>2, <1>3, <1>4, <1>5 DEF ServeSdp

(* And each step of POST /answer.                                              *)
LooksUpOffer(a) ==
  /\ answer[a].step = "sent" /\ answer'[a].step \in {"error", "apply"}
  /\ answer'[a].found = member[a[1]] /\ SameObjects(a[1])
  /\ answer'[a].step = "error" => test = "unknown" \/ member[a[1]] = None
TakesAnswer(a) ==
  /\ answer[a].step = "apply" /\ answer'[a].found = answer[a].found
  /\ SameObjectsBut(a[1], answer[a].found)
  /\ \/ /\ answer'[a].step = "error" /\ SameObjects(a[1])
        /\ object[<<a[1], answer[a].found>>] # [offered |-> TRUE, remote |-> None, closed |-> FALSE]
     \/ /\ answer'[a].step = "ok"
        /\ answer[a].found \in 0..Tries =>
             /\ object'[<<a[1], answer[a].found>>].remote = a[2]
             /\ ~object'[<<a[1], answer[a].found>>].closed

LEMMA AnswerServedIs ==
  ASSUME ServerTypes, SpoiledType, Traced, NEW a \in Attempts, ServeAnswer(a)
  PROVE  /\ LooksUpOffer(a) \/ TakesAnswer(a)
         /\ Elsewhere(a) /\ Remembers(a) /\ UNCHANGED <<test, mine, member, sdp>>
<1>0. a[1] \in Ids /\ a[2] \in 0..Tries /\ a = <<a[1], a[2]>>
  BY AttemptParts
<1>1. CASE AnswerLookup(a)
  <2>1. PICK step \in {"error", "apply"} :
          /\ AnswerStep(a, step, member[a[1]])
          /\ step = "error" => test = "unknown" \/ member[a[1]] = None
    BY <1>1 DEF AnswerLookup
  <2>2. /\ answer[a].step = "sent" /\ Serves(a) /\ sdp[a].step # "none"
        /\ UNCHANGED <<test, mine, member, object, sdp>>
    BY <1>1 DEF AnswerLookup, Traced
  <2>3. /\ answer'[a] = [step |-> step, found |-> member[a[1]], awaited |-> answer[a].awaited]
        /\ \A b \in Attempts \ {a} : answer'[b] = answer[b]
    BY <2>1, AnswerStepIs
  <2>4. Remembers(a) /\ \A id \in Ids \ {a[1]} : spoiled'[id] = spoiled[id]
    BY <2>2, ServesRemembers
  <2>5. QED
    BY <2>1, <2>2, <2>3, <2>4 DEF LooksUpOffer, Elsewhere, SameObjects
<1>2. CASE SetRemoteAnswer(a)
  <2> DEFINE o == <<a[1], answer[a].found>>
  <2>1. /\ answer[a].step = "apply" /\ Serves(a)
        /\ sdp[a].step # "none"
        /\ \/ /\ AnswerStep(a, "error", answer[a].found) /\ UNCHANGED object
              /\ object[o] # [offered |-> TRUE, remote |-> None, closed |-> FALSE]
           \/ /\ AnswerStep(a, "ok", answer[a].found)
              /\ object' = [object EXCEPT ![o].remote = a[2]]
              /\ object[o] = [offered |-> TRUE, remote |-> None, closed |-> FALSE]
        /\ UNCHANGED <<test, mine, member, sdp>>
    BY <1>2 DEF SetRemoteAnswer, Traced
  <2>2. Remembers(a) /\ \A id \in Ids \ {a[1]} : spoiled'[id] = spoiled[id]
    BY <2>1, ServesRemembers
  <2>3. /\ \A b \in Attempts \ {a} : answer'[b] = answer[b]
        /\ answer'[a].found = answer[a].found /\ answer'[a].awaited = answer[a].awaited
        /\ answer'[a].step \in {"ok", "error"}
        /\ answer'[a].step = "error" =>
             /\ UNCHANGED object
             /\ object[o] # [offered |-> TRUE, remote |-> None, closed |-> FALSE]
        /\ answer'[a].step = "ok" =>
             /\ object' = [object EXCEPT ![o].remote = a[2]]
             /\ object[o] = [offered |-> TRUE, remote |-> None, closed |-> FALSE]
    <3>1. CASE /\ AnswerStep(a, "error", answer[a].found) /\ UNCHANGED object
               /\ object[o] # [offered |-> TRUE, remote |-> None, closed |-> FALSE]
      <4>1. /\ answer'[a] = [step |-> "error", found |-> answer[a].found, awaited |-> answer[a].awaited]
            /\ \A b \in Attempts \ {a} : answer'[b] = answer[b]
        BY <3>1, AnswerStepIs
      <4>2. QED
        BY <3>1, <4>1
    <3>2. CASE /\ AnswerStep(a, "ok", answer[a].found)
               /\ object' = [object EXCEPT ![o].remote = a[2]]
               /\ object[o] = [offered |-> TRUE, remote |-> None, closed |-> FALSE]
      <4>1. /\ answer'[a] = [step |-> "ok", found |-> answer[a].found, awaited |-> answer[a].awaited]
            /\ \A b \in Attempts \ {a} : answer'[b] = answer[b]
        BY <3>2, AnswerStepIs
      <4>2. QED
        BY <3>2, <4>1
    <3>3. QED
      BY <2>1, <3>1, <3>2
  <2>4. /\ SameObjectsBut(a[1], answer[a].found)
        /\ \A id \in Ids \ {a[1]} : \A j \in 0..Tries : object'[<<id, j>>] = object[<<id, j>>]
    BY <1>0, <2>1, AttemptOf DEF SameObjectsBut, ServerTypes
  <2>5. ASSUME answer'[a].step = "ok", answer[a].found \in 0..Tries
        PROVE  object'[o].remote = a[2] /\ ~object'[o].closed
    <3>1. o \in Attempts
      BY <1>0, <2>5, AttemptOf
    <3>2. object'[o] = [object[o] EXCEPT !.remote = a[2]]
      BY <2>3, <2>5, <3>1 DEF ServerTypes
    <3>3. QED
      BY <2>3, <2>5, <3>2
  <2>6. TakesAnswer(a)
    BY <2>1, <2>3, <2>4, <2>5 DEF TakesAnswer, SameObjects
  <2>7. Elsewhere(a)
    BY <2>1, <2>2, <2>3, <2>4 DEF Elsewhere
  <2>8. QED
    BY <2>1, <2>2, <2>6, <2>7
<1>3. QED
  BY <1>1, <1>2 DEF ServeAnswer

-----------------------------------------------------------------------------
(* The server's steps keep the order.                                          *)

LEMMA ServeFresh ==
  ASSUME ServerTypes, SpoiledType, Traced, Fresh, NEW a \in Attempts, ServeSdp(a) \/ ServeAnswer(a)
  PROVE  Fresh'
<1>0. a[1] \in Ids /\ a[2] \in 0..Tries /\ a = <<a[1], a[2]>> /\ None \notin 0..Tries
  BY AttemptParts DEF None
<1>1. Elsewhere(a)
  BY SdpServedIs, AnswerServedIs
<1> SUFFICES ASSUME NEW id \in Ids, NEW j \in 0..Tries, sdp'[<<id, j>>].step \in Before
             PROVE  Unmade(id, j)'
  BY DEF Fresh
<1>2. CASE id # a[1]
  <2>1. \A i \in 0..Tries : <<id, i>> \in Attempts /\ <<id, i>> # a
    BY <1>0, <1>2, AttemptOf
  <2>2. \A i \in 0..Tries : sdp'[<<id, i>>] = sdp[<<id, i>>] /\ answer'[<<id, i>>] = answer[<<id, i>>]
    BY <1>1, <2>1 DEF Elsewhere
  <2>3. member'[id] = member[id] /\ object'[<<id, j>>] = object[<<id, j>>]
    BY <1>1, <1>2 DEF Elsewhere
  <2>4. Unmade(id, j)
    BY <2>2 DEF Fresh
  <2>5. QED
    BY <2>2, <2>3, <2>4 DEF Unmade
<1>3. CASE id = a[1]
  <2>1. \A i \in 0..Tries : <<id, i>> \in Attempts /\ (<<id, i>> = a <=> i = a[2])
    BY <1>0, <1>3, AttemptOf
  <2>2. \A i \in 0..Tries : i # a[2] =>
          sdp'[<<id, i>>] = sdp[<<id, i>>] /\ answer'[<<id, i>>] = answer[<<id, i>>]
    BY <1>1, <2>1 DEF Elsewhere
  <2>3. CASE ServeSdp(a)
    <3>1. answer' = answer /\ (LooksUp(a) \/ Closes(a) \/ Removes(a) \/ Creates(a) \/ Offers(a))
      BY <2>3, SdpServedIs
    <3>2. sdp[<<id, j>>].step \in Before
      <4>1. CASE j # a[2]
        BY <2>2, <4>1
      <4>2. CASE j = a[2]
        <5>1. <<id, j>> = a
          BY <2>1, <4>2
        <5>2. sdp'[a].step \in Before => sdp[a].step \in Before
          BY <3>1 DEF LooksUp, Closes, Removes, Creates, Offers, Before
        <5>3. QED
          BY <5>1, <5>2
      <4>3. QED
        BY <4>1, <4>2
    <3>3. Unmade(id, j)
      BY <3>2 DEF Fresh
    <3>4. sdp[a].found # j /\ member[id] # j
      BY <1>0, <1>3, <3>3 DEF Unmade
    <3>5. object'[<<id, j>>] = object[<<id, j>>]
      BY <1>3, <3>1, <3>4 DEF LooksUp, Closes, Removes, Creates, Offers, SameObjects, SameObjectsBut
    <3>6. Creates(a) /\ sdp'[a].step = "offer" => j # a[2]
      BY <2>1 DEF Before
    <3>7. member'[id] # j /\ sdp'[a].found # j
      BY <1>0, <1>3, <3>1, <3>4, <3>6 DEF LooksUp, Closes, Removes, Creates, Offers
    <3>8. \A i \in 0..Tries : sdp'[<<id, i>>].found # j
      BY <1>0, <1>3, <2>2, <3>3, <3>7 DEF Unmade
    <3>9. QED
      BY <3>1, <3>3, <3>5, <3>7, <3>8 DEF Unmade
  <2>4. CASE ServeAnswer(a)
    <3>1. sdp' = sdp /\ member' = member /\ (LooksUpOffer(a) \/ TakesAnswer(a))
      BY <2>4, AnswerServedIs
    <3>2. Unmade(id, j)
      BY <3>1 DEF Fresh
    <3>3. answer[a].found # j /\ member[id] # j
      BY <1>0, <1>3, <3>2 DEF Unmade
    <3>4. object'[<<id, j>>] = object[<<id, j>>] /\ answer'[a].found # j
      BY <1>3, <3>1, <3>3 DEF LooksUpOffer, TakesAnswer, SameObjects, SameObjectsBut
    <3>5. \A i \in 0..Tries : answer'[<<id, i>>].found # j
      BY <1>0, <1>3, <2>2, <3>2, <3>4 DEF Unmade
    <3>6. QED
      BY <3>1, <3>2, <3>4, <3>5 DEF Unmade
  <2>5. QED
    BY <2>3, <2>4
<1>4. QED
  BY <1>2, <1>3

KeepsAnswers(b) ==
  /\ sdp[b].step # "none" => sdp'[b].step # "none"
  /\ sdp[b].step \in {"ok", "error"} => sdp'[b] = sdp[b]
  /\ answer[b].step \in {"none", "ok", "error"} => answer'[b] = answer[b]

(* Nothing that was asked is forgotten, and what has been answered stays so.     *)
LEMMA ServeTraced ==
  ASSUME ServerTypes, SpoiledType, Traced, NEW a \in Attempts, ServeSdp(a) \/ ServeAnswer(a)
  PROVE  /\ Traced'
         /\ \A b \in Attempts : KeepsAnswers(b)
<1>1. Elsewhere(a) /\ Remembers(a)
  BY SdpServedIs, AnswerServedIs
<1>2. sdp[a].step # "none" /\ KeepsAnswers(a)
  <2>1. CASE ServeSdp(a)
    BY <2>1, SdpServedIs DEF LooksUp, Closes, Removes, Creates, Offers, KeepsAnswers
  <2>2. CASE ServeAnswer(a)
    BY <2>2, AnswerServedIs DEF LooksUpOffer, TakesAnswer, Traced, KeepsAnswers
  <2>3. QED
    BY <2>1, <2>2
<1>3. \A b \in Attempts : KeepsAnswers(b)
  BY <1>1, <1>2 DEF Elsewhere, KeepsAnswers
<1>4. ASSUME NEW id \in Ids, NEW j \in spoiled'[id]
      PROVE  sdp'[<<id, j>>].step # "none"
  <2>1. j \in 0..Tries /\ <<id, j>> \in Attempts
    BY <1>1, AttemptOf DEF Remembers
  <2>2. a[1] \in Ids /\ a[2] \in 0..Tries /\ a = <<a[1], a[2]>>
    BY AttemptParts
  <2>3. j \in spoiled[id] \/ (id = a[1] /\ j = Latest(a[1]))
    BY <1>1 DEF Elsewhere, Remembers
  <2>4. sdp[<<id, j>>].step # "none"
    BY <1>2, <2>2, <2>3, LatestMade DEF Traced
  <2>5. QED
    BY <1>3, <2>1, <2>4 DEF KeepsAnswers
<1>5. QED
  BY <1>3, <1>4 DEF Traced, KeepsAnswers

(* No step of the server takes back what a goroutine has seen.                   *)
LEMMA ServeSettled ==
  ASSUME IInv, Orderly, NEW a \in Attempts, ServeSdp(a) \/ ServeAnswer(a),
         UNCHANGED <<clientVars, mainVars>>, NEW id \in Ids
  PROVE  Settled(id)'
<1>1. Now(id) \in Attempts /\ Now(id)' = Now(id) /\ worker'[id] = worker[id] /\ connections' = connections
  BY NowIsAttempt DEF IInv, clientVars, Now
<1>2. /\ sdp[Now(id)].step # "none" => sdp'[Now(id)].step # "none"
      /\ sdp[Now(id)].step = "ok" => sdp'[Now(id)] = sdp[Now(id)]
      /\ answer[Now(id)].step \in {"none", "ok"} => answer'[Now(id)] = answer[Now(id)]
  BY <1>1, ServeTraced DEF IInv, Orderly, KeepsAnswers
<1>3. QED
  BY <1>1, <1>2 DEF Orderly, Settled

LEMMA ServeUntried ==
  ASSUME ServerTypes, SpoiledType, Traced, Untried, Waves, NEW a \in Attempts, ServeSdp(a) \/ ServeAnswer(a),
         UNCHANGED <<clientVars, mainVars>>
  PROVE  Untried' /\ Waves'
<1>1. UNCHANGED <<worker, connections, setup, main, probe, wave, remaining, failed>>
  BY DEF clientVars, mainVars
<1>2. Elsewhere(a) /\ (sdp' = sdp \/ sdp[a].step # "none")
  BY SdpServedIs, AnswerServedIs DEF LooksUp, Closes, Removes, Creates, Offers
<1>3. \A b \in Attempts : sdp[b].step = "none" => sdp'[b] = sdp[b]
  BY <1>2 DEF Elsewhere
<1>4. \A id \in Ids : \A j \in 0..Tries : sdp[<<id, j>>].step = "none" => sdp'[<<id, j>>].step = "none"
  BY <1>3, AttemptOf
<1>5. Untried'
  <2>1. 0 \in 0..Tries /\ 1..Tries \subseteq 0..Tries
    BY TriesAssumption
  <2>2. Candidate' = Candidate
    BY <1>1 DEF Candidate
  <2>3. QED
    BY <1>1, <1>4, <2>1, <2>2 DEF Untried
<1>6. Waves'
  BY <1>1 DEF Waves, Batch, Now
<1>7. QED
  BY <1>5, <1>6

(* What a participant's phase depends on.                                      *)
Untouched(id) ==
  /\ UNCHANGED <<test, mine>>
  /\ worker'[id] = worker[id] /\ member'[id] = member[id]
  /\ \A j \in 0..Tries : object'[<<id, j>>] = object[<<id, j>>]
  /\ sdp'[Now(id)] = sdp[Now(id)] /\ answer'[Now(id)] = answer[Now(id)]
  /\ peer'[Now(id)].offer = peer[Now(id)].offer
  /\ Now(id) \in connections' <=> Now(id) \in connections

LEMMA UntouchedPhase ==
  ASSUME NEW id \in Ids, Untouched(id), OfferPhase(id), AnswerPhase(id), LinkedPhase(id)
  PROVE  OfferPhase(id)' /\ AnswerPhase(id)' /\ LinkedPhase(id)'
<1>1. Now(id)' = Now(id)
  BY DEF Untouched, Now
<1>2. /\ sdp'[Now(id)'] = sdp[Now(id)] /\ answer'[Now(id)'] = answer[Now(id)]
      /\ peer'[Now(id)'].offer = peer[Now(id)].offer
      /\ worker'[id] = worker[id]
      /\ Now(id)' \in connections' <=> Now(id) \in connections
  BY <1>1 DEF Untouched
<1>3. \A o : Open(id, o) => Open(id, o)' /\ (Offered(id, o) => Offered(id, o)')
  BY DEF Untouched, Open, Offered
<1>4. Answered(id) => Answered(id)'
  BY <1>1, <1>2 DEF Untouched, Answered, Linked
<1>5. OfferPhase(id)'
  BY <1>2, <1>3 DEF OfferPhase, Untouched
<1>6. AnswerPhase(id)'
  BY <1>2, <1>3 DEF AnswerPhase, Untouched
<1>7. LinkedPhase(id)'
  BY <1>2, <1>4 DEF LinkedPhase
<1>8. QED
  BY <1>5, <1>6, <1>7

LEMMA UntouchedSettled ==
  ASSUME NEW id \in Ids, Untouched(id), Settled(id)
  PROVE  Settled(id)'
<1>1. Now(id)' = Now(id)
  BY DEF Untouched, Now
<1>2. QED
  BY <1>1 DEF Untouched, Settled

(* A goroutine is at its latest attempt.                                         *)
LEMMA LatestIs ==
  ASSUME IInv, Orderly, NEW id \in Ids, worker[id].step \notin {"idle", "done"} \/ Now(id) \in connections
  PROVE  Latest(id) = worker[id].k
<1> PICK k \in 0..Tries : k = worker[id].k
  BY DEF IInv, ClientTypes
<1>1. k \in 1..Tries /\ sdp[<<id, k>>].step # "none"
  BY DEF Orderly, Settled, Now
<1> PICK n : n = Latest(id)
  OBVIOUS
<1>2. n \in 0..Tries /\ n >= k /\ sdp[<<id, n>>].step # "none"
  BY <1>1, LatestMade
<1>3. \A j \in 1..Tries : j > k => sdp[<<id, j>>].step = "none"
  BY DEF Orderly, Untried
<1>4. QED
  BY <1>1, <1>2, <1>3, TriesAssumption

(* How far a request of GET /sdp has come that no other one disturbs.            *)
GetPhase(a) ==
  /\ sdp[a].step \in {"offer", "ok"} => Open(a[1], sdp[a].found)
  /\ sdp[a].step = "ok" => Offered(a[1], sdp[a].found)
  /\ sdp[a].step = "error" => test # "live" \/ a[1] \notin mine \/ a[2] \in spoiled[a[1]]

(* A step of GET /sdp for such a request.                                        *)
LEMMA GetServed ==
  ASSUME IInv, Orderly, NEW a \in Attempts, ServeSdp(a), GetPhase(a), a[2] = Latest(a[1])
  PROVE  GetPhase(a)'
<1>0. a[1] \in Ids /\ a[2] \in 0..Tries /\ a = <<a[1], a[2]>> /\ None \notin 0..Tries
  BY AttemptParts DEF None
<1>1. /\ LooksUp(a) \/ Closes(a) \/ Removes(a) \/ Creates(a) \/ Offers(a)
      /\ UNCHANGED <<test, mine, answer>>
  BY SdpServedIs DEF IInv, Orderly
<1>2. ASSUME NEW f, f = sdp'[a].found, sdp'[a].step \in {"offer", "ok"}
      PROVE  Open(a[1], f)' /\ (sdp'[a].step = "ok" => Offered(a[1], f)')
  <2>1. CASE LooksUp(a)
    BY <1>0, <1>2, <2>1 DEF LooksUp, SameObjects, Open
  <2>2. CASE Creates(a)
    <3>1. sdp[<<a[1], a[2]>>].step \in Before
      BY <1>0, <2>2 DEF Creates, Before
    <3>2. object[<<a[1], a[2]>>] = NoObject
      BY <1>0, <3>1 DEF Orderly, Fresh, Unmade
    <3>3. /\ sdp'[a].found = a[2] /\ member'[a[1]] = a[2] /\ object'[<<a[1], a[2]>>] = NoObject
          /\ sdp'[a].step # "ok"
      BY <1>0, <1>2, <2>2, <3>2 DEF Creates, SameObjects
    <3>4. QED
      BY <1>0, <1>2, <3>3 DEF Open, NoObject
  <2>3. CASE Offers(a)
    <3>1. Open(a[1], sdp[a].found)
      BY <2>3 DEF Offers, GetPhase
    <3>2. sdp'[a].found = sdp[a].found
      BY <1>2, <2>3 DEF Offers
    <3>3. QED
      BY <1>0, <1>2, <2>3, <3>1, <3>2 DEF Offers, Open, Offered
  <2>4. QED
    BY <1>1, <1>2, <2>1, <2>2, <2>3 DEF Closes, Removes
<1>3. ASSUME sdp'[a].step = "error"
      PROVE  test # "live" \/ a[1] \notin mine \/ a[2] \in spoiled'[a[1]]
  <2>1. ~Offers(a)
    <3>1. SUFFICES ASSUME Offers(a) PROVE FALSE
      OBVIOUS
    <3>2. Open(a[1], sdp[a].found)
      BY <3>1 DEF Offers, GetPhase
    <3>3. object[<<a[1], sdp[a].found>>].closed
      BY <1>0, <1>3, <3>1 DEF Offers
    <3>4. QED
      BY <3>2, <3>3 DEF Open
  <2>2. QED
    BY <1>0, <1>1, <1>3, <2>1 DEF LooksUp, Closes, Removes, Creates
<1>4. \A f : f = sdp'[a].found =>
        /\ sdp'[a].step \in {"offer", "ok"} => Open(a[1], f)'
        /\ sdp'[a].step = "ok" => Offered(a[1], f)'
  BY <1>2
<1>5. QED
  BY <1>1, <1>3, <1>4 DEF GetPhase, Open, Offered

(* The attempt its goroutine is at.                                              *)
LEMMA OfferServed ==
  ASSUME IInv, Orderly, NEW id \in Ids, ServeSdp(Now(id)), UNCHANGED <<clientVars, mainVars>>,
         worker[id].step = "get", OfferPhase(id), worker[id].k \notin spoiled'[id]
  PROVE  OfferPhase(id)' /\ AnswerPhase(id)' /\ LinkedPhase(id)'
<1> PICK a \in Attempts : a = Now(id)
  BY NowIsAttempt DEF IInv
<1>1. a[1] = id /\ worker'[id] = worker[id] /\ Now(id)' = a /\ connections' = connections
  BY DEF clientVars, Now
<1>2. Now(id) \notin connections
  BY DEF Orderly, Waves, Now
<1>3. GetPhase(a) /\ a[2] = worker[id].k /\ a[2] = Latest(a[1])
  BY <1>1, LatestIs DEF OfferPhase, GetPhase, Now
<1>4. GetPhase(a)'
  BY <1>3, GetServed
<1>5. OfferPhase(id)'
  BY <1>1, <1>3, <1>4 DEF OfferPhase, GetPhase
<1>6. QED
  BY <1>1, <1>2, <1>5 DEF AnswerPhase, LinkedPhase

(* And one of POST /answer.                                                    *)
LEMMA AnswerServed ==
  ASSUME IInv, Orderly, NEW id \in Ids, ServeAnswer(Now(id)), UNCHANGED <<clientVars, mainVars>>,
         worker[id].step = "post", AnswerPhase(id)
  PROVE  OfferPhase(id)' /\ AnswerPhase(id)' /\ LinkedPhase(id)'
<1> PICK a \in Attempts : a = Now(id)
  BY NowIsAttempt DEF IInv
<1>0. a[1] = id /\ a[2] \in 0..Tries /\ a = <<id, a[2]>> /\ None \notin 0..Tries
  BY AttemptParts DEF Now, None
<1>1. /\ LooksUpOffer(a) \/ TakesAnswer(a)
      /\ UNCHANGED <<test, mine, member, sdp>>
  BY AnswerServedIs DEF IInv, Orderly
<1>2. answer[a].step \in AnswerServing
  BY <1>1 DEF LooksUpOffer, TakesAnswer, AnswerServing
<1> PICK o : o = peer[a].offer
  OBVIOUS
<1>3. Open(id, o) /\ Offered(id, o) /\ (answer[a].step = "apply" => answer[a].found = o)
  BY <1>2 DEF AnswerPhase, Open
<1>4. /\ worker'[id].step = "post" /\ Now(id)' = a /\ peer'[a].offer = o
      /\ Now(id)' \notin connections'
  <2>1. worker'[id] = worker[id] /\ Now(id)' = a /\ peer' = peer /\ connections' = connections
    BY DEF clientVars, Now
  <2>2. QED
    BY <2>1 DEF Orderly, Waves, Now
<1>5. CASE LooksUpOffer(a)
  <2>1. Open(id, o)' /\ Offered(id, o)'
    BY <1>0, <1>1, <1>3, <1>5 DEF LooksUpOffer, SameObjects, Open, Offered
  <2>2. answer'[a].step \in {"error", "apply"} /\ answer'[a].found = member'[id]
    BY <1>0, <1>1, <1>5 DEF LooksUpOffer
  <2>3. answer'[a].step = "error" => test' = "unknown"
    <3>1. member[id] # None
      BY <1>0, <1>3 DEF Open
    <3>2. QED
      BY <1>0, <1>1, <1>5, <3>1 DEF LooksUpOffer
  <2>4. OfferPhase(id)' /\ LinkedPhase(id)'
    BY <1>4, <2>2 DEF OfferPhase, LinkedPhase
  <2>5. AnswerPhase(id)'
    BY <1>4, <2>1, <2>2, <2>3 DEF AnswerPhase, Open, Offered
  <2>6. QED
    BY <2>4, <2>5
<1>6. CASE TakesAnswer(a)
  <2>1. answer[a].found = o /\ o \in 0..Tries /\ member'[id] = o /\ <<id, o>> \in Attempts
    BY <1>1, <1>3, <1>6, AttemptOf DEF TakesAnswer, Open
  <2>2. answer'[a].step = "ok"
    <3>1. object[<<id, o>>] \in [offered : BOOLEAN, remote : Maker, closed : BOOLEAN]
      BY <2>1 DEF IInv, ServerTypes
    <3>2. object[<<id, o>>] = [offered |-> TRUE, remote |-> None, closed |-> FALSE]
      BY <1>3, <3>1 DEF Open, Offered
    <3>3. QED
      BY <1>0, <1>6, <2>1, <3>2 DEF TakesAnswer
  <2>3. object'[<<id, o>>].remote = a[2] /\ ~object'[<<id, o>>].closed
    BY <1>0, <1>6, <2>1, <2>2 DEF TakesAnswer
  <2>4. Answered(id)'
    BY <1>0, <1>4, <2>1, <2>3 DEF Answered, Linked
  <2>5. QED
    BY <1>4, <2>2, <2>4 DEF OfferPhase, AnswerPhase, LinkedPhase, AnswerServing
<1>7. QED
  BY <1>1, <1>5, <1>6

LEMMA ServePhases ==
  ASSUME IInv, Orderly, NEW a \in Attempts, ServeSdp(a) \/ ServeAnswer(a),
         UNCHANGED <<clientVars, mainVars>>
  PROVE  Phases'
<1>0. /\ a[1] \in Ids /\ a[2] \in 0..Tries /\ a = <<a[1], a[2]>>
      /\ ServerTypes /\ SpoiledType /\ Traced
  BY AttemptParts DEF IInv, Orderly
<1>1. UNCHANGED <<worker, peer, connections>>
  BY DEF clientVars
<1>2. Elsewhere(a) /\ Remembers(a) /\ UNCHANGED <<test, mine>>
  BY <1>0, SdpServedIs, AnswerServedIs
<1>3. \A id \in Ids : Now(id)' = Now(id) /\ Now(id) \in Attempts /\ Now(id)[1] = id
  BY <1>1, NowIsAttempt DEF Now, IInv
<1> SUFFICES ASSUME NEW id \in Ids, worker'[id].k \notin spoiled'[id]
             PROVE  OfferPhase(id)' /\ AnswerPhase(id)' /\ LinkedPhase(id)'
  BY DEF Phases
<1>4. worker'[id] = worker[id] /\ worker[id].k \notin spoiled[id]
  BY <1>1, <1>2 DEF Elsewhere, Remembers
<1>5. OfferPhase(id) /\ AnswerPhase(id) /\ LinkedPhase(id)
  BY <1>4 DEF Orderly, Phases
<1>6. CASE id # a[1]
  <2>1. Untouched(id)
    BY <1>1, <1>2, <1>3, <1>6 DEF Untouched, Elsewhere
  <2>2. QED
    BY <1>5, <2>1, UntouchedPhase
<1>7. CASE id = a[1] /\ worker[id].step \in {"idle", "failed", "done"} /\ Now(id) \notin connections
  <2>1. worker'[id].step \in {"idle", "failed", "done"} /\ Now(id)' \notin connections'
    BY <1>1, <1>3, <1>7
  <2>2. QED
    BY <2>1 DEF OfferPhase, AnswerPhase, LinkedPhase
<1>8. CASE /\ id = a[1]
           /\ worker[id].step \in {"get", "describe", "post", "ice", "record"} \/ Now(id) \in connections
  <2>1. Latest(id) = worker[id].k
    BY <1>8, LatestIs
  <2>2. a = Now(id)
    BY <1>0, <1>2, <1>4, <1>8, <2>1 DEF Remembers, Now
  <2>3. CASE ServeSdp(a)
    <3>1. sdp[a].step # "ok"
      BY <1>0, <2>3, SdpServedIs DEF LooksUp, Closes, Removes, Creates, Offers
    <3>2. worker[id].step = "get"
      BY <1>8, <2>2, <3>1 DEF Orderly, Settled
    <3>3. worker[id].k \notin spoiled'[id]
      BY <1>4
    <3>4. QED
      BY <1>5, <2>2, <2>3, <3>2, <3>3, OfferServed
  <2>4. CASE ServeAnswer(a)
    <3>1. answer[a].step \notin {"none", "ok"}
      BY <1>0, <2>4, AnswerServedIs DEF LooksUpOffer, TakesAnswer
    <3>2. worker[id].step = "post"
      BY <1>8, <2>2, <3>1 DEF Orderly, Settled
    <3>3. QED
      BY <1>5, <2>2, <2>4, <3>2, AnswerServed
  <2>5. QED
    BY <2>3, <2>4
<1>9. worker[id].step \in WorkerSteps
  BY DEF IInv, ClientTypes
<1>10. QED
  BY <1>6, <1>7, <1>8, <1>9 DEF WorkerSteps

LEMMA ServeOrderly ==
  ASSUME IInv, Orderly, NEW a \in Attempts, Serve(a)
  PROVE  Orderly'
<1>1. (ServeSdp(a) \/ ServeAnswer(a)) /\ UNCHANGED <<clientVars, mainVars>>
  BY DEF Serve
<1>2. ServerTypes /\ SpoiledType /\ Traced /\ Fresh /\ Untried /\ Waves
  BY DEF IInv, Orderly
<1>3. SpoiledType'
  BY <1>1, <1>2, SdpServedIs, AnswerServedIs DEF Remembers, SpoiledType
<1>4. QED
  BY <1>1, <1>2, <1>3, ServeFresh, ServeUntried, ServeTraced, ServeSettled, ServePhases DEF Orderly

LEMMA PeeringOrderly ==
  ASSUME IInv, Orderly, NEW a \in Attempts, Peering(a)
  PROVE  Orderly'
<1>1. PICK r : peer' = [peer EXCEPT ![a].reader = r]
  BY DEF Peering, PeerEvent, TrackArrives, ReaderEnds
<1>2. UNCHANGED <<serverVars, worker, connections, setup, main, probe, wave, remaining, failed>>
  BY DEF Peering, PeerEvent, TrackArrives, ReaderEnds, mainVars
<1>3. \A b \in Attempts : peer'[b].offer = peer[b].offer
  BY <1>1 DEF IInv, ClientTypes
<1>4. SpoiledType' /\ Fresh' /\ Untried' /\ Waves' /\ Traced'
  BY <1>2 DEF Orderly, SpoiledType, Fresh, Unmade, Untried, Waves, Traced, Batch, Now, Candidate, serverVars
<1>5. ASSUME NEW id \in Ids PROVE Untouched(id)
  <2>1. Now(id) \in Attempts
    BY NowIsAttempt DEF IInv
  <2>2. QED
    BY <1>2, <1>3, <2>1 DEF Untouched, serverVars
<1>6. Phases' /\ \A id \in Ids : Settled(id)'
  BY <1>2, <1>5, UntouchedPhase, UntouchedSettled DEF Orderly, Phases, serverVars
<1>7. QED
  BY <1>4, <1>6 DEF Orderly

-----------------------------------------------------------------------------
(* A goroutine's steps keep the order.                                         *)

(* What a step of Connect leaves alone, and what it does to its own requests.   *)
OwnStep(id) ==
  /\ UNCHANGED <<test, mine, member, object, spoiled>>
  /\ worker'[id].k = worker[id].k /\ worker'[id].step # "idle"
  /\ \A other \in Ids \ {id} : worker'[other] = worker[other]
  /\ \A b \in Attempts \ {Now(id)} : sdp'[b] = sdp[b] /\ answer'[b] = answer[b] /\ peer'[b] = peer[b]
  /\ sdp'[Now(id)].step = sdp[Now(id)].step /\ sdp'[Now(id)].found = sdp[Now(id)].found
  /\ sdp'[Now(id)].awaited => sdp[Now(id)].awaited
  /\ answer'[Now(id)].found \in {answer[Now(id)].found, None}
  /\ connections' \in {connections, connections \union {Now(id)}}

(* Where it goes, with what the other requests need.                           *)
Describes(id) ==
  /\ worker[id].step = "get" /\ sdp[Now(id)].step = "ok" /\ worker'[id].step = "describe"
  /\ peer'[Now(id)].offer = sdp[Now(id)].found /\ UNCHANGED <<answer, connections>>
Posts(id) ==
  /\ worker[id].step = "describe" /\ worker'[id].step = "post"
  /\ answer'[Now(id)].step = "sent" /\ UNCHANGED <<sdp, peer, connections>>
Fails(id) ==
  /\ worker'[id].step = "failed" /\ UNCHANGED connections
  /\ \/ worker[id].step = "get" /\ sdp'[Now(id)].step = "error" /\ UNCHANGED answer
     \/ worker[id].step = "get" /\ ~sdp'[Now(id)].awaited /\ UNCHANGED answer
     \/ worker[id].step = "describe" /\ UNCHANGED <<sdp, answer>>
     \/ worker[id].step = "post" /\ answer'[Now(id)].step = "error" /\ UNCHANGED sdp
     \/ worker[id].step = "post" /\ ~answer'[Now(id)].awaited /\ UNCHANGED sdp
Takes(id) ==
  /\ worker[id].step = "post" /\ answer[Now(id)].step = "ok" /\ worker'[id].step = "ice"
  /\ UNCHANGED <<sdp, answer, peer, connections>>
Finishes(id) ==
  /\ \/ worker[id].step = "ice" /\ worker'[id].step = "record" /\ UNCHANGED connections
     \/ /\ worker[id].step = "record" /\ worker'[id].step = "done"
        /\ connections' = connections \union {Now(id)}
  /\ UNCHANGED <<sdp, answer, peer>>

LEMMA ConnectingIs ==
  ASSUME ServerTypes, ClientTypes, NEW id \in Ids, ConnectStep(id) \/ ConnectFault(id)
  PROVE  /\ OwnStep(id)
         /\ Describes(id) \/ Posts(id) \/ Fails(id) \/ Takes(id) \/ Finishes(id)
<1> DEFINE R == [step : SdpSteps, found : Maker, awaited : BOOLEAN]
           Q == [step : AnswerSteps, found : Maker, awaited : BOOLEAN]
           P == [state : {"none", "open", "closed"}, offer : Maker, reader : {"none", "reading", "ended"}]
<1>0. /\ Now(id) \in Attempts /\ sdp \in [Attempts -> R] /\ answer \in [Attempts -> Q]
      /\ peer \in [Attempts -> P]
  BY NowIsAttempt DEF ServerTypes, ClientTypes
<1>1. ASSUME NEW step \in WorkerSteps \ {"idle"}, Go(id, step)
      PROVE  /\ worker'[id].step = step /\ worker'[id].k = worker[id].k /\ worker'[id].step # "idle"
             /\ \A other \in Ids \ {id} : worker'[other] = worker[other]
  <2>1. step \in WorkerSteps /\ step # "idle"
    OBVIOUS
  <2>2. /\ worker'[id] = [step |-> step, k |-> worker[id].k]
        /\ \A other \in Ids \ {id} : worker'[other] = worker[other]
    BY <1>1, <2>1, GoType
  <2>3. QED
    BY <2>1, <2>2
<1>2. ASSUME sdp' = [sdp EXCEPT ![Now(id)].awaited = FALSE]
      PROVE  /\ \A b \in Attempts \ {Now(id)} : sdp'[b] = sdp[b]
             /\ sdp'[Now(id)].step = sdp[Now(id)].step /\ sdp'[Now(id)].found = sdp[Now(id)].found
             /\ ~sdp'[Now(id)].awaited
  BY <1>0, <1>2
<1>3. ASSUME answer' = [answer EXCEPT ![Now(id)].awaited = FALSE]
      PROVE  /\ \A b \in Attempts \ {Now(id)} : answer'[b] = answer[b]
             /\ answer'[Now(id)].step = answer[Now(id)].step /\ answer'[Now(id)].found = answer[Now(id)].found
             /\ ~answer'[Now(id)].awaited
  BY <1>0, <1>3
<1>4. ASSUME Closed(Now(id)) \/ Opened(Now(id), sdp[Now(id)].found)
      PROVE  \A b \in Attempts \ {Now(id)} : peer'[b] = peer[b]
  BY <1>0, <1>4 DEF Closed, Opened
<1>5. ASSUME answer' = [answer EXCEPT ![Now(id)] = Request("sent", None)]
      PROVE  /\ \A b \in Attempts \ {Now(id)} : answer'[b] = answer[b]
             /\ answer'[Now(id)].step = "sent" /\ answer'[Now(id)].found = None
  BY <1>0, <1>5 DEF Request
<1> HIDE DEF R, Q, P
<1>6. {"get", "describe", "post", "ice", "record", "failed", "done"} \subseteq WorkerSteps \ {"idle"}
  BY DEF WorkerSteps
<1>7. CASE OfferComes(id)
  <2>1. CASE sdp[Now(id)].step = "ok" /\ Go(id, "describe") /\ Opened(Now(id), sdp[Now(id)].found)
    <3>1. peer'[Now(id)].offer = sdp[Now(id)].found
      BY <1>0, <2>1 DEF Opened, P
    <3>2. worker[id].step = "get" /\ UNCHANGED <<serverVars, connections>>
      BY <1>7 DEF OfferComes
    <3>3. Describes(id)
      BY <1>1, <1>6, <2>1, <3>1, <3>2 DEF Describes, serverVars
    <3>4. OwnStep(id)
      BY <1>1, <1>4, <1>6, <2>1, <3>2 DEF OwnStep, serverVars
    <3>5. QED
      BY <3>3, <3>4
  <2>2. CASE sdp[Now(id)].step = "error" /\ Go(id, "failed") /\ UNCHANGED peer
    <3>1. worker[id].step = "get" /\ UNCHANGED <<serverVars, connections>>
      BY <1>7 DEF OfferComes
    <3>2. OwnStep(id) /\ Fails(id)
      BY <1>1, <1>6, <2>2, <3>1 DEF OwnStep, Fails, serverVars
    <3>3. QED
      BY <3>2
  <2>3. QED
    BY <1>7, <2>1, <2>2 DEF OfferComes
<1>8. CASE OfferTimesOut(id)
  BY <1>1, <1>2, <1>6, <1>8 DEF OfferTimesOut, OwnStep, Fails
<1>9. CASE Describe(id)
  BY <1>1, <1>5, <1>6, <1>9 DEF Describe, OwnStep, Posts
<1>10. CASE DescribeFails(id)
  BY <1>1, <1>4, <1>6, <1>10 DEF DescribeFails, OwnStep, Fails, serverVars
<1>11. CASE AnswerRefused(id)
  BY <1>1, <1>4, <1>6, <1>11 DEF AnswerRefused, OwnStep, Fails, serverVars
<1>12. CASE AnswerTaken(id)
  BY <1>1, <1>6, <1>12 DEF AnswerTaken, OwnStep, Takes, serverVars
<1>13. CASE AnswerTimesOut(id)
  BY <1>1, <1>3, <1>4, <1>6, <1>13 DEF AnswerTimesOut, OwnStep, Fails
<1>14. CASE ConnectReturns(id)
  BY <1>1, <1>6, <1>14 DEF ConnectReturns, OwnStep, Finishes, serverVars
<1>15. CASE Record(id)
  BY <1>1, <1>6, <1>15 DEF Record, OwnStep, Finishes, serverVars
<1>16. QED
  BY <1>7, <1>8, <1>9, <1>10, <1>11, <1>12, <1>13, <1>14, <1>15 DEF ConnectStep, ConnectFault

LEMMA ConnectingOrderly ==
  ASSUME IInv, Orderly, NEW id \in Ids, Connecting(id)
  PROVE  Orderly'
<1>0. /\ OwnStep(id) /\ (Describes(id) \/ Posts(id) \/ Fails(id) \/ Takes(id) \/ Finishes(id))
      /\ UNCHANGED mainVars
  BY ConnectingIs DEF Connecting, IInv
<1>1. UNCHANGED <<setup, main, probe, found, wave, remaining, failed>>
  BY <1>0 DEF mainVars
<1>2. worker[id].step \in {"get", "describe", "post", "ice", "record"}
  BY <1>0 DEF Describes, Posts, Fails, Takes, Finishes
<1>3. \A i \in Ids : Now(i)' = Now(i) /\ Now(i) \in Attempts /\ Now(i)[1] = i
  BY <1>0, NowIsAttempt DEF IInv, OwnStep, Now
<1>4. main # "probing" /\ id \notin remaining /\ id \notin failed
  BY <1>2 DEF IInv, Calm, Searching, Orderly, Waves
<1>5. \A b \in connections : b[1] # id
  BY <1>2 DEF Orderly, Waves
<1>6. \A b \in Attempts : b[1] \in Ids /\ b[2] \in 0..Tries /\ b = <<b[1], b[2]>>
  BY AttemptParts
<1>7. SpoiledType'
  BY <1>0 DEF Orderly, SpoiledType, OwnStep
<1>8. Fresh'
  <2>1. \A b \in Attempts : /\ sdp'[b].step = sdp[b].step /\ sdp'[b].found = sdp[b].found
                            /\ answer'[b].found \in {answer[b].found, None}
    BY <1>0 DEF OwnStep
  <2>2. None \notin 0..Tries
    BY DEF None
  <2>3. ASSUME NEW i \in Ids, NEW j \in 0..Tries, sdp'[<<i, j>>].step \in Before
        PROVE  Unmade(i, j)'
    <3>1. <<i, j>> \in Attempts /\ \A n \in 0..Tries : <<i, n>> \in Attempts
      BY AttemptOf
    <3>2. Unmade(i, j)
      BY <2>1, <2>3, <3>1 DEF Orderly, Fresh
    <3>3. UNCHANGED <<member, object>>
      BY <1>0 DEF OwnStep
    <3>4. QED
      BY <2>1, <2>2, <3>1, <3>2, <3>3 DEF Unmade
  <2>4. QED
    BY <2>3 DEF Fresh
<1>9. Untried'
  <2>1. \A b \in Attempts : sdp'[b].step = sdp[b].step
    BY <1>0 DEF OwnStep
  <2>2. \A i \in Ids : worker'[i].k = worker[i].k
    BY <1>0 DEF OwnStep
  <2>3. \A i \in Ids, j \in 0..Tries : sdp'[<<i, j>>].step = sdp[<<i, j>>].step
    BY <2>1, AttemptOf
  <2>4. 0 \in 0..Tries /\ 1..Tries \subseteq 0..Tries
    BY TriesAssumption
  <2>5. Candidate' = Candidate
    BY <1>1 DEF Candidate
  <2>6. QED
    BY <1>1, <2>2, <2>3, <2>4, <2>5 DEF Orderly, Untried
<1>10. Waves'
  <2>1. /\ \A i \in Ids : worker'[i].k = worker[i].k /\ (worker'[i].step = "idle" => worker[i].step = "idle")
        /\ \A i \in Ids \ {id} : worker'[i] = worker[i]
    BY <1>0 DEF OwnStep
  <2>2. remaining \subseteq Ids /\ failed \subseteq Ids /\ connections \subseteq Attempts
    BY DEF IInv, MainTypes, ServerTypes, ClientTypes
  <2>3. ASSUME NEW b \in connections'
        PROVE  /\ worker'[b[1]].step = "done" /\ Now(b[1])' = b
               /\ b[1] \notin remaining' /\ b[1] \notin failed'
    <3>1. CASE b \in connections
      <4>1. b[1] \in Ids /\ b[1] # id
        BY <1>5, <1>6, <2>2, <3>1
      <4>2. QED
        BY <1>1, <1>3, <2>1, <3>1, <4>1 DEF Orderly, Waves
    <3>2. CASE b \notin connections
      <4>1. b = Now(id) /\ worker'[id].step = "done"
        BY <1>0, <3>2 DEF Describes, Posts, Fails, Takes, Finishes
      <4>2. QED
        BY <1>1, <1>3, <1>4, <4>1
    <3>3. QED
      BY <3>1, <3>2
  <2>4. \A i \in failed : worker'[i].step = "done"
    BY <1>4, <2>1, <2>2 DEF Orderly, Waves
  <2>5. QED
    BY <1>1, <2>1, <2>2, <2>3, <2>4 DEF Orderly, Waves, Batch
<1>11. Traced' /\ \A i \in Ids : Settled(i)'
  <2>1. \A b \in Attempts : sdp'[b].step = sdp[b].step
    BY <1>0 DEF OwnStep
  <2>2. worker[id].k \in 1..Tries /\ sdp[Now(id)].step # "none"
    BY <1>2 DEF Orderly, Settled
  <2>3. Traced'
    <3>1. \A b \in Attempts : answer'[b].step # "none" => sdp'[b].step # "none"
      BY <1>0, <2>1, <2>2 DEF OwnStep, Orderly, Traced
    <3>2. \A i \in Ids : \A j \in spoiled[i] : <<i, j>> \in Attempts
      BY AttemptOf DEF Orderly, SpoiledType
    <3>3. spoiled' = spoiled
      BY <1>0 DEF OwnStep
    <3>4. QED
      BY <2>1, <3>1, <3>2, <3>3 DEF Orderly, Traced
  <2>4. ASSUME NEW i \in Ids PROVE Settled(i)'
    <3>1. CASE i # id
      <4>1. Now(i) # Now(id) /\ Now(i) \in Attempts
        BY <1>3, <3>1
      <4>2. Untouched(i)
        BY <1>0, <3>1, <4>1 DEF OwnStep, Untouched
      <4>3. QED
        BY <4>2, UntouchedSettled DEF Orderly
    <3>2. CASE i = id
      <4>1. /\ Now(id)' = Now(id) /\ Now(id) \notin connections /\ worker'[id].k = worker[id].k
            /\ sdp'[Now(id)].step = sdp[Now(id)].step
        BY <1>0, <1>3, <1>5 DEF OwnStep
      <4>2. Settled(id)
        BY DEF Orderly
      <4>3. CASE Describes(id)
        BY <2>2, <3>2, <4>1, <4>2, <4>3 DEF Describes, Settled
      <4>4. CASE Posts(id)
        BY <2>2, <3>2, <4>1, <4>2, <4>4 DEF Posts, Settled
      <4>5. CASE Fails(id)
        BY <2>2, <3>2, <4>1, <4>2, <4>5 DEF Fails, Settled
      <4>6. CASE Takes(id)
        BY <2>2, <3>2, <4>1, <4>2, <4>6 DEF Takes, Settled
      <4>7. CASE Finishes(id)
        BY <2>2, <3>2, <4>1, <4>2, <4>7 DEF Finishes, Settled
      <4>8. QED
        BY <1>0, <4>3, <4>4, <4>5, <4>6, <4>7
    <3>3. QED
      BY <3>1, <3>2
  <2>5. QED
    BY <2>3, <2>4
<1>12. Phases'
  <2> SUFFICES ASSUME NEW i \in Ids, worker'[i].k \notin spoiled'[i]
               PROVE  OfferPhase(i)' /\ AnswerPhase(i)' /\ LinkedPhase(i)'
    BY DEF Phases
  <2>1. OfferPhase(i) /\ AnswerPhase(i) /\ LinkedPhase(i)
    <3>1. worker'[i].k = worker[i].k /\ spoiled' = spoiled
      BY <1>0 DEF OwnStep
    <3>2. QED
      BY <3>1 DEF Orderly, Phases
  <2>2. CASE i # id
    <3>1. Now(i) # Now(id) /\ Now(i) \in Attempts
      BY <1>3, <2>2
    <3>2. Untouched(i)
      BY <1>0, <2>2, <3>1 DEF OwnStep, Untouched
    <3>3. QED
      BY <2>1, <3>2, UntouchedPhase
  <2>3. CASE i = id
    <3>1. /\ Now(id)' = Now(id) /\ UNCHANGED <<test, mine, member, object>> /\ Now(id) \notin connections
      BY <1>0, <1>3, <1>5 DEF OwnStep
    <3>2. CASE Describes(id)
      <4>1. Open(id, sdp[Now(id)].found) /\ Offered(id, sdp[Now(id)].found)
        BY <2>1, <2>3, <3>2 DEF Describes, OfferPhase
      <4>2. /\ worker'[id].step = "describe" /\ peer'[Now(id)].offer = sdp[Now(id)].found
            /\ connections' = connections
        BY <3>2 DEF Describes
      <4>3. QED
        BY <2>3, <3>1, <4>1, <4>2 DEF OfferPhase, AnswerPhase, LinkedPhase, Open, Offered
    <3>3. CASE Posts(id)
      <4>1. Open(id, peer[Now(id)].offer) /\ Offered(id, peer[Now(id)].offer)
        BY <2>1, <2>3, <3>3 DEF Posts, AnswerPhase
      <4>2. /\ worker'[id].step = "post" /\ peer' = peer /\ answer'[Now(id)].step = "sent"
            /\ connections' = connections
        BY <3>3 DEF Posts
      <4>3. QED
        BY <2>3, <3>1, <4>1, <4>2 DEF OfferPhase, AnswerPhase, LinkedPhase, Open, Offered
    <3>4. CASE Fails(id)
      BY <2>3, <3>1, <3>4 DEF Fails, OfferPhase, AnswerPhase, LinkedPhase
    <3>5. CASE Takes(id)
      <4>1. Answered(id)
        BY <2>1, <2>3, <3>5 DEF Takes, LinkedPhase
      <4>2. worker'[id].step = "ice" /\ peer' = peer /\ connections' = connections
        BY <3>5 DEF Takes
      <4>3. Answered(id)'
        BY <3>1, <4>1, <4>2 DEF Answered, Linked
      <4>4. QED
        BY <2>3, <4>2, <4>3 DEF OfferPhase, AnswerPhase, LinkedPhase
    <3>6. CASE Finishes(id)
      <4>1. Answered(id)
        BY <2>1, <2>3, <3>6 DEF Finishes, LinkedPhase
      <4>2. worker'[id].step \in {"record", "done"} /\ peer' = peer
        BY <3>6 DEF Finishes
      <4>3. Answered(id)'
        BY <3>1, <4>1, <4>2 DEF Answered, Linked
      <4>4. QED
        BY <2>3, <4>2, <4>3 DEF OfferPhase, AnswerPhase, LinkedPhase
    <3>7. QED
      BY <1>0, <3>2, <3>3, <3>4, <3>5, <3>6
  <2>4. QED
    BY <2>2, <2>3
<1>13. QED
  BY <1>7, <1>8, <1>9, <1>10, <1>11, <1>12 DEF Orderly

-----------------------------------------------------------------------------
(* The main goroutine's steps keep the order.                                  *)

LEMMA ProbedNaturals == \A limit : ProbedIds(limit) \subseteq Nat
BY ReceiverAssumption DEF ProbedIds

(* Nobody idle is connected or in a phase.                                     *)
LEMMA IdlePhases ==
  ASSUME Waves', \A i \in Ids : worker'[i].step = "idle"
  PROVE  Phases' /\ \A i \in Ids : Settled(i)'
<1> SUFFICES ASSUME NEW i \in Ids PROVE OfferPhase(i)' /\ AnswerPhase(i)' /\ LinkedPhase(i)' /\ Settled(i)'
  BY DEF Phases
<1>1. worker'[i].step = "idle" /\ Now(i)' \notin connections'
  BY DEF Waves, Now
<1>2. QED
  BY <1>1 DEF OfferPhase, AnswerPhase, LinkedPhase, Settled

LEMMA AsideOrderly ==
  ASSUME IInv, Orderly, UNCHANGED <<serverVars, worker, peer, connections>>,
         Untried', Waves'
  PROVE  Orderly'
<1>1. SpoiledType' /\ Fresh' /\ Traced'
  BY DEF Orderly, SpoiledType, Fresh, Unmade, Traced, serverVars
<1>2. ASSUME NEW i \in Ids PROVE Untouched(i)
  BY DEF Untouched, serverVars
<1>3. Phases' /\ \A i \in Ids : Settled(i)'
  BY <1>2, UntouchedPhase, UntouchedSettled DEF Orderly, Phases, serverVars
<1>4. QED
  BY <1>1, <1>3 DEF Orderly

LEMMA StartConnectingOrderly ==
  ASSUME IInv, Orderly, UNCHANGED <<serverVars, clientVars, setup, probe, failed>>,
         main \in {"metrics", "probe"}, NEW ids \in SUBSET mine, StartConnecting(ids)
  PROVE  Orderly'
<1>1. /\ \A i \in Ids : worker[i].step = "idle" /\ worker[i].k = 0
      /\ failed = {} /\ ids \subseteq Ids
  BY DEF IInv, Calm, Searching, Orderly, Waves, ServerTypes
<1>2. connections = {}
  <2>1. \A a \in connections : a[1] \in Ids /\ worker[a[1]].step = "done"
    BY AttemptParts DEF IInv, ClientTypes, Orderly, Waves
  <2>2. QED
    BY <1>1, <2>1
<1>3. /\ UNCHANGED <<worker, connections, failed>> /\ wave' = 1 /\ remaining' = ids
      /\ main' \in {"fatal", "connect"}
  BY DEF StartConnecting, clientVars
<1>4. Waves'
  BY <1>1, <1>2, <1>3 DEF Waves
<1>5. Untried'
  BY <1>3 DEF Orderly, Untried, serverVars
<1>6. QED
  BY <1>4, <1>5, AsideOrderly DEF Orderly, clientVars

LEMMA SearchOrderly ==
  ASSUME IInv, Orderly, FindByMetrics \/ MetricsFail \/ AskPartitions \/ ProbesEnd
  PROVE  Orderly'
<1>1. CASE FindByMetrics
  <2>1. PICK ids \in SUBSET mine : StartConnecting(ids)
    BY <1>1 DEF FindByMetrics, kSubset
  <2>2. QED
    BY <1>1, <2>1, StartConnectingOrderly DEF FindByMetrics
<1>2. CASE ProbesEnd
  <2>1. found \in SUBSET mine
    BY DEF IInv, MainTypes
  <2>2. QED
    BY <1>2, <2>1, StartConnectingOrderly DEF ProbesEnd
<1>3. CASE MetricsFail \/ AskPartitions
  <2>1. /\ main \in {"metrics", "health"} /\ main' \in {"health", "probe"}
        /\ UNCHANGED <<serverVars, worker, peer, connections, setup, found, wave, remaining, failed>>
    BY <1>3 DEF MetricsFail, AskPartitions
  <2>2. main' = "probe" => probe'.left \subseteq Nat
    <3>1. CASE MetricsFail
      <4>1. main' = "probe" => \E limit : probe' = [left |-> ProbedIds(limit), checked |-> 0]
        BY <3>1 DEF MetricsFail, FirstProbes
      <4>2. QED
        BY <4>1, ProbedNaturals
    <3>2. CASE AskPartitions
      <4>1. \E limit, T : T \subseteq ProbedIds(limit) /\ probe' = [left |-> T, checked |-> 0]
        BY <3>2 DEF AskPartitions, FirstProbes
      <4>2. QED
        BY <4>1, ProbedNaturals
    <3>3. QED
      BY <1>3, <3>1, <3>2
  <2>3. Untried'
    BY <2>1, <2>2 DEF Orderly, Untried, serverVars
  <2>4. Waves'
    BY <2>1 DEF Orderly, Waves, Batch, Now
  <2>5. QED
    BY <2>1, <2>3, <2>4, AsideOrderly DEF Orderly
<1>4. QED
  BY <1>1, <1>2, <1>3

(* A probe is sent under a name nothing was asked under.                       *)
LEMMA ProbeSentOrderly ==
  ASSUME IInv, Orderly, Probe, Candidate \in mine
  PROVE  Orderly'
<1> DEFINE c == Candidate
           R == [step : SdpSteps, found : Maker, awaited : BOOLEAN]
<1>1. /\ main = "probe" /\ main' = "probing" /\ probe.left # {} /\ c \in Ids
      /\ sdp' = [sdp EXCEPT ![<<c, 0>>] = Request("sent", None)]
      /\ UNCHANGED <<member, object, answer, spoiled, worker, peer, connections, setup, probe, wave, remaining, failed>>
  BY DEF Probe, clientVars, IInv, ServerTypes
<1>2. sdp \in [Attempts -> R] /\ 0 \in 0..Tries
  BY TriesAssumption DEF IInv, ServerTypes
<1>3. <<c, 0>> \in Attempts
  BY <1>1, <1>2, AttemptOf
<1>4. /\ sdp'[<<c, 0>>] = Request("sent", None)
      /\ \A b \in Attempts \ {<<c, 0>>} : sdp'[b] = sdp[b]
  BY <1>1, <1>2, <1>3
<1>5. c \in probe.left
  BY <1>1, SmallestOf DEF Orderly, Untried, Candidate
<1>6. sdp[<<c, 0>>].step = "none"
  BY <1>1, <1>5 DEF Orderly, Untried
<1>7. c' = c
  BY <1>1 DEF Candidate
<1> HIDE DEF c, R
<1>8. SpoiledType'
  BY <1>1 DEF Orderly, SpoiledType
<1>9. Fresh'
  <2> SUFFICES ASSUME NEW i \in Ids, NEW j \in 0..Tries, sdp'[<<i, j>>].step \in Before
               PROVE  Unmade(i, j)'
    BY DEF Fresh
  <2>1. \A n \in 0..Tries : /\ <<i, n>> \in Attempts
                            /\ \/ sdp'[<<i, n>>] = sdp[<<i, n>>]
                               \/ <<i, n>> = <<c, 0>> /\ sdp'[<<i, n>>].found = None
    BY <1>4, AttemptOf DEF Request
  <2>2. Unmade(i, j)
    BY <1>6, <2>1 DEF Orderly, Fresh, Before
  <2>3. None # j
    BY DEF None
  <2>4. QED
    BY <1>1, <2>1, <2>2, <2>3 DEF Unmade
<1>10. Untried'
  <2>1. \A i \in Ids : \A j \in 0..Tries : sdp'[<<i, j>>] = sdp[<<i, j>>] \/ <<i, j>> = <<c, 0>>
    BY <1>4, AttemptOf
  <2>2. ASSUME NEW i \in Ids, NEW j \in 1..Tries PROVE sdp'[<<i, j>>] = sdp[<<i, j>>]
    <3>1. j \in 0..Tries /\ j # 0
      BY TriesAssumption
    <3>2. <<i, j>> # <<c, 0>>
      BY <3>1
    <3>3. QED
      BY <2>1, <3>1, <3>2
  <2>3. QED
    BY <1>1, <1>2, <1>7, <2>1, <2>2 DEF Orderly, Untried, c
<1>11. Waves'
  BY <1>1 DEF Orderly, Waves, Batch, Now
<1>12. Traced'
  <2>1. \A b \in Attempts : sdp[b].step # "none" => sdp'[b].step # "none"
    BY <1>4 DEF Request
  <2>2. \A i \in Ids : \A j \in spoiled[i] : <<i, j>> \in Attempts
    BY AttemptOf DEF Orderly, SpoiledType
  <2>3. QED
    BY <1>1, <2>1, <2>2 DEF Orderly, Traced
<1>13. Phases' /\ \A i \in Ids : Settled(i)'
  BY <1>1, <1>11, IdlePhases DEF IInv, Calm, Searching
<1>14. QED
  BY <1>8, <1>9, <1>10, <1>11, <1>12, <1>13 DEF Orderly

LEMMA ProbeOrderly ==
  ASSUME IInv, Orderly, Probe \/ ProbeAnswered \/ ProbeTimesOut
  PROVE  Orderly'
<1>1. CASE Probe /\ Candidate \in mine
  BY <1>1, ProbeSentOrderly
<1>2. CASE Probe /\ Candidate \notin mine
  <2>1. /\ main = "probe" /\ main' = main /\ probe'.left \subseteq probe.left
        /\ UNCHANGED <<serverVars, worker, peer, connections, setup, wave, remaining, failed>>
    BY <1>2 DEF Probe, Asked, serverVars, clientVars
  <2>2. Untried'
    BY <2>1 DEF Orderly, Untried, serverVars
  <2>3. Waves'
    BY <2>1 DEF Orderly, Waves, Batch, Now
  <2>4. QED
    BY <2>1, <2>2, <2>3, AsideOrderly DEF Orderly
<1>3. CASE ProbeAnswered
  <2>1. /\ main = "probing" /\ main' = "probe" /\ probe'.left \subseteq probe.left \ {Candidate}
        /\ sdp[<<Candidate, 0>>].step \in {"ok", "error"}
        /\ UNCHANGED <<serverVars, worker, peer, connections, setup, wave, remaining, failed>>
    BY <1>3 DEF ProbeAnswered, Asked, clientVars
  <2>2. Untried'
    BY <2>1 DEF Orderly, Untried, serverVars
  <2>3. Waves'
    BY <2>1 DEF Orderly, Waves, Batch, Now
  <2>4. QED
    BY <2>1, <2>2, <2>3, AsideOrderly
<1>4. CASE ProbeTimesOut
  <2>1. /\ main = "probing" /\ main' = "probe" /\ probe'.left \subseteq probe.left \ {Candidate}
        /\ sdp' = [sdp EXCEPT ![<<Candidate, 0>>].awaited = FALSE]
        /\ UNCHANGED <<member, object, answer, spoiled, worker, peer, connections, setup, wave, remaining, failed>>
    BY <1>4 DEF ProbeTimesOut, Asked
  <2>2. \A b \in Attempts : sdp'[b].step = sdp[b].step /\ sdp'[b].found = sdp[b].found
    BY <2>1 DEF IInv, ServerTypes
  <2>3. \A i \in Ids : \A j \in 0..Tries : /\ sdp'[<<i, j>>].step = sdp[<<i, j>>].step
                                           /\ sdp'[<<i, j>>].found = sdp[<<i, j>>].found
    BY <2>2, AttemptOf
  <2>4. SpoiledType'
    BY <2>1 DEF Orderly, SpoiledType
  <2>5. Fresh'
    <3>1. \A i \in Ids : \A j \in 0..Tries : Unmade(i, j) => Unmade(i, j)'
      BY <2>1, <2>3 DEF Unmade
    <3>2. QED
      BY <2>3, <3>1 DEF Orderly, Fresh
  <2>6. Untried'
    <3>1. 0 \in 0..Tries /\ 1..Tries \subseteq 0..Tries
      BY TriesAssumption
    <3>2. QED
      BY <2>1, <2>3, <3>1 DEF Orderly, Untried
  <2>7. Waves'
    BY <2>1 DEF Orderly, Waves, Batch, Now
  <2>8. Traced'
    <3>1. \A i \in Ids : \A j \in spoiled[i] : j \in 0..Tries
      BY DEF Orderly, SpoiledType
    <3>2. QED
      BY <2>1, <2>2, <2>3, <3>1 DEF Orderly, Traced
  <2>9. Phases' /\ \A i \in Ids : Settled(i)'
    BY <2>1, <2>7, IdlePhases DEF IInv, Calm, Searching
  <2>10. QED
    BY <2>4, <2>5, <2>6, <2>7, <2>8, <2>9 DEF Orderly
<1>5. QED
  BY <1>1, <1>2, <1>3, <1>4

-----------------------------------------------------------------------------
(* A goroutine that starts takes a name nothing was asked under, and none is    *)
(* started for who is connected.                                               *)

(* The other participants are not concerned.                                   *)
LEMMA OthersPhases ==
  ASSUME IInv, Orderly, NEW id \in Ids,
         UNCHANGED <<test, mine, member, object, answer, spoiled, peer, connections>>,
         \A i \in Ids \ {id} : worker'[i] = worker[i],
         \A b \in Attempts : b[1] # id => sdp'[b] = sdp[b],
         OfferPhase(id)' /\ AnswerPhase(id)' /\ LinkedPhase(id)' /\ Settled(id)'
  PROVE  Phases' /\ \A i \in Ids : Settled(i)'
<1>1. ASSUME NEW i \in Ids, i # id PROVE Untouched(i)
  <2>1. Now(i) \in Attempts /\ Now(i)[1] = i
    BY NowIsAttempt DEF IInv
  <2>2. QED
    BY <1>1, <2>1 DEF Untouched
<1>2. \A i \in Ids : Settled(i)'
  BY <1>1, UntouchedSettled DEF Orderly
<1>3. ASSUME NEW i \in Ids, i # id, worker'[i].k \notin spoiled'[i]
      PROVE  OfferPhase(i)' /\ AnswerPhase(i)' /\ LinkedPhase(i)'
  <2>1. OfferPhase(i) /\ AnswerPhase(i) /\ LinkedPhase(i)
    BY <1>3 DEF Orderly, Phases
  <2>2. QED
    BY <1>1, <1>3, <2>1, UntouchedPhase
<1>4. QED
  BY <1>2, <1>3 DEF Phases

LEMMA BeginOrderly ==
  ASSUME IInv, Orderly, main = "connect", main' = main,
         NEW id \in Ids, worker[id].step \in {"idle", "done", "failed"},
         \A b \in connections : b[1] # id,
         NEW k \in 1..Tries, k > worker[id].k, Begin(id, k),
         UNCHANGED <<test, mine, member, object, answer, spoiled, peer, connections>>
  PROVE  /\ SpoiledType' /\ Fresh' /\ Untried' /\ Traced' /\ Phases' /\ (\A i \in Ids : Settled(i)')
         /\ worker'[id] = [step |-> "get", k |-> k]
         /\ \A i \in Ids \ {id} : worker'[i] = worker[i]
<1> DEFINE R == [step : SdpSteps, found : Maker, awaited : BOOLEAN]
           W == [step : WorkerSteps, k : 0..Tries]
<1>1. /\ sdp \in [Attempts -> R] /\ worker \in [Ids -> W] /\ k \in 0..Tries /\ <<id, k>> \in Attempts
      /\ worker[id].k \in 0..Tries
  BY TriesAssumption, AttemptOf DEF IInv, ServerTypes, ClientTypes
<1>2. /\ sdp'[<<id, k>>] = Request("sent", None)
      /\ \A b \in Attempts \ {<<id, k>>} : sdp'[b] = sdp[b]
      /\ worker'[id] = [step |-> "get", k |-> k]
      /\ \A i \in Ids \ {id} : worker'[i] = worker[i]
  BY <1>1 DEF Begin
<1> HIDE DEF R, W
<1>3. sdp[<<id, k>>].step = "none"
  BY DEF Orderly, Untried
<1>4. SpoiledType'
  BY DEF Orderly, SpoiledType
<1>5. Fresh'
  <2> SUFFICES ASSUME NEW i \in Ids, NEW j \in 0..Tries, sdp'[<<i, j>>].step \in Before
               PROVE  Unmade(i, j)'
    BY DEF Fresh
  <2>1. \A n \in 0..Tries : /\ <<i, n>> \in Attempts
                            /\ \/ sdp'[<<i, n>>] = sdp[<<i, n>>]
                               \/ <<i, n>> = <<id, k>> /\ sdp'[<<i, n>>].found = None
    BY <1>2, AttemptOf DEF Request
  <2>2. Unmade(i, j)
    BY <1>3, <2>1 DEF Orderly, Fresh, Before
  <2>3. None # j
    BY DEF None
  <2>4. QED
    BY <2>1, <2>2, <2>3 DEF Unmade
<1>6. Untried'
  <2>1. \A i \in Ids : \A j \in 0..Tries : sdp'[<<i, j>>] = sdp[<<i, j>>] \/ <<i, j>> = <<id, k>>
    BY <1>2, AttemptOf
  <2>2. ASSUME NEW i \in Ids, NEW j \in 1..Tries, j > worker'[i].k
        PROVE  sdp'[<<i, j>>].step = "none"
    <3>1. j > worker[i].k /\ <<i, j>> # <<id, k>>
      BY <1>1, <1>2, <2>2
    <3>2. j \in 0..Tries
      BY TriesAssumption
    <3>3. QED
      BY <2>1, <3>1, <3>2 DEF Orderly, Untried
  <2>3. QED
    BY <2>2 DEF Untried
<1>7. Traced'
  <2>1. \A b \in Attempts : sdp[b].step # "none" => sdp'[b].step # "none"
    BY <1>2 DEF Request
  <2>2. \A i \in Ids : \A j \in spoiled[i] : <<i, j>> \in Attempts
    BY AttemptOf DEF Orderly, SpoiledType
  <2>3. QED
    BY <2>1, <2>2 DEF Orderly, Traced
<1>8. Phases' /\ \A i \in Ids : Settled(i)'
  <2>1. /\ worker'[id].step = "get" /\ Now(id)' = <<id, k>> /\ Now(id)' \notin connections'
        /\ sdp'[Now(id)'].step = "sent"
    BY <1>2 DEF Now, Request
  <2>2. OfferPhase(id)' /\ AnswerPhase(id)' /\ LinkedPhase(id)'
    BY <2>1 DEF OfferPhase, AnswerPhase, LinkedPhase
  <2>3. Settled(id)'
    <3>1. answer[<<id, k>>].step = "none"
      BY <1>1, <1>3 DEF Orderly, Traced
    <3>2. worker'[id].k = k
      BY <1>2
    <3>3. QED
      BY <2>1, <3>1, <3>2 DEF Settled
  <2>4. \A b \in Attempts : b[1] # id => sdp'[b] = sdp[b]
    BY <1>2
  <2>5. QED
    BY <1>2, <2>2, <2>3, <2>4, OthersPhases
<1>9. QED
  BY <1>2, <1>4, <1>5, <1>6, <1>7, <1>8

LEMMA DoneOrderly ==
  ASSUME IInv, Orderly, main = "connect", main' = main,
         NEW id \in Ids, worker[id].step \in {"idle", "done", "failed"},
         \A b \in connections : b[1] # id, Go(id, "done"),
         UNCHANGED <<test, mine, member, object, sdp, answer, spoiled, peer, connections>>
  PROVE  /\ SpoiledType' /\ Fresh' /\ Untried' /\ Traced' /\ Phases' /\ (\A i \in Ids : Settled(i)')
         /\ worker'[id] = [step |-> "done", k |-> worker[id].k]
         /\ \A i \in Ids \ {id} : worker'[i] = worker[i]
<1>1. /\ worker'[id] = [step |-> "done", k |-> worker[id].k]
      /\ \A i \in Ids \ {id} : worker'[i] = worker[i]
  <2>1. "done" \in WorkerSteps
    BY DEF WorkerSteps
  <2>2. QED
    BY <2>1, GoType DEF IInv
<1>2. SpoiledType' /\ Fresh'
  BY DEF Orderly, SpoiledType, Fresh, Unmade
<1>3. Untried'
  <2>1. \A i \in Ids : worker'[i].k = worker[i].k
    BY <1>1
  <2>2. QED
    BY <2>1 DEF Orderly, Untried
<1>4. Traced'
  BY DEF Orderly, Traced
<1>5. Phases' /\ \A i \in Ids : Settled(i)'
  <2>1. worker'[id].step = "done" /\ Now(id)' \notin connections'
    BY <1>1 DEF Now
  <2>2. OfferPhase(id)' /\ AnswerPhase(id)' /\ LinkedPhase(id)' /\ Settled(id)'
    BY <2>1 DEF OfferPhase, AnswerPhase, LinkedPhase, Settled
  <2>3. QED
    BY <1>1, <2>2, OthersPhases
<1>6. QED
  BY <1>1, <1>2, <1>3, <1>4, <1>5

LEMMA LaunchOrderly ==
  ASSUME IInv, Orderly, NEW id \in Ids, Launch(id)
  PROVE  Orderly'
<1>1. /\ main = "connect" /\ id \in remaining /\ remaining' = remaining \ {id}
      /\ UNCHANGED <<test, mine, member, object, answer, spoiled, peer, connections, setup, main, wave, failed>>
  BY DEF Launch
<1>2. /\ worker[id].step \in {"idle", "done"} /\ worker[id].k < wave /\ id \notin failed
      /\ \A b \in connections : b[1] # id
  BY <1>1 DEF IInv, Calm, Orderly, Waves
<1>3. /\ worker \in [Ids -> [step : WorkerSteps, k : 0..Tries]] /\ wave \in 0..2
      /\ connections \subseteq Attempts /\ remaining \subseteq Ids /\ failed \subseteq Ids
  BY DEF IInv, ClientTypes, MainTypes, ServerTypes
<1>4. wave \in 1..Tries
  BY <1>2, <1>3, TriesAssumption, ReceiverAssumption
<1>5. /\ SpoiledType' /\ Fresh' /\ Untried' /\ Traced' /\ Phases' /\ (\A i \in Ids : Settled(i)')
      /\ worker'[id] \in {[step |-> "get", k |-> wave], [step |-> "done", k |-> worker[id].k]}
      /\ \A i \in Ids \ {id} : worker'[i] = worker[i]
  <2>1. CASE Begin(id, wave)
    BY <1>1, <1>2, <1>4, <2>1, BeginOrderly
  <2>2. CASE Go(id, "done") /\ UNCHANGED sdp
    BY <1>1, <1>2, <2>2, DoneOrderly
  <2>3. QED
    BY <2>1, <2>2 DEF Launch, Go
<1>6. Waves'
  <2>1. ASSUME NEW b \in connections
        PROVE  /\ worker'[b[1]].step = "done" /\ Now(b[1])' = b
               /\ b[1] \notin remaining' /\ b[1] \notin failed'
    <3>1. b[1] \in Ids /\ b[1] # id
      BY <1>2, <1>3, AttemptParts
    <3>2. QED
      BY <1>1, <1>5, <3>1 DEF Orderly, Waves, Now
  <2>2. worker'[id].step # "idle" /\ worker'[id].k <= wave
    BY <1>2, <1>3, <1>5
  <2>3. \A i \in Ids : i # id => worker'[i] = worker[i]
    BY <1>5
  <2>4. QED
    BY <1>1, <1>2, <1>3, <2>1, <2>2, <2>3 DEF Orderly, Waves, Batch
<1>7. QED
  BY <1>5, <1>6 DEF Orderly

LEMMA RetryOrderly ==
  ASSUME IInv, Orderly, NEW id \in Ids, Retry(id)
  PROVE  Orderly'
<1>1. /\ main = "connect" /\ worker[id].step = "failed"
      /\ failed' = IF Batch THEN failed \union {id} ELSE failed
      /\ UNCHANGED <<test, mine, member, object, answer, spoiled, peer, connections, setup, main, wave, remaining>>
  BY DEF Retry
<1>2. id \notin remaining /\ id \notin failed /\ \A b \in connections : b[1] # id
  BY <1>1 DEF IInv, Calm, Orderly, Waves
<1>3. /\ worker \in [Ids -> [step : WorkerSteps, k : 0..Tries]]
      /\ connections \subseteq Attempts /\ remaining \subseteq Ids /\ failed \subseteq Ids
      /\ setup.retries \in 0..Tries
  BY ReceiverAssumption DEF IInv, ClientTypes, MainTypes, ServerTypes, Calm
<1>4. /\ SpoiledType' /\ Fresh' /\ Untried' /\ Traced' /\ Phases' /\ (\A i \in Ids : Settled(i)')
      /\ \/ ~Batch /\ worker'[id].step = "get"
         \/ worker'[id] = [step |-> "done", k |-> worker[id].k]
      /\ \A i \in Ids \ {id} : worker'[i] = worker[i]
  <2>1. CASE ~Batch /\ Begin(id, worker[id].k + 1) /\ worker[id].k < setup.retries
    <3>1. worker[id].k + 1 \in 1..Tries /\ worker[id].k + 1 > worker[id].k
      BY <1>3, <2>1, TriesAssumption
    <3>2. /\ SpoiledType' /\ Fresh' /\ Untried' /\ Traced' /\ Phases' /\ (\A i \in Ids : Settled(i)')
          /\ worker'[id] = [step |-> "get", k |-> worker[id].k + 1]
          /\ \A i \in Ids \ {id} : worker'[i] = worker[i]
      BY <1>1, <1>2, <2>1, <3>1, BeginOrderly
    <3>3. QED
      BY <2>1, <3>2
  <2>2. CASE Go(id, "done") /\ UNCHANGED sdp
    BY <1>1, <1>2, <2>2, DoneOrderly
  <2>3. QED
    BY <2>1, <2>2 DEF Retry
<1>5. Waves'
  <2>1. ASSUME NEW b \in connections
        PROVE  /\ worker'[b[1]].step = "done" /\ Now(b[1])' = b
               /\ b[1] \notin remaining' /\ b[1] \notin failed'
    <3>1. b[1] \in Ids /\ b[1] # id
      BY <1>2, <1>3, AttemptParts
    <3>2. QED
      BY <1>1, <1>4, <3>1 DEF Orderly, Waves, Now
  <2>2. /\ worker'[id].step # "idle"
        /\ Batch => worker'[id].step = "done" /\ worker'[id].k = worker[id].k
    BY <1>4
  <2>3. \A i \in Ids : i # id => worker'[i] = worker[i]
    BY <1>4
  <2>4. Batch' = Batch /\ failed' \cap remaining' = {}
    BY <1>1, <1>2 DEF Batch, Orderly, Waves
  <2>5. \A i \in failed' : worker'[i].step = "done"
    BY <1>1, <1>2, <1>3, <2>2, <2>3 DEF Orderly, Waves
  <2>6. \A i \in remaining' : worker'[i].k < wave'
    BY <1>1, <1>2, <1>3, <2>3 DEF Orderly, Waves
  <2>7. \A i \in Ids : worker'[i].step = "idle" => worker'[i].k = 0
    BY <2>2, <2>3 DEF Orderly, Waves
  <2>8. Batch => \A i \in Ids : worker'[i].k <= wave'
    BY <1>1, <2>2, <2>3 DEF Orderly, Waves
  <2>9. QED
    BY <1>1, <2>1, <2>4, <2>5, <2>6, <2>7, <2>8 DEF Waves
<1>6. QED
  BY <1>4, <1>5 DEF Orderly

LEMMA WaveEndsOrderly ==
  ASSUME IInv, Orderly, WaveEnds
  PROVE  Orderly'
<1>1. /\ main = "connect" /\ main' \in {"connect", "fatal", "stats"} /\ remaining = {}
      /\ UNCHANGED <<serverVars, worker, peer, connections, setup, probe>>
      /\ \/ Batch /\ wave' = wave + 1 /\ remaining' = failed /\ failed' = {}
         \/ UNCHANGED <<wave, remaining, failed>>
  BY DEF WaveEnds, clientVars
<1>2. /\ worker \in [Ids -> [step : WorkerSteps, k : 0..Tries]] /\ wave \in 0..2 /\ failed \subseteq Ids
  BY DEF IInv, ClientTypes, MainTypes, ServerTypes
<1>3. Batch' = Batch /\ \A i \in Ids : Now(i)' = Now(i)
  BY <1>1 DEF Batch, Now
<1>4. Waves'
  <2>1. CASE UNCHANGED <<wave, remaining, failed>>
    BY <1>1, <1>3, <2>1 DEF Orderly, Waves, Now
  <2>2. CASE Batch /\ wave' = wave + 1 /\ remaining' = failed /\ failed' = {}
    <3>1. \A i \in Ids : worker[i].k \in Nat /\ worker[i].k <= wave
      BY <1>2, <2>2 DEF Orderly, Waves
    <3>2. \A i \in Ids : worker'[i].k <= wave' /\ worker'[i].k < wave'
      BY <1>1, <1>2, <2>2, <3>1
    <3>3. QED
      BY <1>1, <1>2, <2>2, <3>2 DEF Orderly, Waves, Now
  <2>3. QED
    BY <1>1, <2>1, <2>2
<1>5. Untried'
  BY <1>1 DEF Orderly, Untried, serverVars
<1>6. QED
  BY <1>1, <1>4, <1>5, AsideOrderly DEF Orderly

LEMMA EndsOrderly ==
  ASSUME IInv, Orderly, MapRace \/ Interrupt
  PROVE  Orderly'
<1>1. CASE MapRace
  <2>1. /\ main = "connect" /\ main' = "crashed"
        /\ UNCHANGED <<serverVars, worker, peer, connections, setup, wave, remaining, failed>>
    BY <1>1 DEF MapRace, clientVars
  <2>2. Untried' /\ Waves'
    BY <2>1 DEF Orderly, Untried, Waves, Batch, Now, serverVars
  <2>3. QED
    BY <2>1, <2>2, AsideOrderly DEF Orderly
<1>2. CASE Interrupt
  <2>1. /\ main = "stats" /\ main' = "closed"
        /\ UNCHANGED <<serverVars, worker, connections, setup, wave, remaining, failed>>
        /\ \A a \in Attempts : peer'[a].offer = peer[a].offer
    BY <1>2 DEF Interrupt, IInv, ClientTypes
  <2>2. SpoiledType' /\ Fresh' /\ Untried' /\ Waves' /\ Traced'
    BY <2>1 DEF Orderly, SpoiledType, Fresh, Unmade, Untried, Waves, Traced, Batch, Now, serverVars
  <2>3. ASSUME NEW i \in Ids PROVE Untouched(i)
    <3>1. Now(i) \in Attempts
      BY NowIsAttempt DEF IInv
    <3>2. QED
      BY <2>1, <3>1 DEF Untouched, serverVars
  <2>4. Phases' /\ \A i \in Ids : Settled(i)'
    BY <2>1, <2>3, UntouchedPhase, UntouchedSettled DEF Orderly, Phases, serverVars
  <2>5. QED
    BY <2>2, <2>4 DEF Orderly
<1>3. QED
  BY <1>1, <1>2

-----------------------------------------------------------------------------
LEMMA InitOrderly == Init => Orderly
<1> SUFFICES ASSUME Init PROVE Orderly
  OBVIOUS
<1> USE DEF Init, ServerInit, ClientInit
<1>1. SpoiledType
  BY DEF SpoiledType
<1>2. \A i \in Ids : \A j \in 0..Tries : /\ <<i, j>> \in Attempts /\ j # None
                                         /\ sdp[<<i, j>>] = Idle /\ answer[<<i, j>>] = Idle
                                         /\ object[<<i, j>>] = NoObject
  <2>1. ASSUME NEW b \in Attempts PROVE sdp[b] = Idle /\ answer[b] = Idle /\ object[b] = NoObject
    OBVIOUS
  <2>2. \A j \in 0..Tries : j # None
    BY DEF None
  <2>3. QED
    BY <2>1, <2>2, AttemptOf
<1>3. Fresh
  BY <1>2 DEF Fresh, Unmade, Idle, Request
<1>4. Untried
  BY <1>2, TriesAssumption DEF Untried, Idle, Request
<1>5. Waves
  BY DEF Waves
<1>6. Traced
  BY DEF Traced, Idle, Request
<1>7. Phases /\ \A id \in Ids : Settled(id)
  BY DEF Phases, OfferPhase, AnswerPhase, LinkedPhase, Settled
<1>8. QED
  BY <1>1, <1>3, <1>4, <1>5, <1>6, <1>7 DEF Orderly

LEMMA StepOrderly == IInv /\ Orderly /\ [Next]_vars => Orderly'
<1> SUFFICES ASSUME IInv, Orderly, [Next]_vars PROVE Orderly'
  OBVIOUS
<1>1. CASE UNCHANGED vars
  <2>1. UNCHANGED <<serverVars, worker, peer, connections, setup, main, probe, wave, remaining, failed>>
    BY <1>1 DEF vars, clientVars, mainVars
  <2>2. Untried' /\ Waves'
    BY <2>1 DEF Orderly, Untried, Waves, Batch, Now, Candidate, serverVars
  <2>3. QED
    BY <2>1, <2>2, AsideOrderly
<1>2. ASSUME NEW a \in Attempts, Serve(a) \/ Peering(a)
      PROVE  Orderly'
  BY <1>2, ServeOrderly, PeeringOrderly
<1>3. CASE MainStep
  BY <1>3, SearchOrderly, ProbeOrderly, WaveEndsOrderly DEF MainStep
<1>4. CASE ProbeTimesOut \/ Interrupt \/ MapRace
  BY <1>4, ProbeOrderly, EndsOrderly
<1>5. ASSUME NEW id \in Ids, Launch(id) \/ Retry(id) \/ Connecting(id)
      PROVE  Orderly'
  BY <1>5, LaunchOrderly, RetryOrderly, ConnectingOrderly
<1>6. QED
  BY <1>1, <1>2, <1>3, <1>4, <1>5 DEF Next

(* The inductive invariant holds in every state the receiver reaches.          *)
THEOREM Invariant == Spec => []IInv
BY InitInvariant, StepInvariant, PTL DEF Spec

(* Requests, participants, goroutines and peer connections keep their shape,   *)
(* and only participants of this partition are found (discovery.go,            *)
(* connection.go, handlers.go).                                                *)
THEOREM Typing == Spec => []TypeOK
<1>1. IInv => TypeOK
  BY DEF IInv, ServerTypes, ClientTypes, MainTypes, TypeOK
<1>2. QED
  BY <1>1, Invariant, PTL

(* No peer connection of the client is left behind, whichever of its requests  *)
(* time out or are refused, however many participants there are and however    *)
(* often each is tried (Connect and CloseConnections of connection.go).        *)
THEOREM NoConnectionLeaks == Spec => []NothingLeaks
<1>1. IInv => NothingLeaks
  BY DEF IInv
<1>2. QED
  BY <1>1, Invariant, PTL

(* A connection the client counts is the one the server's participant took the *)
(* answer of, unless a request given up was served meanwhile: neither the probes,*)
(* nor an earlier wave or try, nor another goroutine replaces the participant    *)
(* (NeedsRecreation and SetRemoteAnswer of participant.go against Connect).     *)
THEOREM ConnectionsAnswered == Spec => []ReturnedIsAnswered
<1>1. Init => IInv /\ Orderly
  BY InitInvariant, InitOrderly
<1>2. IInv /\ Orderly /\ [Next]_vars => IInv' /\ Orderly'
  BY StepInvariant, StepOrderly
<1>3. IInv /\ Orderly => ReturnedIsAnswered
  <2> SUFFICES ASSUME IInv, Orderly, NEW a \in connections, a[2] \notin spoiled[a[1]]
               PROVE  member[a[1]] = peer[a].offer /\ Linked(<<a[1], peer[a].offer>>, a)
    BY DEF ReturnedIsAnswered
  <2>1. a[1] \in Ids /\ Now(a[1]) = a /\ worker[a[1]].k = a[2]
    BY AttemptParts DEF IInv, ClientTypes, Orderly, Waves, Now
  <2>2. LinkedPhase(a[1])
    BY <2>1 DEF Orderly, Phases
  <2>3. QED
    BY <2>1, <2>2 DEF LinkedPhase, Answered
<1>4. QED
  BY <1>1, <1>2, <1>3, PTL DEF Spec
-----------------------------------------------------------------------------
(* A participant nobody connected to has had trouble in all its attempts: each *)
(* goroutine is followed from its first attempt to its last.                   *)

Connected(id) == \E a \in connections : a[1] = id
Tried(id, n) == \A j \in 1..n : Troubled(id, j)

Course(id) ==
  /\ worker[id].step = "idle" => id \in remaining
  /\ id \in remaining => Tried(id, wave - 1)
  /\ worker[id].step \notin {"idle", "done"} =>
       Tried(id, worker[id].k - 1) /\ (Batch => worker[id].k = wave)
  /\ worker[id].step = "failed" => Troubled(id, worker[id].k)
  /\ id \in failed => Batch /\ Tried(id, wave)
  /\ worker[id].step = "done" =>
       Connected(id) \/ id \in failed \union remaining \/ (~Batch /\ Tried(id, setup.retries))

Courses ==
  main \in {"connect", "stats", "fatal"} /\ test = "live" =>
    /\ wave >= 1 /\ (~Batch => wave = 1)
    /\ \A id \in found : Course(id)
    /\ main # "connect" => remaining = {} /\ Running = {} /\ (Batch => wave = 2 \/ failed = {})

(* Trouble is not forgotten.                                                   *)
LEMMA TroubleStays ==
  ASSUME NEW id, NEW j, Troubled(id, j), faults \subseteq faults', spoiled[id] \subseteq spoiled'[id]
  PROVE  Troubled(id, j)'
BY DEF Troubled

LEMMA TriedStays ==
  ASSUME NEW id, faults \subseteq faults', spoiled[id] \subseteq spoiled'[id],
         NEW n, Tried(id, n), NEW m, m = n
  PROVE  Tried(id, m)'
BY TroubleStays DEF Tried

(* What concerns another participant does not concern this one.                  *)
LEMMA CourseStays ==
  ASSUME NEW id, Course(id), worker'[id] = worker[id], connections \subseteq connections',
         faults \subseteq faults', spoiled[id] \subseteq spoiled'[id], UNCHANGED <<setup, wave>>,
         id \in remaining' <=> id \in remaining, id \in failed' <=> id \in failed
  PROVE  Course(id)'
<1>1. \A n : Tried(id, n) => Tried(id, n)'
  BY TroubleStays DEF Tried
<1>2. \A n : Troubled(id, n) => Troubled(id, n)'
  BY TroubleStays
<1>3. Connected(id) => Connected(id)'
  BY DEF Connected
<1>4. Tried(id, wave - 1) => Tried(id, wave - 1)'
  BY <1>1 DEF Tried, Troubled
<1>5. Tried(id, wave) => Tried(id, wave)'
  BY <1>1 DEF Tried, Troubled
<1>6. Tried(id, worker[id].k - 1) => Tried(id, worker[id].k - 1)'
  BY <1>1 DEF Tried, Troubled
<1>7. Tried(id, setup.retries) => Tried(id, setup.retries)'
  BY <1>1 DEF Tried, Troubled
<1>8. Troubled(id, worker[id].k) => Troubled(id, worker[id].k)'
  BY <1>2 DEF Troubled
<1>9. QED
  BY <1>3, <1>4, <1>5, <1>6, <1>7, <1>8 DEF Course, Batch

(* An attempt of a participant of a live test that fails has had trouble: the    *)
(* server refuses neither the offer nor the answer of an attempt nobody came    *)
(* between.                                                                    *)
LEMMA FailureIsTrouble ==
  ASSUME IInv, Orderly, NEW id \in Ids, ConnectStep(id) \/ ConnectFault(id),
         worker'[id].step = "failed", test = "live", id \in mine
  PROVE  \A k : k = worker[id].k => Troubled(id, k)'
<1>1. CASE ConnectFault(id)
  <2>1. \E kind : <<id, worker[id].k, kind>> \in faults'
    BY <1>1 DEF ConnectFault, OfferTimesOut, DescribeFails, AnswerTimesOut, Fault
  <2>2. QED
    BY <2>1 DEF Troubled
<1>2. CASE ConnectStep(id)
  <2>1. Now(id) \in Attempts /\ spoiled' = spoiled
    BY <1>2, NowIsAttempt DEF IInv, ConnectStep, OfferComes, Describe, AnswerRefused, AnswerTaken,
      ConnectReturns, Record, serverVars
  <2>2. \/ worker[id].step = "get" /\ sdp[Now(id)].step = "error"
        \/ worker[id].step = "post" /\ answer[Now(id)].step = "error"
    <3>1. OwnStep(id) /\ (Describes(id) \/ Posts(id) \/ Fails(id) \/ Takes(id) \/ Finishes(id))
      BY ConnectingIs DEF IInv
    <3>2. \A step \in {"describe", "post", "ice", "record", "done"} : ~Go(id, step)
      <4>1. ASSUME NEW step \in {"describe", "post", "ice", "record", "done"}, Go(id, step)
            PROVE  FALSE
        <5>1. step \in WorkerSteps
          BY DEF WorkerSteps
        <5>2. worker'[id] = [step |-> step, k |-> worker[id].k]
          BY <4>1, <5>1, GoType DEF IInv
        <5>3. QED
          BY <5>2
      <4>2. QED
        BY <4>1
    <3>3. QED
      BY <1>2, <3>2 DEF ConnectStep, OfferComes, Describe, AnswerRefused, AnswerTaken, ConnectReturns, Record
  <2>3. worker[id].k \in spoiled[id]
    <3>1. SUFFICES ASSUME worker[id].k \notin spoiled[id] PROVE FALSE
      OBVIOUS
    <3>2. OfferPhase(id) /\ AnswerPhase(id)
      BY <3>1 DEF Orderly, Phases
    <3>3. QED
      BY <2>2, <3>2 DEF OfferPhase, AnswerPhase
  <2>4. QED
    BY <2>1, <2>3 DEF Troubled
<1>3. QED
  BY <1>1, <1>2

LEMMA ConnectingCourses ==
  ASSUME IInv, Orderly, Courses, NEW id \in Ids, Connecting(id)
  PROVE  Courses'
<1>0. /\ OwnStep(id) /\ (Describes(id) \/ Posts(id) \/ Fails(id) \/ Takes(id) \/ Finishes(id))
      /\ UNCHANGED mainVars /\ Alive /\ (ConnectStep(id) \/ ConnectFault(id))
  BY ConnectingIs DEF Connecting, IInv
<1>1. UNCHANGED <<setup, main, found, wave, remaining, failed, test, mine, spoiled>>
  BY <1>0 DEF mainVars, OwnStep
<1>2. worker[id].step \in {"get", "describe", "post", "ice", "record"}
  BY <1>0 DEF Describes, Posts, Fails, Takes, Finishes
<1>3. faults \subseteq faults' /\ connections \subseteq connections'
  BY <1>0 DEF ConnectStep, ConnectFault, OfferComes, OfferTimesOut, Describe, DescribeFails, AnswerRefused,
       AnswerTaken, AnswerTimesOut, ConnectReturns, Record, Fault
<1>4. main = "connect" \/ main = "crashed"
  <2>1. id \in Running
    BY <1>2 DEF Running
  <2>2. QED
    BY <1>0, <1>2, <2>1 DEF IInv, Calm, Searching, MainTypes, MainSteps, Alive
<1> SUFFICES ASSUME main = "connect", test = "live", NEW i \in found PROVE Course(i)'
  BY <1>1, <1>4 DEF Courses, Batch
<1>5. Course(i) /\ i \in Ids /\ i \in mine
  BY DEF Courses, IInv, MainTypes, ServerTypes
<1>6. CASE i # id
  <2>1. worker'[i] = worker[i]
    BY <1>0, <1>5, <1>6 DEF OwnStep
  <2>2. QED
    BY <1>1, <1>3, <1>5, <2>1, CourseStays
<1>7. CASE i = id
  <2>1. id \notin remaining /\ id \notin failed
    BY <1>2 DEF IInv, Calm, Orderly, Waves
  <2>2. worker'[id].k = worker[id].k /\ worker'[id].step # "idle"
    BY <1>0 DEF OwnStep
  <2>3. Tried(id, worker[id].k - 1) /\ (Batch => worker[id].k = wave)
    BY <1>2, <1>5, <1>7 DEF Course
  <2>4. Tried(id, worker[id].k - 1)'
    BY <1>1, <1>3, <2>2, <2>3, TroubleStays DEF Tried
  <2>5. worker'[id].step = "failed" => Troubled(id, worker[id].k)'
    <3>1. SUFFICES ASSUME worker'[id].step = "failed" PROVE Troubled(id, worker[id].k)'
      OBVIOUS
    <3>2. \A k : k = worker[id].k => Troubled(id, k)'
      BY <1>0, <1>5, <1>7, <3>1, FailureIsTrouble
    <3>3. QED
      BY <2>2, <3>2 DEF Troubled
  <2>6. worker'[id].step = "done" => Connected(id)'
    <3>1. SUFFICES ASSUME worker'[id].step = "done" PROVE Connected(id)'
      OBVIOUS
    <3>2. Now(id) \in connections' /\ Now(id)[1] = id
      BY <1>0, <3>1 DEF Describes, Posts, Fails, Takes, Finishes, Now
    <3>3. QED
      BY <3>2 DEF Connected
  <2>7. QED
    BY <1>1, <1>7, <2>1, <2>2, <2>3, <2>4, <2>5, <2>6 DEF Course, Batch
<1>8. QED
  BY <1>6, <1>7

(* A spoiled attempt stays one.                                                  *)
LEMMA ServeSpoils ==
  ASSUME IInv, Orderly, NEW a \in Attempts, Serve(a), NEW id \in Ids
  PROVE  spoiled[id] \subseteq spoiled'[id]
<1>1. ServeSdp(a) \/ ServeAnswer(a)
  BY DEF Serve
<1>2. Elsewhere(a) /\ Remembers(a)
  BY <1>1, SdpServedIs, AnswerServedIs DEF IInv, Orderly
<1>3. QED
  BY <1>2 DEF Elsewhere, Remembers

LEMMA ServeCourses ==
  ASSUME IInv, Orderly, Courses, NEW a \in Attempts, Serve(a) \/ Peering(a)
  PROVE  Courses'
<1>1. UNCHANGED <<worker, connections, faults, mainVars, test>>
  BY DEF Serve, Peering, PeerEvent, TrackArrives, ReaderEnds, ServeSdp, ServeAnswer, SdpLookup, SdpClose,
         SdpRemove, SdpCreate, SdpOffer, AnswerLookup, SetRemoteAnswer, clientVars, serverVars
<1>2. ASSUME NEW id \in Ids PROVE spoiled[id] \subseteq spoiled'[id]
  <2>1. CASE Serve(a)
    BY <2>1, ServeSpoils
  <2>2. CASE Peering(a)
    BY <2>2 DEF Peering, PeerEvent, TrackArrives, ReaderEnds, serverVars
  <2>3. QED
    BY <2>1, <2>2
<1>3. UNCHANGED <<setup, main, found, wave, remaining, failed>>
  BY <1>1 DEF mainVars
<1>4. found \subseteq Ids /\ Running' = Running /\ Batch' = Batch
  BY <1>1, <1>3 DEF IInv, MainTypes, ServerTypes, Running, Batch
<1> SUFFICES ASSUME main \in {"connect", "stats", "fatal"}, test = "live", NEW id \in found
             PROVE  Course(id)'
  BY <1>1, <1>3, <1>4 DEF Courses
<1>5. Course(id) /\ spoiled[id] \subseteq spoiled'[id]
  BY <1>2, <1>4 DEF Courses
<1>6. QED
  BY <1>1, <1>3, <1>5, CourseStays

(* The first attempt, or the only one of a second wave.                          *)
LEMMA LaunchCourses ==
  ASSUME IInv, Orderly, Courses, NEW id \in Ids, Launch(id)
  PROVE  Courses'
<1>1. /\ main = "connect" /\ id \in remaining /\ remaining' = remaining \ {id}
      /\ UNCHANGED <<test, spoiled, connections, faults, setup, main, found, wave, failed>>
  BY DEF Launch
<1>2. \/ worker'[id] = [step |-> "get", k |-> wave] /\ (Batch \/ setup.retries > 0)
      \/ worker'[id].step = "done" /\ ~Batch /\ ~(setup.retries > 0)
  <2>1. CASE Begin(id, wave) /\ (Batch \/ setup.retries > 0)
    BY <2>1 DEF Begin, IInv, ClientTypes
  <2>2. CASE worker' = [worker EXCEPT ![id].step = "done"] /\ ~Batch /\ ~(setup.retries > 0)
    BY <2>2 DEF IInv, ClientTypes
  <2>3. QED
    BY <2>1, <2>2 DEF Launch
<1>3. \A i \in Ids \ {id} : worker'[i] = worker[i]
  BY DEF Launch, Begin, IInv, ClientTypes
<1>4. found \subseteq Ids /\ remaining \subseteq found /\ failed \subseteq found /\ setup.retries \in 0..Tries
  BY ReceiverAssumption DEF IInv, MainTypes, ServerTypes, Calm
<1> SUFFICES ASSUME test = "live", NEW i \in found PROVE Course(i)'
  BY <1>1 DEF Courses, Batch
<1>5. Course(i)
  BY <1>1 DEF Courses
<1>6. CASE i # id
  BY <1>1, <1>3, <1>4, <1>5, <1>6, CourseStays
<1>7. CASE i = id
  <2>1. Tried(id, wave - 1) /\ id \notin failed
    BY <1>1, <1>5, <1>7 DEF Course, Orderly, Waves
  <2>2. Tried(id, wave - 1)'
    BY <1>1, <2>1 DEF Tried, Troubled
  <2>3. CASE worker'[id] = [step |-> "get", k |-> wave]
    <3>1. worker'[id].step = "get" /\ worker'[id].k = wave
      BY <2>3
    <3>2. Tried(id, worker[id].k - 1)'
      BY <1>1, <2>2, <3>1 DEF Tried
    <3>3. id \notin remaining' /\ id \notin failed'
      BY <1>1, <2>1
    <3>4. QED
      BY <1>1, <1>7, <3>1, <3>2, <3>3 DEF Course
  <2>4. CASE worker'[id].step = "done" /\ ~Batch /\ ~(setup.retries > 0)
    <3>1. 1..setup.retries = {}
      BY <1>4, <2>4, TriesAssumption
    <3>2. Tried(id, setup.retries)'
      BY <1>1, <3>1 DEF Tried
    <3>3. id \notin remaining' /\ id \notin failed' /\ ~Batch'
      BY <1>1, <2>1, <2>4 DEF Batch
    <3>4. QED
      BY <1>7, <2>4, <3>2, <3>3 DEF Course
  <2>5. QED
    BY <1>2, <2>3, <2>4
<1>8. QED
  BY <1>6, <1>7

(* After an attempt that had trouble the next, or the end of the retries.        *)
LEMMA RetryCourses ==
  ASSUME IInv, Orderly, Courses, NEW id \in Ids, Retry(id)
  PROVE  Courses'
<1>1. /\ main = "connect" /\ worker[id].step = "failed"
      /\ failed' = IF Batch THEN failed \union {id} ELSE failed
      /\ UNCHANGED <<test, spoiled, connections, faults, setup, main, found, wave, remaining>>
  BY DEF Retry
<1>2. PICK k \in 1..Tries : k = worker[id].k
  BY <1>1 DEF Orderly, Settled
<1>3. \/ worker'[id] = [step |-> "get", k |-> k + 1] /\ ~Batch
      \/ worker'[id] = [step |-> "done", k |-> k] /\ (Batch \/ ~(k < setup.retries))
  <2>1. CASE Begin(id, k + 1) /\ ~Batch
    BY <2>1 DEF Begin, IInv, ClientTypes
  <2>2. CASE Go(id, "done") /\ (Batch \/ ~(k < setup.retries))
    BY <1>2, <2>2, GoType DEF IInv, WorkerSteps
  <2>3. QED
    BY <1>2, <2>1, <2>2 DEF Retry
<1>4. \A i \in Ids \ {id} : worker'[i] = worker[i]
  BY DEF Retry, Begin, Go, IInv, ClientTypes
<1>5. /\ found \subseteq Ids /\ remaining \subseteq found /\ failed \subseteq found /\ setup.retries \in 0..Tries
      /\ id \in found /\ id \notin remaining
  BY <1>1, ReceiverAssumption DEF IInv, MainTypes, ServerTypes, Calm
<1> SUFFICES ASSUME test = "live", NEW i \in found PROVE Course(i)'
  BY <1>1 DEF Courses, Batch
<1>6. Course(i)
  BY <1>1 DEF Courses
<1>7. CASE i # id
  BY <1>1, <1>4, <1>5, <1>6, <1>7, CourseStays
<1>8. CASE i = id
  <2>1. Tried(id, k - 1) /\ Troubled(id, k) /\ (Batch => k = wave)
    BY <1>1, <1>2, <1>6, <1>8 DEF Course
  <2>2. Tried(id, k)
    <3>1. \A j \in 1..k : j = k \/ j \in 1..(k - 1)
      BY <1>2
    <3>2. QED
      BY <2>1, <3>1 DEF Tried
  <2>3. \A n \in 0..k : Tried(id, n)'
    <3>1. \A n \in 0..k : 1..n \subseteq 1..k
      BY <1>2
    <3>2. QED
      BY <1>1, <2>2, <3>1 DEF Tried, Troubled
  <2>4. id \in failed' <=> Batch \/ id \in failed
    BY <1>1
  <2>5. id \in failed => Batch
    BY <1>6, <1>8 DEF Course
  <2>6. CASE worker'[id] = [step |-> "get", k |-> k + 1] /\ ~Batch
    <3>1. worker'[id].step = "get" /\ worker'[id].k = k + 1 /\ worker'[id].k - 1 = k /\ k \in 0..k
      BY <1>2, <2>6
    <3>2. Tried(id, worker[id].k - 1)'
      BY <2>3, <3>1 DEF Tried
    <3>3. QED
      BY <1>1, <1>5, <1>8, <2>4, <2>5, <2>6, <3>1, <3>2 DEF Course, Batch
  <2>7. CASE worker'[id] = [step |-> "done", k |-> k] /\ (Batch \/ ~(k < setup.retries))
    <3>1. worker'[id].step = "done"
      BY <2>7
    <3>2. CASE Batch
      <4>1. wave = k /\ k \in 0..k
        BY <1>2, <2>1, <3>2
      <4>2. Tried(id, wave)'
        BY <1>1, <2>3, <4>1 DEF Tried
      <4>3. QED
        BY <1>1, <1>5, <1>8, <2>4, <3>1, <3>2, <4>2 DEF Course, Batch
    <3>3. CASE ~Batch
      <4>1. setup.retries \in 0..k
        BY <1>2, <1>5, <2>7, <3>3, TriesAssumption
      <4>2. Tried(id, setup.retries)'
        BY <1>1, <2>3, <4>1 DEF Tried
      <4>3. QED
        BY <1>1, <1>5, <1>8, <2>4, <2>5, <3>1, <3>3, <4>2 DEF Course, Batch
    <3>4. QED
      BY <3>2, <3>3
  <2>8. QED
    BY <1>3, <2>6, <2>7
<1>9. QED
  BY <1>7, <1>8

LEMMA WaveEndsCourses ==
  ASSUME IInv, Orderly, Courses, WaveEnds
  PROVE  Courses'
<1>1. /\ main = "connect" /\ remaining = {} /\ Running = {}
      /\ UNCHANGED <<serverVars, clientVars, setup, found>>
      /\ \/ /\ Batch /\ wave < 2 /\ wave' = wave + 1 /\ remaining' = failed /\ failed' = {} /\ main' = main
         \/ /\ ~(Batch /\ wave < 2 /\ failed # {}) /\ main' \in {"fatal", "stats"}
            /\ UNCHANGED <<wave, remaining, failed>>
  BY DEF WaveEnds
<1>2. /\ UNCHANGED <<test, spoiled, worker, connections, faults>> /\ Running' = Running /\ Batch' = Batch
      /\ wave \in 0..2
  BY <1>1 DEF serverVars, clientVars, Running, Batch, IInv, MainTypes
<1> SUFFICES ASSUME test = "live" PROVE Courses'
  BY <1>2 DEF Courses
<1>3. wave >= 1 /\ (~Batch => wave = 1) /\ \A id \in found : Course(id)
  BY <1>1 DEF Courses
<1>4. CASE /\ Batch /\ wave < 2 /\ wave' = wave + 1 /\ remaining' = failed /\ failed' = {} /\ main' = main
  <2>1. ASSUME NEW id \in found
        PROVE  Course(id)'
    <3>1. Course(id) /\ id \in Ids
      BY <1>3 DEF IInv, MainTypes, ServerTypes
    <3>2. worker[id].step = "done"
      BY <1>1, <3>1 DEF Course, Running
    <3>3. wave' - 1 = wave
      BY <1>2, <1>4
    <3>4. id \in failed => Tried(id, wave - 1)'
      BY <1>2, <3>1, <3>3 DEF Course, Tried, Troubled
    <3>5. Connected(id) \/ id \in failed
      BY <1>1, <1>4, <3>1, <3>2 DEF Course
    <3>6. Connected(id) => Connected(id)'
      BY <1>2 DEF Connected
    <3>7. QED
      BY <1>2, <1>4, <3>2, <3>4, <3>5, <3>6 DEF Course
  <2>2. wave' >= 1
    BY <1>2, <1>4
  <2>3. QED
    BY <1>1, <1>2, <1>4, <2>1, <2>2 DEF Courses
<1>5. CASE /\ ~(Batch /\ wave < 2 /\ failed # {}) /\ UNCHANGED <<wave, remaining, failed>>
           /\ main' \in {"fatal", "stats"}
  <2>1. \A id \in found : Course(id)'
    BY <1>1, <1>2, <1>3, <1>5, CourseStays
  <2>2. Batch => wave = 2 \/ failed = {}
    BY <1>2, <1>5
  <2>3. QED
    BY <1>1, <1>2, <1>3, <1>5, <2>1, <2>2 DEF Courses
<1>6. QED
  BY <1>1, <1>4, <1>5

(* The search ends with nobody tried.                                            *)
LEMMA StartConnectingCourses ==
  ASSUME IInv, Orderly, Searching, NEW ids, ids \subseteq Ids, StartConnecting(ids),
         UNCHANGED <<worker, setup, failed, test>>
  PROVE  Courses'
<1>1. failed = {} /\ \A id \in Ids : worker[id].step = "idle"
  BY DEF IInv, Calm
<1>2. /\ found' = ids /\ remaining' = ids /\ wave' = 1 /\ main' \in {"connect", "fatal"}
      /\ main' = "fatal" => ids = {}
  BY DEF StartConnecting
<1>3. \A n : n = 1 => 1..(n - 1) = {}
  OBVIOUS
<1>4. \A id \in ids : Course(id)'
  <2> SUFFICES ASSUME NEW id \in ids PROVE Course(id)'
    OBVIOUS
  <2>1. Tried(id, wave - 1)'
    BY <1>2, <1>3 DEF Tried
  <2>2. worker'[id].step = "idle" /\ id \notin failed'
    BY <1>1
  <2>3. QED
    BY <1>2, <2>1, <2>2 DEF Course
<1>5. Running' = {}
  BY <1>1 DEF Running
<1>6. QED
  BY <1>1, <1>2, <1>4, <1>5 DEF Courses

LEMMA StepCourses == IInv /\ Orderly /\ Courses /\ [Next]_vars => Courses'
<1> SUFFICES ASSUME IInv, Orderly, Courses, [Next]_vars PROVE Courses'
  OBVIOUS
<1>1. CASE UNCHANGED vars
  BY <1>1 DEF Courses, Course, Tried, Troubled, Connected, Running, Batch, vars, serverVars, clientVars, mainVars
<1>2. ASSUME NEW a \in Attempts, Serve(a) \/ Peering(a)
      PROVE  Courses'
  BY <1>2, ServeCourses
<1>3. CASE MainStep
  <2>1. CASE FindByMetrics
    <3>1. PICK ids \in kSubset(Wanted(SampleSize(Cardinality(mine))), mine) : StartConnecting(ids)
      BY <2>1 DEF FindByMetrics
    <3>2. ids \subseteq Ids
      BY <3>1 DEF kSubset, IInv, ServerTypes
    <3>3. QED
      BY <2>1, <3>1, <3>2, StartConnectingCourses DEF FindByMetrics, Searching, serverVars, clientVars
  <2>2. CASE ProbesEnd
    <3>1. found \subseteq Ids
      BY DEF IInv, MainTypes, ServerTypes
    <3>2. QED
      BY <2>2, <3>1, StartConnectingCourses DEF ProbesEnd, Searching, serverVars, clientVars
  <2>3. CASE MetricsFail \/ AskPartitions \/ Probe \/ ProbeAnswered
    <3>1. main' \notin {"connect", "stats", "fatal"}
      BY <2>3 DEF MetricsFail, AskPartitions, Probe, ProbeAnswered
    <3>2. QED
      BY <3>1 DEF Courses
  <2>4. CASE WaveEnds
    BY <2>4, WaveEndsCourses
  <2>5. QED
    BY <1>3, <2>1, <2>2, <2>3, <2>4 DEF MainStep
<1>4. CASE ProbeTimesOut \/ Interrupt \/ MapRace
  <2>1. main' \notin {"connect", "stats", "fatal"}
    BY <1>4 DEF ProbeTimesOut, Interrupt, MapRace
  <2>2. QED
    BY <2>1 DEF Courses
<1>5. ASSUME NEW id \in Ids, Launch(id) \/ Retry(id) \/ Connecting(id)
      PROVE  Courses'
  BY <1>5, LaunchCourses, RetryCourses, ConnectingCourses
<1>6. QED
  BY <1>1, <1>2, <1>3, <1>4, <1>5 DEF Next

(* Who was found in a live test and is not connected when the receiver is        *)
(* through had trouble in every attempt the receiver makes: two waves on         *)
(* Kubernetes, MaxRetries in the local mode (ConnectBatch, ConnectWithRetry).    *)
THEOREM EveryAttemptTroubled == Spec => []RetryHeals
<1>1. Init => IInv /\ Orderly /\ Courses
  <2>1. Init => Courses
    BY DEF Init, Courses
  <2>2. QED
    BY <2>1, InitInvariant, InitOrderly
<1>2. IInv /\ Orderly /\ Courses /\ [Next]_vars => IInv' /\ Orderly' /\ Courses'
  BY StepInvariant, StepOrderly, StepCourses
<1>3. IInv /\ Courses => RetryHeals
  <2> SUFFICES ASSUME IInv, Courses, main \in {"stats", "fatal"}, test = "live", NEW id \in found
               PROVE  \/ \E a \in connections : a[1] = id
                      \/ \A k \in 1..(IF Batch THEN 2 ELSE setup.retries) : Troubled(id, k)
    BY DEF RetryHeals
  <2>1. Course(id) /\ remaining = {} /\ Running = {} /\ (Batch => wave = 2 \/ failed = {})
    BY DEF Courses
  <2>2. worker[id].step = "done"
    BY <2>1 DEF Course, Running, IInv, MainTypes, ServerTypes
  <2>3. Connected(id) \/ id \in failed \/ (~Batch /\ Tried(id, setup.retries))
    BY <2>1, <2>2 DEF Course
  <2>4. id \in failed => Batch /\ Tried(id, 2)
    BY <2>1 DEF Course
  <2>5. QED
    BY <2>3, <2>4 DEF Connected, Tried
<1>4. QED
  BY <1>1, <1>2, <1>3, PTL DEF Spec

-----------------------------------------------------------------------------
(* The ids a probe goes through reach far enough: a partition has one of every *)
(* so many consecutive ids.                                                    *)

LEMMA Quotient ==
  ASSUME NEW n \in Nat, NEW m \in Nat \ {0}
  PROVE  n \div m \in Nat /\ m * (n \div m) <= n /\ n < m * (n \div m) + m
OBVIOUS

LEMMA RemainderIs ==
  ASSUME NEW m \in Nat \ {0}, NEW q \in Int, NEW r \in 0..(m - 1)
  PROVE  (m * q + r) % m = r
OBVIOUS

LEMMA Larger ==
  ASSUME NEW a \in Nat, NEW b \in Nat, NEW c \in Nat, b <= c
  PROVE  a * b <= a * c
OBVIOUS

(* The metrics list no more participants than there are, and at most twice      *)
(* MaxSampled.                                                                  *)
LEMMA Sampled ==
  ASSUME NEW n \in Nat
  PROVE  SampleSize(n) \in Nat /\ SampleSize(n) <= n /\ SampleSize(n) <= 2 * MaxSampled
<1> PICK M \in Nat \ {0} : M = MaxSampled
  BY SearchAssumption
<1>1. CASE n <= M
  BY <1>1 DEF SampleSize, SampleRate
<1>2. CASE n > M
  <2> PICK q \in Int : q = n \div M
    OBVIOUS
  <2>1. q \in Nat /\ M * q <= n /\ n < M * q + M
    BY Quotient
  <2>2. q >= 1
    BY <1>2, <2>1
  <2> PICK z \in Int : z = (n + q - 1) \div q
    BY <2>1, <2>2
  <2>3. SampleSize(n) = z
    BY <1>2 DEF SampleSize, SampleRate
  <2>4. z \in Nat /\ q * z <= n + q - 1
    BY <2>1, <2>2, Quotient, n + q - 1 \in Nat
  <2>5. z <= n
    <3> SUFFICES ASSUME z >= n + 1 PROVE FALSE
      BY <2>4
    <3>1. q * (n + 1) <= q * z
      BY <2>1, <2>4, Larger
    <3>2. q * (n + 1) = q * n + q /\ 1 * n <= q * n
      BY <2>1, <2>2
    <3>3. QED
      BY <2>1, <2>4, <3>1, <3>2
  <2>6. z <= 2 * M
    <3> SUFFICES ASSUME z >= 2 * M + 1 PROVE FALSE
      BY <2>4
    <3>1. q * (2 * M + 1) <= q * z
      BY <2>1, <2>4, Larger
    <3>2. M * q + M * q + q <= q * z
      <4>1. q * (2 * M + 1) = q * (2 * M) + q /\ q * (2 * M) = q * M + q * M /\ q * M = M * q
        OBVIOUS
      <4>2. QED
        BY <2>1, <3>1, <4>1
    <3>3. M <= M * q
      BY <2>1, <2>2
    <3>4. QED
      BY <2>1, <2>4, <3>2, <3>3
  <2>7. QED
    BY <2>3, <2>4, <2>5, <2>6
<1>3. QED
  BY <1>1, <1>2

LEMMA MineIs ==
  ASSUME NEW s \in Setups
  PROVE  /\ Mine(s) = {id \in FirstId..(FirstId + s.participants - 1) : id % s.partitions = s.partition}
         /\ Mine(s) \subseteq Nat /\ IsFiniteSet(Mine(s))
<1> PICK F \in Nat, P \in Nat, t \in Nat \ {0} : F = FirstId /\ P = s.participants /\ t = s.partitions
  BY ReceiverAssumption, SearchAssumption
<1> PICK r \in 0..(t - 1) : r = s.partition
  BY SearchAssumption
<1>1. ASSUME NEW id \in F..(F + P - 1), t <= 1 PROVE id % t = r
  <2>1. t = 1 /\ r = 0
    BY <1>1
  <2>2. (1 * id + 0) % 1 = 0
    BY RemainderIs
  <2>3. QED
    BY <2>1, <2>2
<1>2. Mine(s) = {id \in F..(F + P - 1) : id % t = r}
  BY <1>1 DEF Mine
<1>3. IsFiniteSet(F..(F + P - 1))
  <2>1. F \in Int /\ F + P - 1 \in Int
    OBVIOUS
  <2>2. QED
    BY ONLY <2>1, FS_Interval
<1>4. IsFiniteSet(Mine(s))
  <2>1. Mine(s) \in SUBSET (F..(F + P - 1))
    BY <1>2
  <2>2. QED
    BY <1>3, <2>1, FS_Subset
<1>5. QED
  BY <1>2, <1>4

(* The first id of a partition.                                                *)
LEMMA FirstOf ==
  ASSUME NEW F \in Nat, NEW t \in Nat \ {0}, NEW r \in 0..(t - 1)
  PROVE  \E q \in Nat : t * q + r \in F..(F + t - 1)
<1> PICK q \in Int : q = F \div t
  OBVIOUS
<1>1. q \in Nat /\ t * q <= F /\ F < t * q + t
  BY Quotient
<1> PICK p \in Nat : p = t * q
  BY <1>1
<1>2. CASE p + r >= F
  BY <1>1, <1>2
<1>3. CASE p + r < F
  <2>1. t * (q + 1) = p + t
    BY <1>1
  <2>2. t * (q + 1) + r \in F..(F + t - 1)
    BY <1>1, <1>3, <2>1
  <2>3. q + 1 \in Nat
    BY <1>1
  <2>4. QED
    BY <2>2, <2>3
<1>4. QED
  BY <1>2, <1>3

(* So many ids have so many of a partition.                                    *)
LEMMA Spread ==
  ASSUME NEW F \in Nat, NEW t \in Nat \ {0}, NEW r \in 0..(t - 1), NEW n \in Nat, NEW L \in Nat, t * n <= L
  PROVE  /\ IsFiniteSet({id \in F..(F + L - 1) : id % t = r})
         /\ Cardinality({id \in F..(F + L - 1) : id % t = r}) >= n
<1> DEFINE S == {id \in F..(F + L - 1) : id % t = r}
<1>1. IsFiniteSet(S)
  <2>1. IsFiniteSet(F..(F + L - 1)) /\ S \in SUBSET (F..(F + L - 1))
    BY FS_Interval
  <2>2. QED
    BY <2>1, FS_Subset
<1>2. PICK q \in Nat : t * q + r \in F..(F + t - 1)
  BY FirstOf
<1> DEFINE f == [i \in 0..(n - 1) |-> t * (q + i) + r]
<1>3. ASSUME NEW i \in 0..(n - 1) PROVE t * (q + i) + r \in S
  <2>1. (t * (q + i) + r) % t = r
    BY RemainderIs
  <2>2. t * (q + i) = t * q + t * i /\ t * i >= 0
    OBVIOUS
  <2>3. t * (i + 1) <= t * n
    BY Larger
  <2>4. t * (i + 1) = t * i + t
    OBVIOUS
  <2>5. t * (q + i) + r \in F..(F + L - 1)
    <3> PICK x \in Int, y \in Int, z \in Int : x = t * q /\ y = t * i /\ z = t * n
      OBVIOUS
    <3>1. x + r >= F /\ x + r <= F + t - 1 /\ y + t <= z /\ z <= L /\ y >= 0 /\ t * (q + i) = x + y
      BY <1>2, <2>2, <2>3, <2>4
    <3>2. x + y + r >= F /\ x + y + r <= F + L - 1 /\ x + y + r \in Int
      BY <3>1
    <3>3. QED
      BY <3>1, <3>2
  <2>6. QED
    BY <2>1, <2>5
<1>4. f \in [0..(n - 1) -> S]
  BY <1>3
<1>5. ASSUME NEW i \in 0..(n - 1), NEW j \in 0..(n - 1), f[i] = f[j] PROVE i = j
  <2>1. t * (q + i) + r = t * (q + j) + r
    BY <1>5
  <2>2. t * i = t * j
    BY <2>1
  <2>3. QED
    BY <2>2
<1> HIDE DEF S, f
<1>6. f \in Injection(0..(n - 1), S)
  BY <1>4, <1>5 DEF Injection, IsInjective
<1>7. Cardinality(0..(n - 1)) <= Cardinality(S)
  BY <1>1, <1>6, FS_Injection
<1>8. Cardinality(0..(n - 1)) = n
  BY FS_Interval
<1>9. QED
  BY <1>1, <1>7, <1>8 DEF S

(* The ids that are probed, and the participants among them.                   *)
Limit == IF setup.wanted <= 0 THEN SearchLimit
         ELSE setup.wanted * (IF Batch THEN setup.partitions * 2 ELSE 20)
Reached == mine \cap ProbedIds(Limit)

LEMMA LimitIs ==
  ASSUME setup \in Setups
  PROVE  Limit \in Nat
<1>1. SearchLimit \in Nat /\ setup.wanted \in Int /\ setup.partitions \in Nat
  BY SearchAssumption
<1>2. CASE setup.wanted <= 0
  BY <1>1, <1>2 DEF Limit
<1>3. CASE setup.wanted > 0
  <2> PICK w \in Nat, t \in Nat : w = setup.wanted /\ t = setup.partitions
    BY <1>1, <1>3
  <2>1. w * (t * 2) \in Nat /\ w * 20 \in Nat
    OBVIOUS
  <2>2. QED
    BY <1>1, <1>3, <2>1 DEF Limit
<1>4. QED
  BY <1>1, <1>2, <1>3

LEMMA WantedIs ==
  ASSUME setup \in Setups, NEW n \in Nat
  PROVE  /\ Wanted(n) \in Nat /\ Wanted(n) <= n
         /\ setup.wanted > 0 => Wanted(n) <= setup.wanted
BY SearchAssumption DEF Wanted

LEMMA ReachesFar ==
  ASSUME setup \in Setups, mine = Mine(setup)
  PROVE  /\ IsFiniteSet(mine) /\ IsFiniteSet(Reached)
         /\ Cardinality(Reached) >= Wanted(SampleSize(Cardinality(mine)))
<1> PICK F \in Nat, P \in Nat, t \in Nat \ {0}, w \in Int :
      F = FirstId /\ P = setup.participants /\ t = setup.partitions /\ w = setup.wanted
  BY ReceiverAssumption, SearchAssumption
<1> PICK r \in 0..(t - 1), L \in Nat : r = setup.partition /\ L = Limit
  BY SearchAssumption, LimitIs
<1>1. mine = {id \in F..(F + P - 1) : id % t = r} /\ IsFiniteSet(mine)
  BY MineIs
<1>2. IsFiniteSet(Reached)
  <2>1. Reached \in SUBSET mine
    BY DEF Reached
  <2>2. QED
    BY <1>1, <2>1, FS_Subset
<1> PICK n \in Nat : n = Cardinality(mine)
  BY <1>1, FS_CardinalityType
<1> PICK m \in Nat : m = SampleSize(n)
  BY Sampled
<1>3. m <= n /\ m <= 2 * MaxSampled
  BY Sampled
<1> PICK k \in Nat : k = Wanted(m)
  BY WantedIs
<1>4. k <= m /\ (w > 0 => k <= w)
  BY WantedIs
<1>5. CASE P <= L
  <2>1. F..(F + P - 1) \subseteq F..(F + L - 1)
    BY <1>5
  <2>2. Reached = mine
    BY <1>1, <2>1 DEF Reached, ProbedIds
  <2>3. QED
    BY <1>1, <1>2, <1>3, <1>4, <2>2
<1>6. CASE P > L
  <2>1. Reached = {id \in F..(F + L - 1) : id % t = r}
    <3>1. F..(F + L - 1) \subseteq F..(F + P - 1)
      BY <1>6
    <3>2. QED
      BY <1>1, <3>1 DEF Reached, ProbedIds
  <2>2. \E c \in Nat : t * c <= L /\ k <= c
    <3>1. CASE w > 0
      <4>1. w \in Nat /\ k <= w
        BY <1>4, <3>1
      <4>2. t * w <= L
        <5>1. CASE Batch
          <6>1. L = w * (t * 2)
            BY <3>1, <5>1 DEF Limit
          <6>2. w * (t * 2) = t * w + t * w /\ t * w >= 0
            BY <4>1
          <6>3. QED
            BY <6>1, <6>2
        <5>2. CASE ~Batch
          <6>1. L = w * 20 /\ t <= 20
            BY <3>1, <5>2, SearchAssumption DEF Limit, Batch
          <6>2. w * t <= w * 20 /\ w * t = t * w
            BY <4>1, <6>1, Larger
          <6>3. QED
            BY <6>1, <6>2
        <5>3. QED
          BY <5>1, <5>2
      <4>3. QED
        BY <4>1, <4>2
    <3>2. CASE w <= 0
      <4>1. L = SearchLimit
        BY <3>2 DEF Limit
      <4> PICK M \in Nat : M = MaxSampled
        BY SearchAssumption
      <4>2. 2 * M * t <= L
        BY <1>6, <3>2, <4>1, SearchAssumption
      <4>3. t * (2 * M) <= L
        BY <4>2
      <4>4. k <= 2 * M /\ 2 * M \in Nat
        BY <1>3, <1>4
      <4>5. QED
        BY <4>3, <4>4
    <3>3. QED
      BY <3>1, <3>2
  <2>3. PICK c \in Nat : t * c <= L /\ k <= c
    BY <2>2
  <2>4. Cardinality(Reached) >= c
    <3>1. Cardinality({id \in F..(F + L - 1) : id % t = r}) >= c
      BY ONLY <2>3, F \in Nat, t \in Nat \ {0}, r \in 0..(t - 1), c \in Nat, L \in Nat, Spread
    <3>2. QED
      BY ONLY <2>1, <3>1
  <2>5. Cardinality(Reached) \in Nat
    BY <1>2, FS_CardinalityType
  <2>6. QED
    BY <1>1, <1>2, <2>3, <2>4, <2>5
<1>7. QED
  BY <1>5, <1>6

-----------------------------------------------------------------------------
(* A probe is served by itself: nobody else asks for its participant.            *)
ProbeInOrder ==
  /\ \A id \in Ids : answer[<<id, 0>>].step = "none"
  /\ main = "probing" => probe.left # {} /\ Candidate \in mine /\ GetPhase(<<Candidate, 0>>)

LEMMA ServeProbe ==
  ASSUME IInv, Orderly, ProbeInOrder, NEW a \in Attempts, Serve(a)
  PROVE  ProbeInOrder'
<1>0. a[1] \in Ids /\ a[2] \in 0..Tries /\ a = <<a[1], a[2]>> /\ 0 \in 0..Tries
  BY AttemptParts, TriesAssumption
<1>1. Elsewhere(a) /\ UNCHANGED <<test, mine, clientVars, mainVars>>
  BY SdpServedIs, AnswerServedIs DEF Serve, IInv, Orderly
<1>2. \A id \in Ids : answer'[<<id, 0>>].step = "none"
  <2> SUFFICES ASSUME NEW id \in Ids PROVE answer'[<<id, 0>>].step = "none"
    OBVIOUS
  <2>1. <<id, 0>> \in Attempts /\ answer[<<id, 0>>].step = "none"
    BY <1>0, AttemptOf DEF ProbeInOrder
  <2>2. CASE a = <<id, 0>>
    <3>1. ~ServeAnswer(a)
      BY <2>1, <2>2 DEF ServeAnswer, AnswerLookup, SetRemoteAnswer
    <3>2. answer' = answer
      BY <3>1, SdpServedIs DEF Serve, IInv, Orderly
    <3>3. QED
      BY <2>1, <3>2
  <2>3. CASE a # <<id, 0>>
    BY <1>1, <2>1, <2>3 DEF Elsewhere
  <2>4. QED
    BY <2>2, <2>3
<1>3. ASSUME main = "probing"
      PROVE  probe.left # {} /\ Candidate \in mine /\ GetPhase(<<Candidate, 0>>)'
  <2> PICK c \in Ids : c = Candidate
    BY <1>3 DEF ProbeInOrder, IInv, ServerTypes
  <2>1. probe.left # {} /\ c \in mine /\ GetPhase(<<c, 0>>) /\ <<c, 0>> \in Attempts
    BY <1>0, <1>3, AttemptOf DEF ProbeInOrder
  <2>2. c' = c /\ Candidate' = c
    BY <1>1 DEF mainVars, Candidate
  <2>3. GetPhase(<<c, 0>>)'
    <3>1. CASE a[1] = c
      <4>1. worker[c].step = "idle" /\ worker[c].k = 0
        BY <1>3 DEF IInv, Calm, Searching, Orderly, Waves
      <4>2. sdp[a].step # "none"
        BY DEF Serve, ServeSdp, SdpLookup, SdpClose, SdpRemove, SdpCreate, SdpOffer,
               ServeAnswer, AnswerLookup, SetRemoteAnswer, Orderly, Traced
      <4>3. a = <<c, 0>>
        <5>1. ~ (a[2] \in 1..Tries /\ a[2] > 0)
          BY <1>0, <3>1, <4>1, <4>2 DEF Orderly, Untried
        <5>2. QED
          BY <1>0, <3>1, <5>1, TriesAssumption
      <4>4. ServeSdp(a)
        BY <4>3 DEF Serve, ServeAnswer, AnswerLookup, SetRemoteAnswer, ProbeInOrder
      <4>5. a[2] = Latest(a[1])
        <5> PICK n \in 0..Tries : n = Latest(c)
          BY <1>0, <3>1, <4>2, LatestMade
        <5>1. sdp[<<c, n>>].step # "none"
          BY <1>0, <3>1, <4>2, LatestMade
        <5>2. ~ (n \in 1..Tries /\ n > 0)
          BY <4>1, <5>1 DEF Orderly, Untried
        <5>3. n = 0
          BY <5>2, TriesAssumption
        <5>4. QED
          BY <3>1, <4>3, <5>3
      <4>6. QED
        BY <2>1, <4>3, <4>4, <4>5, GetServed
    <3>2. CASE a[1] # c
      <4>1. /\ member'[c] = member[c] /\ sdp'[<<c, 0>>] = sdp[<<c, 0>>]
            /\ \A j \in 0..Tries : object'[<<c, j>>] = object[<<c, j>>]
            /\ spoiled'[c] = spoiled[c]
        BY <1>1, <2>1, <3>2 DEF Elsewhere
      <4>2. \A o : Open(c, o) => Open(c, o)' /\ (Offered(c, o) => Offered(c, o)')
        BY <4>1 DEF Open, Offered
      <4>3. QED
        BY <1>1, <2>1, <4>1, <4>2 DEF GetPhase
    <3>3. QED
      BY <3>1, <3>2
  <2>4. QED
    BY <2>1, <2>2, <2>3
<1>4. QED
  BY <1>1, <1>2, <1>3 DEF ProbeInOrder, mainVars, Candidate

LEMMA ProbeOrder ==
  ASSUME IInv, Orderly, ProbeInOrder, [Next]_vars
  PROVE  ProbeInOrder'
<1>1. CASE \E a \in Attempts : Serve(a)
  BY <1>1, ServeProbe
<1>2. CASE \/ UNCHANGED vars \/ FindByMetrics \/ MetricsFail \/ AskPartitions \/ ProbesEnd \/ WaveEnds
           \/ ProbeAnswered \/ MapRace \/ Interrupt \/ \E a \in Attempts : Peering(a)
  <2>1. answer' = answer
    BY <1>2 DEF vars, serverVars, FindByMetrics, MetricsFail, AskPartitions, ProbesEnd, WaveEnds,
                ProbeAnswered, MapRace, Interrupt, Peering, PeerEvent, TrackArrives, ReaderEnds
  <2>2. main' # "probing" \/ UNCHANGED <<serverVars, mainVars>>
    BY <1>2 DEF vars, FindByMetrics, MetricsFail, AskPartitions, ProbesEnd, WaveEnds, StartConnecting,
                ProbeAnswered, MapRace, Interrupt, Peering, PeerEvent, TrackArrives, ReaderEnds
  <2>3. QED
    BY <2>1, <2>2 DEF ProbeInOrder, serverVars, mainVars, Candidate, GetPhase, Open, Offered
<1>3. CASE ProbeTimesOut \/ \E id \in Ids : Launch(id) \/ Retry(id)
  BY <1>3 DEF ProbeTimesOut, Launch, Retry, ProbeInOrder
<1>4. CASE Probe
  <2>1. answer' = answer
    BY <1>4 DEF Probe
  <2>2. CASE Candidate \in mine
    <3> PICK c \in Ids : c = Candidate
      BY <2>2 DEF IInv, ServerTypes
    <3>1. /\ probe' = probe /\ probe.left # {} /\ mine' = mine
          /\ sdp' = [sdp EXCEPT ![<<c, 0>>] = Request("sent", None)]
      BY <1>4, <2>2 DEF Probe
    <3>2. <<c, 0>> \in Attempts
      BY AttemptOf, TriesAssumption
    <3>3. sdp'[<<c, 0>>].step = "sent"
      BY <3>1, <3>2 DEF IInv, ServerTypes, Request
    <3>4. Candidate' = c
      BY <3>1 DEF Candidate
    <3>5. QED
      BY <2>1, <2>2, <3>1, <3>3, <3>4 DEF ProbeInOrder, GetPhase
  <2>3. CASE Candidate \notin mine
    <3>1. main' = "probe"
      BY <1>4, <2>3 DEF Probe
    <3>2. QED
      BY <2>1, <3>1 DEF ProbeInOrder
  <2>4. QED
    BY <2>2, <2>3
<1>5. CASE \E id \in Ids : Connecting(id)
  <2> PICK id \in Ids : Connecting(id)
    BY <1>5
  <2>1. worker[id].step # "idle" /\ main' = main
    BY DEF Connecting, ConnectStep, ConnectFault, OfferComes, Describe, AnswerRefused, AnswerTaken,
           ConnectReturns, Record, OfferTimesOut, DescribeFails, AnswerTimesOut, mainVars
  <2>2. main # "probing"
    BY <2>1 DEF IInv, Calm, Searching
  <2>3. ASSUME NEW i \in Ids PROVE answer'[<<i, 0>>].step = "none"
    <3>1. <<i, 0>> \in Attempts /\ answer[<<i, 0>>].step = "none"
      BY AttemptOf, TriesAssumption DEF ProbeInOrder
    <3>2. CASE Describe(id)
      <4>1. worker[id].k \in 1..Tries
        BY <3>2 DEF Describe, Orderly, Settled
      <4>2. Now(id) # <<i, 0>>
        BY <4>1 DEF Now
      <4>3. QED
        BY <3>1, <3>2, <4>2 DEF Describe, IInv, ServerTypes
    <3>3. CASE AnswerTimesOut(id)
      BY <3>1, <3>3 DEF AnswerTimesOut, IInv, ServerTypes
    <3>4. CASE ~Describe(id) /\ ~AnswerTimesOut(id)
      <4>1. answer' = answer
        BY <3>4 DEF Connecting, ConnectStep, ConnectFault, OfferComes, AnswerRefused, AnswerTaken,
                    ConnectReturns, Record, OfferTimesOut, DescribeFails, serverVars
      <4>2. QED
        BY <3>1, <4>1
    <3>5. QED
      BY <3>2, <3>3, <3>4
  <2>4. QED
    BY <2>1, <2>2, <2>3 DEF ProbeInOrder
<1>6. QED
  BY <1>1, <1>2, <1>3, <1>4, <1>5 DEF Next, MainStep

-----------------------------------------------------------------------------
(* The discovery: what it has found and what it has left to probe.               *)

(* Participants were asked for, and every probe so far was answered.             *)
Asking ==
  /\ test = "live" /\ (Batch \/ setup.wanted # 0)
  /\ \A f \in faults : f[2] = 0 => f[3] = "metrics"
  /\ \A id \in Ids : 0 \notin spoiled[id]

AtHome == test = setup.test /\ mine = (IF test = "unknown" THEN {} ELSE Mine(setup))

NotTooMany ==
  setup.wanted > 0 => /\ Cardinality(found) <= setup.wanted
                      /\ probe.left # {} => Cardinality(found) < setup.wanted
Reaching == Asking => Enough(found) \/ Reached \subseteq found \union probe.left
(* The first probe is one of a participant, so the hundred misses do not come.   *)
FirstIsMine ==
  Asking /\ Batch /\ found = {} /\ mine # {} =>
    probe.left = {id \in ProbedIds(Limit) : id % setup.partitions = setup.partition}

Probed == NotTooMany /\ Reaching /\ FirstIsMine

Finds ==
  /\ setup.wanted > 0 => Cardinality(found) <= setup.wanted
  /\ Asking => Cardinality(found) >= Wanted(SampleSize(Cardinality(mine)))

Searched ==
  /\ AtHome
  /\ main \in {"metrics", "health"} => found = {}
  /\ main = "health" => Batch
  /\ main \in {"probe", "probing"} => Probed
  /\ ~Searching => Finds

LEMMA FiniteFound ==
  ASSUME IInv, AtHome
  PROVE  /\ IsFiniteSet(mine) /\ IsFiniteSet(found)
         /\ Cardinality(mine) \in Nat /\ Cardinality(found) \in Nat
<1>1. IsFiniteSet(mine)
  <2>1. CASE test = "unknown"
    BY <2>1, FS_EmptySet DEF AtHome
  <2>2. CASE test # "unknown"
    BY <2>2, MineIs DEF AtHome, IInv, Calm
  <2>3. QED
    BY <2>1, <2>2
<1>2. IsFiniteSet(found)
  <2>1. found \in SUBSET mine
    BY DEF IInv, MainTypes
  <2>2. QED
    BY <1>1, <2>1, FS_Subset
<1>3. QED
  BY <1>1, <1>2, FS_CardinalityType

(* Another answer makes one more.                                                *)
LEMMA OneMore ==
  ASSUME IInv, AtHome, NEW c
  PROVE  /\ Cardinality(found \union {c}) \in Nat /\ IsFiniteSet(found \union {c})
         /\ Cardinality(found \union {c}) <= Cardinality(found) + 1
<1>1. IsFiniteSet(found) /\ Cardinality(found) \in Nat
  BY FiniteFound
<1>2. QED
  BY <1>1, FS_AddElement

(* When nothing is left to probe there is enough.                                *)
LEMMA ProbedFinds ==
  ASSUME IInv, AtHome, Probed, probe.left = {}
  PROVE  Finds
<1> PICK n \in Nat, w \in Int : n = Cardinality(found) /\ w = setup.wanted
  BY FiniteFound, SearchAssumption DEF IInv, Calm
<1>1. w > 0 => n <= w
  BY DEF Probed, NotTooMany
<1>2. ASSUME Asking PROVE n >= Wanted(SampleSize(Cardinality(mine)))
  <2>1. mine = Mine(setup) /\ setup \in Setups
    BY <1>2 DEF Asking, AtHome, IInv, Calm
  <2> PICK m \in Nat : m = SampleSize(Cardinality(mine))
    BY FiniteFound, Sampled
  <2> PICK k \in Nat : k = Wanted(m)
    BY <2>1, WantedIs
  <2>2. CASE Enough(found)
    <3>1. w > 0 /\ n >= w
      BY <2>2 DEF Enough
    <3>2. k <= w
      BY <2>1, <3>1, WantedIs
    <3>3. QED
      BY <3>1, <3>2
  <2>3. CASE Reached \subseteq found
    <3>1. Cardinality(Reached) >= k /\ IsFiniteSet(Reached)
      BY <2>1, ReachesFar
    <3>2. Cardinality(Reached) <= n /\ Cardinality(Reached) \in Nat
      BY <2>3, <3>1, FiniteFound, FS_Subset, FS_CardinalityType
    <3>3. QED
      BY <3>1, <3>2
  <2>4. QED
    BY <1>2, <2>2, <2>3 DEF Probed, Reaching
<1>3. QED
  BY <1>1, <1>2 DEF Finds

(* A step of nobody but the goroutines and the server.                           *)
LEMMA ElsewhereSearched ==
  ASSUME Searched, UNCHANGED <<test, mine, setup, probe, found>>, faults \subseteq faults',
         \A id \in Ids : spoiled[id] \subseteq spoiled'[id],
         \/ main' = main
         \/ main \in {"probe", "probing"} /\ main' \in {"probe", "probing"}
         \/ ~Searching /\ ~Searching'
  PROVE  Searched'
<1>1. Batch' = Batch /\ Limit' = Limit /\ Reached' = Reached /\ AtHome'
  BY DEF Searched, Batch, Limit, Reached, ProbedIds, AtHome
<1>2. Asking' => Asking
  BY <1>1 DEF Asking
<1>3. Probed => Probed'
  BY <1>1, <1>2 DEF Probed, NotTooMany, Reaching, FirstIsMine, Enough
<1>4. Finds => Finds'
  BY <1>2 DEF Finds, Wanted, SampleSize, SampleRate
<1>5. QED
  BY <1>1, <1>3, <1>4 DEF Searched, Searching

LEMMA StartSearched ==
  ASSUME UNCHANGED <<test, mine, setup>>, AtHome, NEW ids, StartConnecting(ids), Finds'
  PROVE  Searched'
BY DEF Searched, StartConnecting, AtHome, Searching

LEMMA FirstMine ==
  ASSUME IInv, Orderly, AtHome, FirstIsMine, Asking, Batch, found = {}, mine # {},
         main \in {"probe", "probing"}, probe.left # {}
  PROVE  Candidate \in mine
<1>1. mine = Mine(setup) /\ setup \in Setups
  BY DEF Asking, AtHome, IInv, Calm
<1> PICK F \in Nat, P \in Nat, t \in Nat \ {0}, L \in Nat :
      F = FirstId /\ P = setup.participants /\ t = setup.partitions /\ L = Limit
  BY <1>1, ReceiverAssumption, SearchAssumption, LimitIs
<1> PICK r \in 0..(t - 1) : r = setup.partition
  BY <1>1, SearchAssumption
<1>2. mine = {id \in F..(F + P - 1) : id % t = r}
  BY <1>1, MineIs
<1>3. probe.left = {id \in F..(F + L - 1) : id % t = r}
  BY DEF FirstIsMine, ProbedIds
<1>4. probe.left \subseteq Nat
  BY DEF Orderly, Untried
<1>5. Candidate \in probe.left /\ \A y \in probe.left : Candidate <= y
  BY <1>4, SmallestOf DEF Candidate
<1> PICK c \in F..(F + L - 1) : c = Candidate /\ c % t = r
  BY <1>3, <1>5
<1> PICK m \in F..(F + P - 1) : m % t = r
  BY <1>2
<1>6. c <= F + P - 1
  <2>1. CASE m <= F + L - 1
    <3>1. m \in probe.left
      BY <1>3, <2>1
    <3>2. c <= m
      BY <1>5, <3>1
    <3>3. QED
      BY <3>2
  <2>2. CASE m > F + L - 1
    BY <2>2
  <2>3. QED
    BY <2>1, <2>2
<1>7. QED
  BY <1>2, <1>6

LEMMA FindByMetricsSearched ==
  ASSUME IInv, Searched, FindByMetrics
  PROVE  Searched'
<1>1. PICK ids \in kSubset(Wanted(SampleSize(Cardinality(mine))), mine) :
        StartConnecting(ids) /\ UNCHANGED <<test, mine, setup>>
  BY DEF FindByMetrics, serverVars
<1> PICK m \in Nat : m = SampleSize(Cardinality(mine))
  BY FiniteFound, Sampled DEF Searched
<1> PICK k \in Nat : k = Wanted(m)
  BY WantedIs DEF IInv, Calm
<1>2. Cardinality(ids) = k
  BY DEF kSubset
<1>3. k >= k /\ (setup.wanted > 0 => k <= setup.wanted)
  BY WantedIs DEF IInv, Calm
<1>4. Wanted(SampleSize(Cardinality(mine)))' = k
  BY <1>1 DEF Wanted, SampleSize, SampleRate
<1>5. found' = ids
  BY <1>1 DEF StartConnecting
<1>6. Finds'
  BY <1>1, <1>2, <1>3, <1>4, <1>5 DEF Finds
<1>7. QED
  BY <1>1, <1>6, StartSearched DEF Searched

LEMMA ProbesEndSearched ==
  ASSUME IInv, Searched, ProbesEnd
  PROVE  Searched'
<1>1. main = "probe" /\ probe.left = {} /\ StartConnecting(found)
      /\ UNCHANGED <<test, mine, setup, faults, spoiled>>
  BY DEF ProbesEnd, serverVars, clientVars
<1>2. Finds
  BY <1>1, ProbedFinds DEF Searched
<1>3. found' = found
  BY <1>1 DEF StartConnecting
<1>4. Finds'
  BY <1>1, <1>2, <1>3 DEF Finds, Asking, Batch, Wanted, SampleSize, SampleRate
<1>5. QED
  BY <1>1, <1>4, StartSearched DEF Searched

(* Before the first probe nothing is found.                                      *)
LEMMA NothingYet ==
  ASSUME IInv, found = {}, UNCHANGED <<found, setup>>
  PROVE  NotTooMany'
<1>1. Cardinality(found') = 0
  BY FS_EmptySet
<1>2. QED
  BY <1>1, SearchAssumption DEF NotTooMany, IInv, Calm

LEMMA MetricsFailSearched ==
  ASSUME IInv, Searched, MetricsFail
  PROVE  Searched'
<1>1. main = "metrics" /\ found = {} /\ UNCHANGED <<test, mine, setup, found>> /\ AtHome'
  BY DEF MetricsFail, Searched, AtHome, serverVars
<1>2. CASE Batch
  <2>1. main' = "health" /\ Batch'
    BY <1>1, <1>2 DEF MetricsFail, Batch
  <2>2. QED
    BY <1>1, <2>1 DEF Searched, Searching
<1>3. CASE ~Batch
  <2> DEFINE lim == IF setup.wanted < 0 THEN SearchLimit ELSE setup.wanted * 20
  <2>1. main' = "probe" /\ probe' = [left |-> ProbedIds(lim), checked |-> 0] /\ ~Batch'
    BY <1>1, <1>3 DEF MetricsFail, FirstProbes, Batch
  <2>2. probe'.left = ProbedIds(lim)
    BY <2>1
  <2>3. Asking' => lim = Limit'
    BY <1>1, <1>3, <2>1, SearchAssumption DEF Asking, Limit, IInv, Calm
  <2>4. Reaching'
    BY <2>2, <2>3 DEF Reaching, Reached, ProbedIds
  <2>5. FirstIsMine'
    BY <2>1 DEF FirstIsMine
  <2>6. QED
    BY <1>1, <2>1, <2>4, <2>5, NothingYet DEF Searched, Searching, Probed
<1>4. QED
  BY <1>2, <1>3

LEMMA AskPartitionsSearched ==
  ASSUME IInv, Searched, AskPartitions
  PROVE  Searched'
<1>1. main = "health" /\ found = {} /\ Batch /\ UNCHANGED <<test, mine, setup, found>> /\ AtHome'
      /\ main' = "probe" /\ Batch'
  BY DEF AskPartitions, Searched, AtHome, Batch, serverVars
<1>2. PICK total \in {setup.partitions, DefaultPartitions} :
        /\ IF total = setup.partitions THEN UNCHANGED faults ELSE Fault(<<0, 0, "health">>)
        /\ LET limit == IF setup.wanted > 0 THEN setup.wanted * total * 2 ELSE SearchLimit IN
             FirstProbes({id \in ProbedIds(limit) : id % total = setup.partition})
  BY DEF AskPartitions
<1>3. ASSUME Asking' PROVE total = setup.partitions
  <2> SUFFICES ASSUME total # setup.partitions PROVE FALSE
    OBVIOUS
  <2>1. <<0, 0, "health">> \in faults'
    BY <1>2 DEF Fault
  <2>2. QED
    BY <1>3, <2>1 DEF Asking
<1>4. ASSUME Asking'
      PROVE  probe'.left = {id \in ProbedIds(Limit') : id % setup.partitions = setup.partition}
  <2> PICK w \in Int, t \in Nat : w = setup.wanted /\ t = setup.partitions
    BY SearchAssumption DEF IInv, Calm
  <2>1. w * t * 2 = w * (t * 2)
    OBVIOUS
  <2>2. (IF w > 0 THEN w * t * 2 ELSE SearchLimit) = Limit'
    BY <1>1, <2>1 DEF Limit
  <2>3. probe' = [left |-> {id \in ProbedIds(Limit') : id % t = setup.partition}, checked |-> 0]
    BY <1>2, <1>3, <1>4, <2>2 DEF FirstProbes
  <2>4. QED
    BY <2>3
<1>5. FirstIsMine'
  BY <1>1, <1>4 DEF FirstIsMine
<1>6. Reaching'
  <2> SUFFICES ASSUME Asking' PROVE Reached' \subseteq probe'.left
    BY DEF Reaching
  <2>1. mine' = Mine(setup) /\ setup \in Setups
    BY <1>1 DEF Asking, AtHome, IInv, Calm
  <2>2. \A id \in mine' : id % setup.partitions = setup.partition
    BY <2>1, MineIs
  <2>3. QED
    BY <1>4, <2>2 DEF Reached, ProbedIds
<1>7. QED
  BY <1>1, <1>5, <1>6, NothingYet DEF Searched, Searching, Probed

(* The probe of an id goes on to the next one or ends the discovery.             *)
LEMMA ProbeSearched ==
  ASSUME IInv, Orderly, Searched, Probe
  PROVE  Searched'
<1>1. /\ main = "probe" /\ probe.left # {} /\ UNCHANGED <<test, mine, setup, found, faults, spoiled>>
      /\ main' \in {"probe", "probing"}
  BY DEF Probe, clientVars
<1>2. CASE Candidate \in mine
  <2>1. UNCHANGED probe
    BY <1>2 DEF Probe
  <2>2. QED
    BY <1>1, <2>1, ElsewhereSearched
<1>3. CASE Candidate \notin mine
  <2> DEFINE c == Candidate
  <2>1. Asked(~Hopeless(found))
    BY <1>3 DEF Probe
  <2>2. AtHome' /\ (Asking' <=> Asking) /\ Batch' = Batch /\ Reached' = Reached
    BY <1>1 DEF Searched, AtHome, Asking, Batch, Reached, ProbedIds, Limit
  <2>3. Probed
    BY <1>1 DEF Searched
  <2>4. Asking /\ Batch /\ found = {} => mine = {}
    BY <1>1, <1>3, <2>3, FirstMine DEF Searched, Probed
  <2>5. NotTooMany'
    BY <1>1, <2>3, FiniteFound, SearchAssumption DEF Probed, NotTooMany, Searched, IInv, Calm
  <2>6. FirstIsMine'
    BY <1>1, <2>2, <2>4 DEF FirstIsMine
  <2>7. Reaching'
    <3> SUFFICES ASSUME Asking PROVE Enough(found)' \/ Reached \subseteq found \union probe'.left
      BY <1>1, <2>2 DEF Reaching
    <3>1. CASE Hopeless(found)
      BY <2>4, <3>1 DEF Hopeless, Batch, Reached
    <3>2. CASE ~Hopeless(found)
      <4>1. probe'.left = probe.left \ {c}
        BY <2>1, <3>2 DEF Asked
      <4>2. CASE Enough(found)
        BY <1>1, <4>2 DEF Enough
      <4>3. CASE Reached \subseteq found \union probe.left
        BY <1>3, <4>1, <4>3 DEF Reached
      <4>4. QED
        BY <2>3, <4>2, <4>3 DEF Probed, Reaching
    <3>3. QED
      BY <3>1, <3>2
  <2>8. QED
    BY <1>1, <2>2, <2>5, <2>6, <2>7 DEF Searched, Searching, Probed
<1>4. QED
  BY <1>2, <1>3

LEMMA ProbeAnsweredSearched ==
  ASSUME IInv, Searched, ProbeInOrder, ProbeAnswered
  PROVE  Searched'
<1> DEFINE c == Candidate
<1>1. /\ main = "probing" /\ main' = "probe" /\ UNCHANGED <<test, mine, setup, faults, spoiled>>
      /\ probe.left # {} /\ c \in mine
  BY DEF ProbeAnswered, ProbeInOrder, serverVars, clientVars
<1>2. AtHome' /\ (Asking' <=> Asking) /\ Batch' = Batch /\ Reached' = Reached
  BY <1>1 DEF Searched, AtHome, Asking, Batch, Reached, ProbedIds, Limit
<1>3. Probed /\ AtHome
  BY <1>1 DEF Searched
<1> PICK n \in Nat, w \in Int : n = Cardinality(found) /\ w = setup.wanted
  BY <1>3, FiniteFound, SearchAssumption DEF IInv, Calm
<1>4. w > 0 => n < w
  BY <1>1, <1>3 DEF Probed, NotTooMany
<1>5. CASE sdp[<<c, 0>>].step = "ok"
  <2> PICK ids : ids = found \union {c}
    OBVIOUS
  <2>1. found' = ids /\ Asked(~Enough(ids) /\ ~Hopeless(ids))
    BY <1>5 DEF ProbeAnswered
  <2>2. ids # {} /\ ~Hopeless(ids)
    BY DEF Hopeless
  <2> PICK m \in Nat : m = Cardinality(ids)
    BY <1>3, OneMore
  <2>3. m <= n + 1
    BY <1>3, OneMore
  <2>4. Enough(ids) => w > 0 /\ m >= w
    BY DEF Enough
  <2>5. ~Enough(ids) => ~(w > 0 /\ m >= w) /\ probe'.left = probe.left \ {c}
    BY <2>1, <2>2 DEF Enough, Asked
  <2>6. Enough(ids) => probe'.left = {}
    BY <2>1 DEF Asked
  <2>7. NotTooMany'
    BY <1>1, <1>4, <2>1, <2>3, <2>4, <2>5, <2>6 DEF NotTooMany
  <2>8. FirstIsMine'
    BY <2>1, <2>2 DEF FirstIsMine
  <2>9. Reaching'
    <3> SUFFICES ASSUME Asking PROVE Enough(ids) \/ Reached \subseteq ids \union probe'.left
      BY <1>1, <1>2, <2>1 DEF Reaching, Enough
    <3>1. ~Enough(found)
      BY <1>4 DEF Enough
    <3>2. Reached \subseteq found \union probe.left
      BY <1>3, <3>1 DEF Probed, Reaching
    <3>3. QED
      BY <2>5, <3>2
  <2>10. QED
    BY <1>1, <1>2, <2>7, <2>8, <2>9 DEF Searched, Searching, Probed
<1>6. CASE sdp[<<c, 0>>].step = "error"
  <2>1. found' = found
    BY <1>6 DEF ProbeAnswered
  <2>2. ~Asking
    <3>1. <<c, 0>>[1] = c /\ <<c, 0>>[2] = 0 /\ c \in Ids
      BY <1>1 DEF IInv, ServerTypes
    <3>2. test # "live" \/ 0 \in spoiled[c]
      BY <1>1, <1>6, <3>1 DEF ProbeInOrder, GetPhase
    <3>3. QED
      BY <3>1, <3>2 DEF Asking
  <2>3. NotTooMany'
    BY <1>1, <1>4, <2>1 DEF NotTooMany
  <2>4. QED
    BY <1>1, <1>2, <2>2, <2>3 DEF Searched, Searching, Probed, Reaching, FirstIsMine
<1>7. QED
  BY <1>5, <1>6 DEF ProbeAnswered

LEMMA ProbeTimesOutSearched ==
  ASSUME IInv, Searched, ProbeInOrder, ProbeTimesOut
  PROVE  Searched'
<1>1. /\ main = "probing" /\ main' = "probe" /\ UNCHANGED <<test, mine, setup, found>>
      /\ probe.left # {} /\ Fault(<<Candidate, 0, "sdp">>)
  BY DEF ProbeTimesOut, ProbeInOrder
<1>2. ~Asking'
  <2> PICK c : c = Candidate
    OBVIOUS
  <2>1. <<c, 0, "sdp">> \in faults'
    BY <1>1 DEF Fault
  <2>2. <<c, 0, "sdp">>[2] = 0 /\ <<c, 0, "sdp">>[3] # "metrics"
    OBVIOUS
  <2>3. QED
    BY <2>1, <2>2 DEF Asking
<1>3. AtHome' /\ AtHome /\ NotTooMany
  BY <1>1 DEF Searched, AtHome, Probed
<1>4. NotTooMany'
  BY <1>1, <1>3, FiniteFound, SearchAssumption DEF NotTooMany, IInv, Calm
<1>5. QED
  BY <1>1, <1>2, <1>3, <1>4 DEF Searched, Searching, Probed, Reaching, FirstIsMine

LEMMA StepSearched ==
  ASSUME IInv, Orderly, ProbeInOrder, Searched, [Next]_vars
  PROVE  Searched'
<1>1. CASE \/ UNCHANGED vars
           \/ \E a \in Attempts : Serve(a) \/ Peering(a)
           \/ WaveEnds \/ MapRace \/ Interrupt
           \/ \E id \in Ids : Launch(id) \/ Retry(id)
  <2>1. UNCHANGED <<test, mine, setup, probe, found>> /\ faults \subseteq faults'
    BY <1>1 DEF vars, serverVars, clientVars, mainVars, Serve, ServeSdp, SdpLookup, SdpClose, SdpRemove,
                SdpCreate, SdpOffer, ServeAnswer, AnswerLookup, SetRemoteAnswer,
                Peering, PeerEvent, TrackArrives, ReaderEnds, WaveEnds, MapRace, Interrupt, Launch, Retry
  <2>2. main' = main \/ (~Searching /\ ~Searching')
    BY <1>1 DEF vars, mainVars, Serve, Peering, WaveEnds, MapRace, Interrupt, Launch, Retry, Searching
  <2>3. (\E a \in Attempts : Serve(a)) \/ spoiled' = spoiled
    BY <1>1 DEF vars, serverVars, Peering, PeerEvent, TrackArrives, ReaderEnds, WaveEnds, MapRace,
                Interrupt, Launch, Retry
  <2>4. \A id \in Ids : spoiled[id] \subseteq spoiled'[id]
    BY <2>3, ServeSpoils
  <2>5. QED
    BY <2>1, <2>2, <2>4, ElsewhereSearched
<1>2. CASE \E id \in Ids : Connecting(id)
  <2>1. UNCHANGED <<test, mine, setup, probe, found, main, spoiled>>
    BY <1>2 DEF Connecting, ConnectStep, ConnectFault, OfferComes, Describe, AnswerRefused, AnswerTaken,
                ConnectReturns, Record, OfferTimesOut, DescribeFails, AnswerTimesOut, mainVars, serverVars
  <2>2. faults \subseteq faults'
    BY <1>2 DEF Connecting, ConnectStep, ConnectFault, OfferComes, Describe, AnswerRefused, AnswerTaken,
                ConnectReturns, Record, OfferTimesOut, DescribeFails, AnswerTimesOut, Fault
  <2>3. QED
    BY <2>1, <2>2, ElsewhereSearched
<1>3. CASE FindByMetrics \/ MetricsFail \/ AskPartitions \/ ProbesEnd
  BY <1>3, FindByMetricsSearched, MetricsFailSearched, AskPartitionsSearched, ProbesEndSearched
<1>4. CASE Probe \/ ProbeAnswered \/ ProbeTimesOut
  BY <1>4, ProbeSearched, ProbeAnsweredSearched, ProbeTimesOutSearched
<1>5. QED
  BY <1>1, <1>2, <1>3, <1>4 DEF Next, MainStep

(* The discovery finds no more than were asked for and, when its probes are      *)
(* answered, as many as the metrics would have listed: for every partition and   *)
(* number of participants a probe reaches far enough, and never gives up before  *)
(* the first of them (findParticipantsInPod, findParticipants of discovery.go).  *)
THEOREM DiscoveryReaches == Spec => []DiscoveryFinds
<1>1. Init => IInv /\ Orderly /\ ProbeInOrder /\ Searched
  <2>1. Init => ProbeInOrder
    <3>1. 0 \in 0..Tries
      BY TriesAssumption
    <3>2. QED
      BY <3>1, AttemptOf DEF Init, ServerInit, Idle, Request, ProbeInOrder
  <2>2. Init => Searched
    BY DEF Init, Searched, AtHome, Searching
  <2>3. QED
    BY <2>1, <2>2, InitInvariant, InitOrderly
<1>2. IInv /\ Orderly /\ ProbeInOrder /\ Searched /\ [Next]_vars
        => IInv' /\ Orderly' /\ ProbeInOrder' /\ Searched'
  BY StepInvariant, StepOrderly, ProbeOrder, StepSearched
<1>3. Searched => DiscoveryFinds
  BY DEF Searched, Searching, Finds, Asking, DiscoveryFinds
<1>4. QED
  BY <1>1, <1>2, <1>3, PTL DEF Spec
=============================================================================
