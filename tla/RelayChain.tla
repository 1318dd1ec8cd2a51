------------------------------- MODULE RelayChain -------------------------------
(***************************************************************************)
(* From the cluster to the receiver's machine: the relay pod of             *)
(* k8s/udp-relay takes datagrams and writes them, each behind its length,    *)
(* to every TCP connection; a local relay (tools/udp-relay, pkg/k8s/relay.go) *)
(* holds one such connection, reads length and payload, and sends the payload *)
(* to the receiver's port.  A connection may break at any time, with what was *)
(* in it.  The pod's socket is the other end of the sender's wire.           *)
(***************************************************************************)
EXTENDS StreamSender

CONSTANTS
  Buffer,          \* receive buffers, 4096 in the code
  MaxConnections,  \* bound: connections made in a run
  StreamRoom,      \* bound: frames a connection holds before sendall waits
  DownRoom         \* bound: datagrams the receiver's socket holds before it drops

ASSUME RelayAssumption == Buffer \in Nat \ {0} /\ StreamRoom \in Nat

VARIABLES
  generation,   \* number of connections made so far; the last is the local relay's
  alive,        \* the last connection works
  clients,      \* tcp_clients of the pod, by generation
  stream,       \* what the last connection holds: a length, then that many bytes, ...
  relay,        \* the local relay: pc and the length it has read
  downlink      \* datagrams in the receiver's socket

relayVars == <<generation, alive, clients, stream, relay, downlink>>

RelayInit ==
  /\ generation = 0
  /\ alive = FALSE
  /\ clients = {}
  /\ stream = <<>>
  /\ relay = [pc |-> "dialling", length |-> 0]
  /\ downlink = {}

\* What the stream carries for one datagram.
Framed(d) == <<[is |-> "length", of |-> d], [is |-> "bytes", of |-> d]>>

\* A datagram the receiver's machine may lose for want of room.
Delivered(d) == IF Cardinality(downlink) < DownRoom THEN downlink \union {d} ELSE downlink

-----------------------------------------------------------------------------
(* The pod. *)

\* tcp_server: the connection was made when the local relay dialled.
Accept ==
  /\ generation \notin clients /\ generation > 0 /\ alive
  /\ clients' = clients \union {generation}
  /\ UNCHANGED <<wire, generation, alive, stream, relay, downlink>>

\* udp_receiver.  A broken connection is noticed by a write to it, though not
\* always by the first.  sendall to a full one keeps tcp_clients_lock, and Accept
\* waits for it too; but the full one is the local relay's own, which always reads
\* on, or it is broken and sendall fails: the wait is a delay, not a state.
Forward ==
  \E d \in wire :
    /\ wire' = wire \ {d}
    /\ IF alive /\ generation \in clients
         THEN Len(stream) < 2 * StreamRoom /\ stream' = stream \o Framed(Truncate(d, Buffer))
         ELSE UNCHANGED stream
    /\ \E noticed \in SUBSET {c \in clients : c # generation \/ ~alive} : clients' = clients \ noticed
    /\ UNCHANGED <<generation, alive, relay, downlink>>

-----------------------------------------------------------------------------
(* The local relay. *)
Dial ==
  /\ relay.pc = "dialling"
  /\ generation < MaxConnections
  /\ generation' = generation + 1
  /\ alive' = TRUE
  /\ stream' = <<>>
  /\ relay' = [relay EXCEPT !.pc = "length"]
  /\ UNCHANGED <<wire, clients, downlink>>

DialFails ==
  /\ relay.pc = "dialling"
  /\ relay' = [relay EXCEPT !.pc = "sleeping"]
  /\ UNCHANGED <<wire, generation, alive, clients, stream, downlink>>

Wake ==
  /\ relay.pc = "sleeping"
  /\ relay' = [relay EXCEPT !.pc = "dialling"]
  /\ UNCHANGED <<wire, generation, alive, clients, stream, downlink>>

\* A length of zero is passed over.
ReadLength ==
  /\ relay.pc = "length" /\ stream # <<>>
  /\ relay' = IF Head(stream).of.len = 0 THEN relay
                ELSE [pc |-> "payload", length |-> Head(stream).of.len]
  /\ stream' = Tail(stream)
  /\ UNCHANGED <<wire, generation, alive, clients, downlink>>

\* The bytes that come next, as many as the length said.
ReadPayload ==
  /\ relay.pc = "payload" /\ stream # <<>>
  /\ downlink' = Delivered(IF Head(stream).is = "bytes" THEN Truncate(Head(stream).of, relay.length)
                                                       ELSE [Head(stream).of EXCEPT !.x = FALSE])
  /\ stream' = Tail(stream)
  /\ relay' = [pc |-> "length", length |-> 0]
  /\ UNCHANGED <<wire, generation, alive, clients>>

\* Variant: a reader that dials again by itself and goes on with the payload.
ReadFailsAndResumes ==
  /\ relay.pc \in {"length", "payload"} /\ ~alive
  /\ generation < MaxConnections
  /\ generation' = generation + 1
  /\ alive' = TRUE
  /\ UNCHANGED <<wire, clients, stream, relay, downlink>>

\* Variant: an error that is only looked for where a length is read.
ReadFailsInLength ==
  /\ relay.pc = "length" /\ ~alive
  /\ relay' = [pc |-> "sleeping", length |-> 0]
  /\ UNCHANGED <<wire, generation, alive, clients, stream, downlink>>

\* A read fails: what it had is forgotten, the connection closed, the next one
\* dialled two seconds later.
ReadFails ==
  /\ relay.pc \in {"length", "payload"} /\ ~alive
  /\ relay' = [pc |-> "sleeping", length |-> 0]
  /\ UNCHANGED <<wire, generation, alive, clients, stream, downlink>>

-----------------------------------------------------------------------------
(* The network. *)
Break ==
  /\ alive
  /\ alive' = FALSE
  /\ stream' = <<>>
  /\ UNCHANGED <<wire, generation, clients, relay, downlink>>

RelayNext ==
  \/ Accept \/ Forward
  \/ Dial \/ DialFails \/ Wake \/ ReadLength \/ ReadPayload \/ ReadFails
  \/ Break
=============================================================================
