---------------------------- MODULE ReliableSender ----------------------------
(***************************************************************************)
(* network::ReliableSender for one peer, the network::Receiver at the      *)
(* other end, and the TCP connections between them.  Messages are numbered *)
(* in the order the caller sends them.                                     *)
(*                                                                         *)
(* Acknowledgements carry no identity: the sender matches them with its    *)
(* pending_replies by position.  A connection the sender gave up may still *)
(* hold messages that the peer's runner dispatches later, next to those of *)
(* the following connections.                                              *)
(***************************************************************************)
EXTENDS Naturals, Sequences

CONSTANTS
    Messages,     \* bound: the number of messages the caller sends
    Connections   \* bound: the number of connections; the last one lasts

ASSUME SenderAssumption == Messages \in Nat /\ Connections \in Nat \ {0}

VARIABLES
    sent, cancelled, received, resolved,   \* see AtLeastOnce
    channel,          \* the mpsc channel to the Connection task
    buffer,           \* Connection::buffer
    pending_replies,  \* sent on the current connection, not acknowledged
    state,            \* where Connection::run is
    current,          \* number of the current connection, 0 before the first
    wire,             \* wire[c]: what connection c carries to the peer
    acks,             \* acks[c]: how many acknowledgements it carries back
    alive             \* alive[c]: connection c has not been broken

senderVars == <<channel, buffer, pending_replies, state>>
networkVars == <<current, wire, acks, alive>>
vars == <<sent, cancelled, received, resolved, senderVars, networkVars>>

Connection == 1..Connections

Uncancelled(m) == m \notin cancelled

(* What VecDeque::retain leaves of s: its uncancelled messages, in order. *)
Retained(s) ==
    LET kept[i \in 0..Len(s)] ==
            IF i = 0 THEN << >>
            ELSE IF Uncancelled(s[i]) THEN Append(kept[i - 1], s[i])
            ELSE kept[i - 1]
    IN  kept[Len(s)]

------------------------------------------------------------------------------
(* The caller *)

Send ==
    /\ sent < Messages
    /\ sent' = sent + 1
    /\ channel' = Append(channel, sent + 1)
    /\ UNCHANGED <<cancelled, received, resolved, buffer, pending_replies, state,
                   networkVars>>

(* The caller drops the CancelHandler before it resolves. *)
Cancel ==
    \E m \in 1..sent :
        /\ m \notin cancelled \cup resolved
        /\ cancelled' = cancelled \cup {m}
        /\ UNCHANGED <<sent, received, resolved, senderVars, networkVars>>

------------------------------------------------------------------------------
(* Connection::run *)

Connect ==
    /\ state = "connecting"
    /\ current < Connections
    /\ state' = "connected"
    /\ current' = current + 1
    /\ UNCHANGED <<sent, cancelled, received, resolved, channel, buffer,
                   pending_replies, wire, acks, alive>>

(* The attempt fails; the delay before the next one is left to the timer. *)
FailToConnect ==
    /\ state = "connecting"
    /\ state' = "waiting"
    /\ UNCHANGED <<sent, cancelled, received, resolved, channel, buffer,
                   pending_replies, networkVars>>

TimerExpires ==
    /\ state = "waiting"
    /\ state' = "connecting"
    /\ UNCHANGED <<sent, cancelled, received, resolved, channel, buffer,
                   pending_replies, networkVars>>

(* Faulty variant: the message just taken is not kept. *)
DrainWithoutLast ==
    /\ state = "waiting"
    /\ channel # << >>
    /\ channel' = Tail(channel)
    /\ buffer' = Retained(buffer)
    /\ UNCHANGED <<sent, cancelled, received, resolved, pending_replies, state,
                   networkVars>>

Drain ==
    /\ state = "waiting"
    /\ channel # << >>
    /\ channel' = Tail(channel)
    /\ buffer' = Retained(Append(buffer, Head(channel)))
    /\ UNCHANGED <<sent, cancelled, received, resolved, pending_replies, state,
                   networkVars>>

------------------------------------------------------------------------------
(* Connection::keep_alive *)

Skip ==
    /\ state = "connected"
    /\ buffer # << >>
    /\ Head(buffer) \in cancelled
    /\ buffer' = Tail(buffer)
    /\ UNCHANGED <<sent, cancelled, received, resolved, channel, pending_replies,
                   state, networkVars>>

(* A write to a connection that is broken may succeed: the bytes are lost. *)
Write ==
    /\ state = "connected"
    /\ buffer # << >>
    /\ Head(buffer) \notin cancelled
    /\ buffer' = Tail(buffer)
    /\ pending_replies' = Append(pending_replies, Head(buffer))
    /\ wire' = IF alive[current]
               THEN [wire EXCEPT ![current] = Append(@, Head(buffer))]
               ELSE wire
    /\ UNCHANGED <<sent, cancelled, received, resolved, channel, state, current,
                   acks, alive>>

TakeMessage ==
    /\ state = "connected"
    /\ buffer = << >>
    /\ channel # << >>
    /\ channel' = Tail(channel)
    /\ buffer' = <<Head(channel)>>
    /\ UNCHANGED <<sent, cancelled, received, resolved, pending_replies, state,
                   networkVars>>

(* An acknowledgement resolves the handler of the oldest pending message. *)
ReceiveAck ==
    LET m == Head(pending_replies)
    IN  /\ state = "connected"
        /\ buffer = << >>
        /\ acks[current] > 0
        /\ pending_replies # << >>
        /\ acks' = [acks EXCEPT ![current] = @ - 1]
        /\ pending_replies' = Tail(pending_replies)
        /\ resolved' = IF m \in cancelled THEN resolved ELSE resolved \cup {m}
        /\ UNCHANGED <<sent, cancelled, received, channel, buffer, state, current,
                       wire, alive>>

(* Faulty variant: the pending messages are put behind the buffer. *)
RequeueBehind == buffer' = buffer \o pending_replies

(* What keep_alive does on every error: pending messages go back in front. *)
Requeue == buffer' = pending_replies \o buffer

(* A write fails, or the reader ends (it is only polled with an empty      *)
(* buffer), with or without messages pending.                              *)
LoseConnection ==
    /\ state = "connected"
    /\ current < Connections
    /\ state' = "connecting"
    /\ Requeue
    /\ pending_replies' = << >>
    /\ UNCHANGED <<sent, cancelled, received, resolved, channel, networkVars>>

------------------------------------------------------------------------------
(* The peer and the network *)

(* Faulty variant: the message is acknowledged again once it is handled. *)
AckTwice(c) ==
    /\ wire[c] # << >>
    /\ wire' = [wire EXCEPT ![c] = Tail(@)]
    /\ acks' = [acks EXCEPT ![c] = @ + 2]
    /\ received' = received \cup {Head(wire[c])}
    /\ UNCHANGED <<sent, cancelled, resolved, senderVars, current, alive>>

(* A runner of network::Receiver reads a message; the handler acknowledges *)
(* it and dispatches it.                                                   *)
Dispatch(c) ==
    /\ wire[c] # << >>
    /\ wire' = [wire EXCEPT ![c] = Tail(@)]
    /\ acks' = [acks EXCEPT ![c] = @ + 1]
    /\ received' = received \cup {Head(wire[c])}
    /\ UNCHANGED <<sent, cancelled, resolved, senderVars, current, alive>>

(* Connection c breaks: what it carries in either direction is lost. *)
Break(c) ==
    /\ c <= current
    /\ c < Connections
    /\ alive[c]
    /\ alive' = [alive EXCEPT ![c] = FALSE]
    /\ wire' = [wire EXCEPT ![c] = << >>]
    /\ acks' = [acks EXCEPT ![c] = 0]
    /\ UNCHANGED <<sent, cancelled, received, resolved, senderVars, current>>

------------------------------------------------------------------------------
Init ==
    /\ sent = 0
    /\ cancelled = {} /\ received = {} /\ resolved = {}
    /\ channel = << >> /\ buffer = << >> /\ pending_replies = << >>
    /\ state = "connecting"
    /\ current = 0
    /\ wire = [c \in Connection |-> << >>]
    /\ acks = [c \in Connection |-> 0]
    /\ alive = [c \in Connection |-> TRUE]

SenderNext ==
    \/ Connect \/ FailToConnect \/ TimerExpires \/ Drain
    \/ Skip \/ Write \/ TakeMessage \/ ReceiveAck \/ LoseConnection

Next ==
    \/ Send \/ Cancel \/ SenderNext
    \/ \E c \in Connection : Dispatch(c) \/ Break(c)

(* The Connection task keeps running, the peer is reachable again and      *)
(* again, a broken connection is noticed and a healthy one is served.      *)
Fairness ==
    /\ SF_vars(Connect)
    /\ WF_vars(TimerExpires) /\ WF_vars(Skip) /\ WF_vars(Write)
    /\ WF_vars(TakeMessage) /\ SF_vars(ReceiveAck)
    /\ WF_vars(current > 0 /\ ~alive[current] /\ LoseConnection)
    /\ \A c \in Connection : WF_vars(Dispatch(c))

Spec == Init /\ [][Next]_vars

FairSpec == Spec /\ Fairness

------------------------------------------------------------------------------
(* Properties *)

(* Connection keeps its state in the types the code declares, and an       *)
(* acknowledgement never comes without a pending message (UnexpectedAck).  *)
TypeOK ==
    /\ sent \in 0..Messages
    /\ cancelled \subseteq 1..sent /\ received \subseteq 1..sent
    /\ resolved \subseteq 1..sent
    /\ channel \in Seq(1..sent) /\ buffer \in Seq(1..sent)
    /\ pending_replies \in Seq(1..sent)
    /\ state \in {"connecting", "waiting", "connected"}
    /\ current \in 0..Connections
    /\ wire \in [Connection -> Seq(1..sent)]
    /\ acks \in [Connection -> Nat]
    /\ alive \in [Connection -> BOOLEAN]
    /\ state = "connected" => acks[current] <= Len(pending_replies)

Held(m) ==
    \/ \E i \in DOMAIN channel : channel[i] = m
    \/ \E i \in DOMAIN buffer : buffer[i] = m
    \/ \E i \in DOMAIN pending_replies : pending_replies[i] = m

(* A message whose handler is neither resolved nor dropped is still held by *)
(* the Connection task: it is never dropped without the caller knowing,     *)
(* over any number of reconnections (QuorumWaiter counts a handler that is  *)
(* dropped as an acknowledgement).                                          *)
NothingLost == \A m \in 1..sent : m \in cancelled \cup resolved \/ Held(m)

AtLeastOnceSpec == INSTANCE AtLeastOnce

(* The Connection task and the peer implement AtLeastOnce: a resolved      *)
(* handler means that the peer received the message, uncancelled messages  *)
(* are first received in order, and each is received and resolved in the   *)
(* end, whatever connections break and whatever old connections deliver.   *)
ImplementsAtLeastOnce == AtLeastOnceSpec!AbsSpec
==============================================================================
