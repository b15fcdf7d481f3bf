----------------------------- MODULE AtLeastOnce -----------------------------
(***************************************************************************)
(* What the callers of network::ReliableSender rely on, for one peer: a    *)
(* message whose handler resolves was received, messages nobody cancelled  *)
(* are first received in the order they were sent, and every message is    *)
(* received and resolved unless its handler is dropped.                    *)
(***************************************************************************)
EXTENDS Naturals

CONSTANT Messages   \* bound: the number of messages the caller sends

VARIABLES
    sent,       \* messages 1..sent were handed to the sender
    cancelled,  \* messages whose handler the caller dropped
    received,   \* messages the peer dispatched at least once
    resolved    \* messages whose handler reported success

absVars == <<sent, cancelled, received, resolved>>

AbsInit == sent = 0 /\ cancelled = {} /\ received = {} /\ resolved = {}

AbsSend ==
    /\ sent < Messages
    /\ sent' = sent + 1
    /\ UNCHANGED <<cancelled, received, resolved>>

AbsCancel(m) ==
    /\ m \notin cancelled \cup resolved
    /\ cancelled' = cancelled \cup {m}
    /\ UNCHANGED <<sent, received, resolved>>

AbsReceive(m) ==
    /\ 1..(m - 1) \subseteq received \cup cancelled
    /\ received' = received \cup {m}
    /\ UNCHANGED <<sent, cancelled, resolved>>

AbsResolve(m) ==
    /\ m \in received \ cancelled
    /\ resolved' = resolved \cup {m}
    /\ UNCHANGED <<sent, cancelled, received>>

AbsNext ==
    \/ AbsSend
    \/ \E m \in 1..sent : AbsCancel(m) \/ AbsReceive(m) \/ AbsResolve(m)

AbsFairness ==
    \A m \in 1..Messages :
        /\ WF_absVars(m <= sent /\ m \notin cancelled /\ AbsReceive(m))
        /\ WF_absVars(m <= sent /\ AbsResolve(m))

AbsSpec == AbsInit /\ [][AbsNext]_absVars /\ AbsFairness
==============================================================================
