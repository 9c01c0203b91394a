---------------------------- MODULE MessageChannel ----------------------------
(***************************************************************************)
(* What either end of a connection counts on: messages, not bytes.  The    *)
(* handlers get the messages sent on it, each one whole, once and in       *)
(* order, while it is up or, with a buffer, until the next connection.  A  *)
(* connection may be spoiled; from then on it promises nothing, and only a *)
(* new one mends it.                                                       *)
(***************************************************************************)
EXTENDS Naturals, Sequences

CONSTANTS
    Message,
    Garbage,
    Buffered    \* the receiver hands over what had arrived when it ended

VARIABLES
    up,         \* the connection is open
    sent,       \* the messages sent on it
    handled,    \* what the receiver's handlers got
    spoiled     \* the receiver is out of step

Init ==
    /\ up = FALSE
    /\ sent = <<>>
    /\ handled = <<>>
    /\ spoiled = FALSE

\* A connection starts afresh, perhaps spoiled by what an earlier one left.
Connect ==
    /\ ~up
    /\ up' = TRUE
    /\ sent' = <<>>
    /\ handled' = <<>>
    /\ spoiled' \in BOOLEAN

\* What was sent and not handled is lost, but for what a buffer holds.
Disconnect ==
    /\ up
    /\ up' = FALSE
    /\ spoiled => spoiled'
    /\ UNCHANGED <<sent, handled>>

Send(m) ==
    /\ up
    /\ sent' = Append(sent, m)
    /\ UNCHANGED <<up, handled, spoiled>>

\* The next message is handled.
Handle(m) ==
    /\ up \/ Buffered
    /\ spoiled \/ (Len(handled) < Len(sent) /\ m = sent[Len(handled) + 1])
    /\ handled' = Append(handled, m)
    /\ UNCHANGED <<up, sent, spoiled>>

Spoil ==
    /\ up
    /\ spoiled' = TRUE
    /\ UNCHANGED <<up, sent, handled>>

Next ==
    \/ Connect
    \/ Disconnect
    \/ \E m \in Message : Send(m)
    \/ \E m \in Message \cup {Garbage} : Handle(m)
    \/ Spoil

Spec == Init /\ [][Next]_<<up, sent, handled, spoiled>>

=============================================================================
