----------------------------- MODULE Connection -----------------------------
(* What the launcher relies on of its connection: frames go out in the order    *)
(* they were sent; while there is no connection the latest MaxPending of them   *)
(* wait; a new connection starts with a greeting, then they go out; what was on *)
(* the way when a connection ends is lost.  ProtocolClient implements it.       *)
EXTENDS Naturals, Sequences

CONSTANTS
    Frames,         \* what may be sent
    Greetings,      \* what a new connection may start with, sequences of frames
    MaxPending      \* frames kept while there is no connection

VARIABLES
    online,     \* there is a connection
    pending,    \* frames waiting for one
    wire        \* frames on their way to the server

link == <<online, pending, wire>>

LinkTypeOK ==
    /\ online \in BOOLEAN
    /\ pending \in Seq(Frames) /\ Len(pending) <= MaxPending
    /\ wire \in Seq(Frames)
    /\ online => pending = <<>>
    /\ ~online => wire = <<>>

LinkInit ==
    /\ online = FALSE
    /\ pending = <<>>
    /\ wire = <<>>

-----------------------------------------------------------------------------
Send(f) ==
    /\ UNCHANGED online
    /\ \/ online /\ wire' = Append(wire, f) /\ UNCHANGED pending
       \/ ~online /\ UNCHANGED wire
          /\ pending' = Append(IF Len(pending) >= MaxPending THEN Tail(pending) ELSE pending, f)

Connect(greeting) ==
    /\ ~online
    /\ online' = TRUE
    /\ wire' = greeting \o pending
    /\ pending' = <<>>

Lose ==
    /\ online
    /\ online' = FALSE
    /\ wire' = <<>>
    /\ UNCHANGED pending

\* The server takes the next frame.
Take ==
    /\ wire # <<>>
    /\ wire' = Tail(wire)
    /\ UNCHANGED <<online, pending>>

LinkNext ==
    \/ \E f \in Frames : Send(f)
    \/ \E greeting \in Greetings : Connect(greeting)
    \/ Lose
    \/ Take

LinkSpec == LinkInit /\ [][LinkNext]_link
=============================================================================
