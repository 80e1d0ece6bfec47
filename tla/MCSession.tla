------------------------------ MODULE MCSession ------------------------------
(* Constants of the Session runs. *)
EXTENDS Session

\* One user's right password, another's right and wrong ones.
MCCredentials ==
    {[user |-> "u1", good |-> TRUE], [user |-> "u2", good |-> TRUE], [user |-> "u2", good |-> FALSE]}

MCFrames == Request
MCGreetings == {<<>>} \cup {<<Login(c)>> : c \in Credentials}
=============================================================================
