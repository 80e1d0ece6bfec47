------------------------------ MODULE MCClient ------------------------------
(* Constants of the ProtocolClient runs. *)
EXTENDS ProtocolClient

\* An answer that is no object, one that is, and the user.
MCUserAnswer == <<1, 0>>
MCAnswers == {<<0>>, <<1>>, MCUserAnswer}

MCRefuse == {"refuse"}
=============================================================================
