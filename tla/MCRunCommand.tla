---------------------------- MODULE MCRunCommand -----------------------------
(* Instances of RunCommand for TLC. *)
EXTENDS RunCommand

\* With and without -apply, with a good token and a bad one, alone and not.
AllSetups == [apply : BOOLEAN, authorized : BOOLEAN, shared : BOOLEAN]

\* A client with nobody beside it.
Alone == {[apply |-> FALSE, authorized |-> TRUE, shared |-> FALSE]}

NoFaults == {}
=============================================================================
