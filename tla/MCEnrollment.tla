---------------------------- MODULE MCEnrollment ----------------------------
(* A small instance of Enrollment: two IPCPs that may ask for each other at   *)
(* once, and a third with which one of them may be enrolled by configuration. *)
EXTENDS Enrollment, TLC

CONSTANTS a, b, c

Open == [type |-> "NONE", password |-> ""]
Secret == [type |-> "PASSWD", password |-> "secret"]
Wrong == [type |-> "PASSWD", password |-> "wrong"]
Key == [type |-> "SSHRSA", password |-> "secret"]

AllHave(credentials) == [i \in IPCPs |-> credentials]
Cases ==
    {AllHave(Open), AllHave(Secret), AllHave(Key),
     [AllHave(Secret) EXCEPT ![a] = Wrong], [AllHave(Secret) EXCEPT ![b] = Open]}

Mutual == {<<a, b>>, <<b, a>>}
Known == {{a, c}}
=============================================================================
