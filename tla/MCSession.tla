------------------------------ MODULE MCSession ------------------------------
EXTENDS Session

CONSTANTS u1, u2

\* One user registers, another logs in, and the stored login data is used.
MCCalls == {[type |-> "register", user |-> u1, passive |-> FALSE],
            [type |-> "login", user |-> u2, passive |-> FALSE]}
           \cup {o \in Options : o.type = "auto"}

\* A login asks for instructions too, so that two answers to that may be under way as well.
MCReplies == [instruction |-> 1, schedule |-> 2]
=============================================================================
