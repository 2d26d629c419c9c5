------------------------- MODULE MCConferenceClient -------------------------
(* Users for checking ConferenceClient. *)
EXTENDS ConferenceClient

Line(cmd, id) == [cmd |-> cmd, id |-> id]

Others == {1, 2}

Plain == {Line(c, 0) : c \in {"/login", "/logout", "/createsession", "/list", "/quit", "text", "y"}}
Joins == {Line("/joinsession", id) : id \in {1, 2, 9, NoId}}
Leaves == {Line("/leavesession", id) : id \in {-1, 1, 3}}
Switches == {Line("/switchsession", id) : id \in {-1, 1, 3}}
Invites == {Line("/invite", id) : id \in {-1, 1, NoId}}

AllLines == Plain \cup Joins \cup Leaves \cup Switches \cup Invites

\* Without /leavesession -1, which strikes off a free place.
UsualLines == AllLines \ {Line("/leavesession", -1)}
=============================================================================
