-------------------------- MODULE MCConferenceLab1 --------------------------
(* The first version of the server under a workload of its own. *)
EXTENDS ConferenceLab1, MCConferenceServer

\* t1 and t2 as in Guests; t3 logs in and stays, whenever that is.
OneLogsIn == [Guests EXCEPT ![t3] = {}]
=============================================================================
