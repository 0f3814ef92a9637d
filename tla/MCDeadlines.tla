---------------------------- MODULE MCDeadlines ----------------------------
(* Small values for the constants of Deadlines. *)
EXTENDS DeadlinesProperties

CONSTANTS r1, server, endpoint

OneRow == {r1}
OneServer == {server}
ServerAndEndpoint == {server, endpoint}
OneReminder == {1}

\* The endpoint's run may lose its lock while it makes up reminders, and goes on to escalate
\* and to dispatch beside a run of the server.
WhileReminding == {<<endpoint, "remind">>}
=============================================================================
