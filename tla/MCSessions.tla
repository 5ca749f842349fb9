------------------------------- MODULE MCSessions -------------------------------
(* The instance of Sessions for TLC: the events are those of               *)
(* MCUserAccounts, the bounds on time and tokens are in the configuration. *)
EXTENDS Sessions, MCUserAccounts

SessionsWithoutAnswers == <<WithoutAnswers, sessionVars>>
=============================================================================
