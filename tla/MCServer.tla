------------------------------ MODULE MCServer ------------------------------
(* One event and its successor, a terminating signal or two, a save      *)
(* signal, one login and one query with a callback.                        *)
EXTENDS Server

CONSTANTS main, dispatch, schedule, database, loader, shutdown, poison,
          e1, e2, term1, term2, usr1, p1, q1, none

NoTasks == {}
OneEvent == {e1}
NextEvent == {e2}
OneSignal == {term1}
TwoSignals == {term1, term2}
OneSave == {usr1}
OneLogin == {p1}
OneQuery == {q1}
=============================================================================
