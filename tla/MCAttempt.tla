----------------------------- MODULE MCAttempt -----------------------------
(***************************************************************************)
(* Instances of AttemptLifecycle for TLC: a live exam and a mock exam, and *)
(* two clients that belong to one student or to two.                       *)
(***************************************************************************)
EXTENDS AttemptLifecycle

CONSTANTS s1, s2, live, mock, r1, r2

\* Two tabs of one student; the second student has no client.
ClientsOfOneStudent == [r \in Requests |-> s1]

\* One client for each student: a student waits for one answer at a time.
ClientPerStudent == [r \in Requests |-> IF r = r1 THEN s1 ELSE s2]

\* The live exam's window closes before an attempt of full length could end.
Windows == [e \in Exams |-> IF e = live THEN 2 ELSE MaxTime + 1]
=============================================================================
