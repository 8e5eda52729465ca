------------------------------- MODULE Checks -------------------------------
(***************************************************************************)
(* The catalog functions check one thing after the other and throw at the  *)
(* first that fails, so that the order decides which error a caller sees.  *)
(***************************************************************************)
EXTENDS Naturals, Sequences

(* A check says whether it fails, and with what.                           *)
Check(fails, code) == [fails |-> fails, code |-> code]

(* The places of those that fail, of which only the first is reported.     *)
Failing(checks) == {i \in DOMAIN checks : checks[i].fails}

FirstFailing(checks) ==
  IF Failing(checks) = {} THEN "accepted"
  ELSE checks[CHOOSE i \in Failing(checks) : \A j \in Failing(checks) : i <= j].code
=============================================================================
