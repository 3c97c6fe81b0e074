---------------------------- MODULE MCConnSetup -----------------------------
(* Small instances of ConnSetup.                                             *)
EXTENDS ConnSetup

OnePull == {"pull1"}
TwoPulls == {"pull1", "pull2"}
=============================================================================
