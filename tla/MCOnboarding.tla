---------------------------- MODULE MCOnboarding ----------------------------
(***************************************************************************)
(* Instances of Onboarding for TLC.  Calls are interchangeable: each may   *)
(* be any operation.                                                       *)
(***************************************************************************)
EXTENDS Onboarding, TLC

CONSTANTS c1, c2, c3, c4

FourCalls == {c1, c2, c3, c4}
TwoCalls == {c1, c2}

\* The statements as they are, with the INSERTs repaired, and all as meant.
AsItIsAndAsMeant == {{}, {"insert"}, {"insert", "select"}}
SomeRepaired == {{}, {"insert"}}

Interchangeable == Permutations(FourCalls)
=============================================================================
