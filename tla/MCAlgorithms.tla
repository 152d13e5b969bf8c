---------------------------- MODULE MCAlgorithms ----------------------------
(***************************************************************************)
(* Two of the algorithms without state, for TLC, against what the code's   *)
(* own words promise of them: each is called once, with one of the inputs. *)
(***************************************************************************)
EXTENDS DataAlgorithms

CONSTANT Decided  \* how many mappings have been decided

VARIABLES
  schedules,  \* the expression that was checked
  reports     \* the mappings that were reported on
vars == <<schedules, reports>>

-----------------------------------------------------------------------------
(* Expressions by the day of the week: the days of the validator's tests,  *)
(* and neighbouring ones, at one time of day, at two, or every six hours.  *)
Part(shape, a, b, n) == [shape |-> shape, a |-> a, b |-> b, n |-> n]
Every == {Part("*", 0, 0, 0)}
At(a) == Part("a", a, 0, 0)
Expressions ==
  [minute : {{At(0)}, {At(0), At(30)}},
   hour : {{At(3)}, {Part("*/n", 0, 0, 6)}},
   dayOfMonth : {Every}, month : {Every},
   dayOfWeek : {Every, {At(1)}, {At(1), At(3), At(5)}, {Part("a-b", 1, 5, 0)},
                {At(0), At(6)}}]

(* Mappings of which so many are confirmed and the others corrected; none  *)
(* are added while they are counted.                                       *)
Mappings(of) ==
  [i \in 1..of.decided |->
     [status |-> IF i <= of.confirmed THEN "confirmed" ELSE "corrected",
      matchType |-> "needs_review"]]
Ratios ==
  {of \in [decided : Decided, confirmed : 0..Max(Decided)] :
     84 * of.decided <= 100 * of.confirmed /\ 100 * of.confirmed <= 86 * of.decided}

Init == schedules = {} /\ reports = {}

Check ==
  /\ schedules = {}
  /\ \E expr \in Expressions : schedules' = {expr}
  /\ UNCHANGED reports

Report ==
  /\ reports = {}
  /\ \E of \in Ratios : reports' = {of}
  /\ UNCHANGED schedules

Next == Check \/ Report
Spec == Init /\ [][Next]_vars

-----------------------------------------------------------------------------
(* An accepted expression by the day of the week leaves no more than 24    *)
(* hours between two runs (cron-validator.ts).  Violated: Monday to Friday *)
(* is accepted.                                                            *)
AcceptedNeverRestADay ==
  \A expr \in schedules : CronNeverRestsADay(expr)

(* A report warns of every accuracy below 85 percent                       *)
(* (accuracy-service.ts).  Violated: 84.995 percent is rounded up first.   *)
LowAccuracyIsTold ==
  \A of \in reports : WarnedBelow85(Mappings(of), Mappings(of))
=============================================================================
