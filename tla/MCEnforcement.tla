---------------------------- MODULE MCEnforcement ----------------------------
(***************************************************************************)
(* TLC instance of Enforcement: two sessions at work on two files, before  *)
(* the last of five calls, watched by two dashboards that list the last    *)
(* two calls of each.                                                      *)
(***************************************************************************)
EXTENDS Enforcement, TLC

CONSTANTS s1, s2, f, g

WriteBy(s, p) == [who |-> s, file |-> p, how |-> "write"]

MCLogs ==
  {<<WriteBy(s1, f), WriteBy(s1, g), WriteBy(s1, g), WriteBy(s2, f)>>,
   <<WriteBy(s2, g), WriteBy(s1, f), WriteBy(s2, g), WriteBy(s2, f)>>}
=============================================================================
