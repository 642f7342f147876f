----------------------------- MODULE MCRuleWalk ------------------------------
(***************************************************************************)
(* A schema with the shapes the walk of CompileRules is written for: types *)
(* that contain each other (a, b), a type that contains itself (c), a      *)
(* shared nested type (leaf) and rules that do not compile (bad), below a  *)
(* and b but not below c.                                                  *)
(***************************************************************************)
EXTENDS RuleWalk, TLC

CONSTANTS a, b, c, leaf, bad, t1, t2

MCTypes == {a, b, c, leaf, bad}
MCFields ==
  a :> <<b, leaf>> @@ b :> <<a, bad>> @@ c :> <<leaf, c>>
  @@ leaf :> <<>> @@ bad :> <<>>
MCGood == {a, b, c, leaf}
MCThreads == {t1, t2}
=============================================================================
