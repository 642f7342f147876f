--------------------------- MODULE MCNativeEngine ----------------------------
(***************************************************************************)
(* An engine with one file linked in, well, and two files to be added in   *)
(* any order: dep (types m and x), and top, which imports dep and well     *)
(* (type a, with m among its fields).  The rules of x do not compile; x is *)
(* met inside an Any, where no field leads to it.                          *)
(***************************************************************************)
EXTENDS NativeEngine, TLC

CONSTANTS well, dep, top, m, x, a, t1, t2

MCFiles == {well, dep, top}
MCNameOf == [f \in MCFiles |-> f]
MCImports ==
  well :> <<>> @@ dep :> <<>> @@ top :> <<dep, well>>
MCBadFiles == {}
MCLinked == {well}
MCTypes == {m, x, a}
MCFields == m :> <<m>> @@ x :> <<>> @@ a :> <<m>>
MCGood == {m, a}
MCTypeName == [d \in MCTypes |-> d]
MCHome == m :> dep @@ x :> dep @@ a :> top
MCPayloads ==
  {[packed |-> {}, result |-> "runtime"], [packed |-> {x}, result |-> "ok"]}
MCThreads2 == {t1, t2}
=============================================================================
