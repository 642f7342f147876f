-------------------------- MODULE MCForkedValidator --------------------------
(***************************************************************************)
(* A file with Addr and BadRule, whose rules do not compile, and the file  *)
(* it imports; three threads that validate messages of both classes for    *)
(* ever, the first of which forks.                                         *)
(***************************************************************************)
EXTENDS ForkedValidator, TLC

CONSTANTS base, dep, NBase, NDep, addr, badrule, TAddr, TBadRule, Addr, BadRule, t1, t2, t3

MCNameOf == base :> NBase @@ dep :> NDep
MCImports == base :> <<>> @@ dep :> <<NBase>>
MCPool == NBase :> base @@ NDep :> dep
MCTypes == {addr, badrule}
MCFields == addr :> <<>> @@ badrule :> <<>>
MCTypeName == addr :> TAddr @@ badrule :> TBadRule
MCHome == [d \in MCTypes |-> dep]
MCDescriptor == Addr :> addr @@ BadRule :> badrule
Plain == [packed |-> {}, result |-> "ok"]
MCPayloads == {Plain}
MCLoaded == <<Addr, BadRule>>
Val(c, m) == [op |-> "validate", classes |-> <<c>>, payload |-> m]
MCCalls == {Val(Addr, Plain), Val(BadRule, Plain)}
=============================================================================
