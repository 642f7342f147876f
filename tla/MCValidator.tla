----------------------------- MODULE MCValidator -----------------------------
(***************************************************************************)
(* A pool with top, which imports dep and the linked-in well; orphan, which *)
(* imports a file the pool lacks; and a copy of well newer than the linked *)
(* one.  Types: Old is in both copies of well, New only in the newer one;   *)
(* Addr and BadRule, whose rules do not compile, in dep; User in top.       *)
(* Another pool has a file of dep's name, with an Addr of its own.          *)
(***************************************************************************)
EXTENDS Validator, TLC

CONSTANTS
  well, newer, dep, top, orphan, other,           \* files
  NWell, NDep, NTop, NOrphan, NMissing,           \* names
  old, oldcopy, new, addr, user, badrule, lost, stranger,  \* types
  TOld, TNew, TAddr, TUser, TBadRule, TLost,     \* type names
  Old, New, Addr, User, BadRule, Lost, Stranger, String,   \* classes
  t1, t2

MCFiles == {well, newer, dep, top, orphan, other}
MCFileNames == {NWell, NDep, NTop, NOrphan, NMissing}
MCNameOf ==
  well :> NWell @@ newer :> NWell @@ dep :> NDep @@ top :> NTop @@ orphan :> NOrphan
  @@ other :> NDep
MCImports ==
  well :> <<>> @@ newer :> <<>> @@ dep :> <<>> @@ top :> <<NDep, NWell>>
  @@ orphan :> <<NDep, NMissing>> @@ other :> <<>>
MCPool ==
  NWell :> newer @@ NDep :> dep @@ NTop :> top @@ NOrphan :> orphan
  @@ NMissing :> NoFile

MCTypes == {old, oldcopy, new, addr, user, badrule, lost, stranger}
MCFields ==
  old :> <<>> @@ oldcopy :> <<>> @@ new :> <<>> @@ addr :> <<>>
  @@ user :> <<addr, old>> @@ badrule :> <<>> @@ lost :> <<>> @@ stranger :> <<>>
MCGood == MCTypes \ {badrule}
MCTypeNames == {TOld, TNew, TAddr, TUser, TBadRule, TLost}
MCTypeName ==
  old :> TOld @@ oldcopy :> TOld @@ new :> TNew @@ addr :> TAddr
  @@ user :> TUser @@ badrule :> TBadRule @@ lost :> TLost
  @@ stranger :> TAddr
MCHome ==
  old :> well @@ oldcopy :> newer @@ new :> newer @@ addr :> dep
  @@ user :> top @@ badrule :> dep @@ lost :> orphan @@ stranger :> other

MCMessageClasses == {Old, New, Addr, User, BadRule, Lost, Stranger}
MCClasses == MCMessageClasses \cup {String}
MCDescriptor ==
  Old :> oldcopy @@ New :> new @@ Addr :> addr @@ User :> user
  @@ BadRule :> badrule @@ Lost :> lost @@ Stranger :> stranger
Plain == [packed |-> {}, result |-> "ok"]
Failing == [packed |-> {}, result |-> "runtime"]
Carrier == [packed |-> {badrule}, result |-> "ok"]
MCPayloads == {Plain, Failing, Carrier}

Val(c, m) == [op |-> "validate", classes |-> <<c>>, payload |-> m]
Register(cs) == [op |-> "register", classes |-> cs, payload |-> Plain]
RegisterAll == [op |-> "register_all", classes |-> <<>>, payload |-> Plain]

\* register_all meets a type the engine does not know, a class of another pool
\* and a class to register.
MCLoaded == <<New, Stranger, Addr>>

\* Every way a call can end, a registered and an unregistered class for it, and
\* messages that carry an Any of a type with bad rules.
MCCalls ==
  {Val(User, Failing), Val(User, Carrier), Val(BadRule, Plain), Val(New, Plain),
   Register(<<Addr, Lost>>), Register(<<Old, String>>), RegisterAll}

\* Two messages in flight, one with an Any of a type met for the first time.
MCAnyCalls == {Val(User, Plain), Val(User, Carrier)}

\* A class of another pool.
MCStrangerCalls == {Val(Addr, Plain), Val(Stranger, Plain)}

MCThreads2 == {t1, t2}
=============================================================================
