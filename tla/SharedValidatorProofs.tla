------------------------ MODULE SharedValidatorProofs ------------------------
(***************************************************************************)
(* For any threads, calls and constructors that fail, with exceptions      *)
(* anywhere and a fork at any time: there is one validator, and what all   *)
(* callers see of it together is SharedService.                            *)
(***************************************************************************)
EXTENDS SharedValidator, TLAPS

\* The lock is held by the one thread that exists and is inside the block.
LockInBlock ==
  \A t \in Threads : lock = t <=> t \notin lost /\ pc[t] \in Creating

\* What a thread that exists has in hand.  Between the second look at
\* @validator and the assignment nobody else has assigned it, and the object
\* to assign is still empty: no call has got hold of it.
InHand(t) ==
  /\ pc[t] \in {"construct", "assign"} => validator = NoValidator
  /\ pc[t] = "assign" => mine[t] \in Validators /\ registered[mine[t]] = {}

IInv ==
  /\ TypeOK
  /\ LockInBlock
  /\ \A t \in Threads \ lost : InHand(t)
  /\ OneForAll

-----------------------------------------------------------------------------
(* The steps.                                                              *)

LEMMA InitHolds == Init => IInv
  BY SharedAssumption DEF Init, IInv, TypeOK, LockInBlock, InHand, OneForAll, Creating

\* What every way out of a call does to the call and the lock.
LEMMA EndKeeps ==
  ASSUME IInv, NEW t \in Threads, t \notin lost, pc[t] # "idle",
         NEW how \in {"ok", "raised"}, End(t, how),
         registered' \in [Validators -> SUBSET Classes],
         pc[t] # "delegate" => registered' = registered
  PROVE  IInv'
<1> USE SharedAssumption
<1>1. TypeOK'
  BY DEF IInv, TypeOK, End, Unlock, Goto, Creating
<1>2. LockInBlock'
  BY DEF IInv, TypeOK, LockInBlock, End, Unlock, Goto, Creating
<1>3. ASSUME NEW u \in Threads \ lost, u # t PROVE InHand(u)'
  <2>1. InHand(u) /\ pc'[u] = pc[u] /\ mine'[u] = mine[u] /\ validator' = validator
    BY <1>3 DEF IInv, TypeOK, End, Goto
  <2>2. pc[t] = "delegate" => validator # NoValidator
    BY DEF IInv, OneForAll
  <2> QED BY <2>1, <2>2 DEF InHand
<1>4. InHand(t)'
  BY DEF IInv, TypeOK, InHand, End, Goto
<1>5. OneForAll'
  BY DEF IInv, TypeOK, OneForAll, End, Goto
<1> QED BY <1>1, <1>2, <1>3, <1>4, <1>5 DEF IInv, End

LEMMA NextKeeps == IInv /\ [Next]_vars => IInv'
<1> SUFFICES ASSUME IInv, [Next]_vars PROVE IInv'
  OBVIOUS
<1> USE SharedAssumption
<1>1. ASSUME NEW t \in Threads, Read(t) PROVE IInv'
  BY <1>1 DEF Read, At, Goto, IInv, TypeOK, LockInBlock, InHand, OneForAll, Creating
<1>2. ASSUME NEW t \in Threads, Acquire(t) PROVE IInv'
  BY <1>2 DEF Acquire, At, Goto, IInv, TypeOK, LockInBlock, InHand, OneForAll, Creating
<1>3. ASSUME NEW t \in Threads, Recheck(t) PROVE IInv'
  BY <1>3 DEF Recheck, Unlock, At, Goto, IInv, TypeOK, LockInBlock, InHand, OneForAll,
              Creating
<1>4. ASSUME NEW t \in Threads, Construct(t) PROVE IInv'
  BY <1>4 DEF Construct, Fresh, At, Goto, IInv, TypeOK, LockInBlock, InHand, OneForAll,
              Creating
<1>5. ASSUME NEW t \in Threads, Assign(t) PROVE IInv'
  BY <1>5 DEF Assign, Unlock, At, Goto, IInv, TypeOK, LockInBlock, InHand, OneForAll,
              Creating
<1>6. ASSUME NEW t \in Threads, Delegate(t) PROVE IInv'
  <2>1. mine[t] \in Validators /\ asked[t] \subseteq Classes
    BY <1>6 DEF Delegate, At, IInv, TypeOK, OneForAll
  <2>2. registered' \in [Validators -> SUBSET Classes]
    BY <1>6, <2>1 DEF Delegate, Register, IInv, TypeOK
  <2> QED BY <1>6, <2>2, EndKeeps DEF Delegate, At
<1>7. ASSUME NEW t \in Threads, Raise(t) PROVE IInv'
  <2>1. mine[t] \in Validators /\ asked[t] \subseteq Classes
    BY <1>7 DEF Raise, At, IInv, TypeOK, OneForAll
  <2>2. registered' \in [Validators -> SUBSET Classes]
    BY <1>7, <2>1 DEF Raise, Register, IInv, TypeOK
  <2> QED BY <1>7, <2>2, EndKeeps DEF Raise, At
<1>8. ASSUME NEW t \in Threads, Abandon(t) PROVE IInv'
  BY <1>8, EndKeeps DEF Abandon, IInv, TypeOK
<1>9. ASSUME NEW t \in Threads, Fork(t) PROVE IInv'
  BY <1>9 DEF Fork, At, IInv, TypeOK, LockInBlock, InHand, OneForAll, Creating
<1>10. CASE UNCHANGED vars
  BY <1>10 DEF vars, IInv, TypeOK, LockInBlock, InHand, OneForAll
<1> QED BY <1>1, <1>2, <1>3, <1>4, <1>5, <1>6, <1>7, <1>8, <1>9, <1>10 DEF Next, Step

LEMMA Invariance == Spec => []IInv
  BY InitHolds, NextKeeps, PTL DEF Spec

\* The variables of lib/protovalidate.rb keep their types.
THEOREM TypeCorrect == Spec => []TypeOK
  BY Invariance, PTL DEF IInv

\* Whichever constructors fail and whichever threads a fork takes away, every
\* call that has got through `validator` has the validator of all later calls.
THEOREM OneValidator == Spec => []OneForAll
  BY Invariance, PTL DEF IInv

-----------------------------------------------------------------------------
(* Implementation of SharedService.                                        *)

Known == IF validator = NoValidator THEN {} ELSE registered[validator]

LEMMA EndAnswers ==
  ASSUME IInv, NEW t \in Threads, asked[t] # NoCall,
         NEW S \in SUBSET asked[t], NEW how \in {"ok", "raised"},
         how = "ok" => S = asked[t],
         End(t, how), Known' = Known \cup S
  PROVE  Service!Answer(t)
  BY DEF Service!Answer, End, Known

LEMMA NextServes == IInv /\ [Next]_vars => [Service!Next]_(Service!svars)
<1> SUFFICES ASSUME IInv, [Next]_vars PROVE [Service!Next]_(Service!svars)
  OBVIOUS
<1> USE SharedAssumption
<1>1. ASSUME NEW t \in Threads, Read(t) PROVE Service!Next
  BY <1>1 DEF Read, At, IInv, TypeOK, Service!Next, Service!Ask
<1>2. ASSUME NEW t \in Threads, Acquire(t) PROVE UNCHANGED Service!svars
  BY <1>2 DEF Acquire, Service!svars
<1>3. ASSUME NEW t \in Threads, Recheck(t) PROVE UNCHANGED Service!svars
  BY <1>3 DEF Recheck, Service!svars
<1>4. ASSUME NEW t \in Threads, Construct(t) PROVE UNCHANGED Service!svars
  BY <1>4 DEF Construct, Fresh, IInv, TypeOK, Service!svars
<1>5. ASSUME NEW t \in Threads, Assign(t) PROVE UNCHANGED Service!svars
  BY <1>5 DEF Assign, At, IInv, InHand, Service!svars
<1>6. ASSUME NEW t \in Threads, NEW S \in SUBSET asked[t], At(t, "delegate"),
             Register(mine[t], S), NEW how \in {"ok", "raised"}, End(t, how),
             how = "ok" => S = asked[t]
      PROVE  Service!Next
  <2>1. mine[t] = validator /\ validator \in Validators /\ asked[t] # NoCall
    BY <1>6 DEF At, IInv, TypeOK, OneForAll
  <2>2. Known' = Known \cup S
    BY <1>6, <2>1 DEF Known, Register, End, IInv, TypeOK
  <2>3. Service!Answer(t)
    BY <1>6, <2>1, <2>2, EndAnswers
  <2> QED BY <2>3 DEF Service!Next
<1>7. ASSUME NEW t \in Threads, Delegate(t) PROVE Service!Next
  BY <1>6, <1>7 DEF Delegate
<1>8. ASSUME NEW t \in Threads, Raise(t) PROVE Service!Next
  BY <1>6, <1>8 DEF Raise
<1>9. ASSUME NEW t \in Threads, Abandon(t) PROVE Service!Next
  <2>1. asked[t] # NoCall /\ Known' = Known \cup {}
    BY <1>9 DEF Abandon, End, Known, IInv, TypeOK
  <2>2. Service!Answer(t)
    BY <1>9, <2>1, EndAnswers DEF Abandon
  <2> QED BY <2>2 DEF Service!Next
<1>10. ASSUME NEW t \in Threads, Fork(t) PROVE UNCHANGED Service!svars
  BY <1>10 DEF Fork, Service!svars
<1>11. CASE UNCHANGED vars
  BY <1>11 DEF vars, Service!svars
<1> QED BY <1>1, <1>2, <1>3, <1>4, <1>5, <1>7, <1>8, <1>9, <1>10, <1>11 DEF Next, Step

\* All callers together see one validator that never forgets a class.
THEOREM ImplementsService == Spec => ServesAsOne
<1>1. Init => Service!Init
  BY DEF Init, Service!Init
<1> QED BY <1>1, NextServes, Invariance, PTL DEF Spec, ServesAsOne, Service!Spec
=============================================================================
