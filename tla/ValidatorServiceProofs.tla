----------------------- MODULE ValidatorServiceProofs -----------------------
(***************************************************************************)
(* What a Validator's callers get.  For every schema, any threads and      *)
(* calls, and interrupts anywhere: a call ends with one of the outcomes    *)
(* the Ruby code knows, and if no two files go by one name, with the one   *)
(* that its classes and its message call for.                              *)
(***************************************************************************)
EXTENDS ValidatorProofs, WellFoundedInduction

\* Where Class(t), the head of the classes left, is read.
Resolving == Synchronized \cup {"acquire"}

\* The statuses an evaluation may have.
Statuses == Verdicts \cup {"compilation"}

Left(t) ==
  /\ pc[t] \in Resolving => rest[t] # <<>>
  /\ pc[t] = "validated" /\ at[t] \in {"ruby", "returning"} => ret[t] \in Statuses

\* The inductive invariant, on top of VInv.
LeftInv ==
  /\ rest \in [Threads -> Seq(Classes)] /\ outcome \in [Threads -> Outcomes]
  /\ \A t \in Threads : Left(t)

-----------------------------------------------------------------------------

\* Induction on sets of numbers, by the least number outside.
LEMMA Induction ==
  ASSUME NEW S \in SUBSET Nat, 0 \in S, \A n \in Nat : n \in S => n + 1 \in S
  PROVE  S = Nat
<1> SUFFICES ASSUME S # Nat PROVE FALSE
  OBVIOUS
<1>1. PICK n \in Nat \ S : \A m \in Nat \ S : ~ (<<m, n>> \in OpToRel(<, Nat))
  BY NatLessThanWellFounded, WFMin
<1>2. \A m \in Nat \ S : ~ (m < n)
  BY <1>1 DEF OpToRel
<1>3. n # 0 /\ n - 1 \in Nat
  OBVIOUS
<1>4. n - 1 \in S
  BY <1>2, <1>3
<1> QED BY <1>3, <1>4

\* What loaded_message_classes has kept of a first part of the subclasses.
LEMMA KeptDefined ==
  /\ Kept[0] = <<>>
  /\ \A n \in 1 .. Len(Loaded) :
       Kept[n] = IF InPool(Loaded[n]) THEN Append(Kept[n - 1], Loaded[n])
                 ELSE Kept[n - 1]
<1> DEFINE Keep(f, n) == IF InPool(Loaded[n]) THEN Append(f[n - 1], Loaded[n]) ELSE f[n - 1]
           F(f, n) == IF n = 0 THEN <<>> ELSE Keep(f, n)
           S == {k \in Nat : \E f : f = [n \in 0 .. k |-> F(f, n)]}
<1>1. 0 \in S
  <2> DEFINE f == [n \in 0 .. 0 |-> <<>>]
  <2>1. f = [n \in 0 .. 0 |-> F(f, n)]
    OBVIOUS
  <2> QED BY <2>1
<1>2. ASSUME NEW k \in Nat, k \in S PROVE k + 1 \in S
  <2>1. PICK f : f = [n \in 0 .. k |-> F(f, n)]
    BY <1>2
  <2> DEFINE g == [n \in 0 .. k + 1 |->
                    IF n = k + 1
                    THEN IF InPool(Loaded[n]) THEN Append(f[k], Loaded[n]) ELSE f[k]
                    ELSE f[n]]
  <2>2. ASSUME NEW n \in 0 .. k + 1 PROVE g[n] = F(g, n)
    <3>1. CASE n = k + 1
      BY <3>1
    <3>2. CASE n # k + 1
      <4>1. n \in 0 .. k /\ (n > 0 => n - 1 \in 0 .. k)
        BY <3>2
      <4>2. f[n] = F(f, n)
        BY <2>1, <4>1
      <4> QED BY <3>2, <4>1, <4>2
    <3> QED BY <3>1, <3>2
  <2>3. g = [n \in 0 .. k + 1 |-> F(g, n)]
    BY <2>2
  <2> HIDE DEF g
  <2> QED BY <2>3
<1>3. Len(Loaded) \in Nat
  BY CatalogAssumption
<1>4. \E f : f = [n \in 0 .. Len(Loaded) |-> F(f, n)]
  <2>1. S = Nat
    <3>1. S \in SUBSET Nat
      OBVIOUS
    <3>2. \A n \in Nat : n \in S => n + 1 \in S
      BY <1>2
    <3> HIDE DEF S
    <3> QED BY <1>1, <3>1, <3>2, Induction
  <2> QED BY <1>3, <2>1
<1>5. Kept = [n \in 0 .. Len(Loaded) |-> F(Kept, n)]
  BY <1>4 DEF Kept
<1>6. \A n \in 0 .. Len(Loaded) : Kept[n] = F(Kept, n)
  BY <1>5
<1>7. 0 \in 0 .. Len(Loaded) /\ \A n \in 1 .. Len(Loaded) : n \in 0 .. Len(Loaded) /\ n # 0
  BY <1>3
<1> QED BY <1>6, <1>7

\* It keeps message classes of the validator's pool and no others.
LEMMA LoadedAreInPool ==
  LoadedMessageClasses \in Seq({c \in MessageClasses : InPool(c)})
<1> DEFINE P == {c \in MessageClasses : InPool(c)}
           S == {k \in Nat : k <= Len(Loaded) => Kept[k] \in Seq(P)}
<1>1. Len(Loaded) \in Nat
  BY CatalogAssumption
<1>2. 0 \in S
  <2>1. Kept[0] = <<>>
    BY KeptDefined
  <2>2. <<>> \in Seq(P)
    OBVIOUS
  <2> QED BY <2>1, <2>2
<1>3. ASSUME NEW k \in Nat, k \in S PROVE k + 1 \in S
  <2> SUFFICES ASSUME k + 1 <= Len(Loaded) PROVE Kept[k + 1] \in Seq(P)
    OBVIOUS
  <2>1. k + 1 \in 1 .. Len(Loaded) /\ Loaded[k + 1] \in MessageClasses
    BY <1>1, CatalogAssumption
  <2>2. Kept[k] \in Seq(P)
    BY <1>1, <1>3
  <2>3. Kept[k + 1] = IF InPool(Loaded[k + 1]) THEN Append(Kept[k], Loaded[k + 1])
                      ELSE Kept[k]
    BY <2>1, KeptDefined
  <2>4. CASE InPool(Loaded[k + 1])
    <3>1. Loaded[k + 1] \in P
      BY <2>1, <2>4
    <3> HIDE DEF P
    <3> QED BY <2>2, <2>3, <2>4, <3>1
  <2>5. CASE ~InPool(Loaded[k + 1])
    BY <2>2, <2>3, <2>5
  <2> QED BY <2>4, <2>5
<1>4. S = Nat
  <2>1. S \in SUBSET Nat
    OBVIOUS
  <2>2. \A n \in Nat : n \in S => n + 1 \in S
    BY <1>3
  <2> HIDE DEF S
  <2> QED BY <1>2, <2>1, <2>2, Induction
<1> QED BY <1>1, <1>4 DEF LoadedMessageClasses

LEMMA ClassesOfACall ==
  ASSUME NEW c \in Calls
  PROVE  ClassesOf(c) \in Seq(Classes)
<1>1. {d \in MessageClasses : InPool(d)} \subseteq Classes
  BY CatalogAssumption
<1>2. LoadedMessageClasses \in Seq(Classes)
  BY <1>1, LoadedAreInPool
<1> QED BY <1>2, CatalogAssumption DEF ClassesOf

LEMMA ErrorsAreOutcomes ==
  ASSUME NEW r \in Statuses \ {"ok"}
  PROVE  ErrorOf[r] \in Outcomes
  BY DEF Statuses, Verdicts, ErrorOf, Outcomes

\* A step of t in Ruby code keeps LeftInv if it does so for t itself.
LEMMA LeftOfOne ==
  ASSUME VInv, LeftInv, NEW t \in Threads, Left(t)',
         rest' \in [Threads -> Seq(Classes)], outcome' \in [Threads -> Outcomes],
         \A u \in Threads \ {t} :
           /\ rest'[u] = rest[u] /\ pc'[u] = pc[u]
           /\ at'[u] = at[u] /\ ret'[u] = ret[u]
  PROVE  LeftInv'
  BY DEF LeftInv, Left

LEMMA LeftByFinish ==
  ASSUME VInv, LeftInv, NEW t \in Threads, NEW o \in Outcomes, Finish(t, o),
         UNCHANGED at, ret' \in {ret, [ret EXCEPT ![t] = "none"]}
  PROVE  LeftInv'
<1> USE DEF VInv, RubyTypes, EngineInv, EngineTypeOK, LeftInv, Finish, Goto
<1>1. Left(t)'
  BY DEF Left, Resolving, Synchronized
<1>2. rest' \in [Threads -> Seq(Classes)] /\ outcome' \in [Threads -> Outcomes]
  OBVIOUS
<1>3. \A u \in Threads \ {t} :
        /\ rest'[u] = rest[u] /\ pc'[u] = pc[u]
        /\ at'[u] = at[u] /\ ret'[u] = ret[u]
  OBVIOUS
<1> HIDE DEF VInv, LeftInv
<1> QED BY <1>1, <1>2, <1>3, LeftOfOne

LEMMA LeftByResolved ==
  ASSUME VInv, LeftInv, NEW t \in Threads, Resolved(t), rest[t] # <<>>,
         UNCHANGED at, ret' \in {ret, [ret EXCEPT ![t] = "none"]}
  PROVE  LeftInv'
<1>1. rest[t] \in Seq(Classes) /\ Tail(rest[t]) \in Seq(Classes)
  BY HeadTail DEF LeftInv
<1>2. /\ pc'[t] \in {"validate", "resolve"} /\ UNCHANGED outcome
      /\ rest' \in {rest, [rest EXCEPT ![t] = Tail(@)]}
      /\ \A u \in Threads \ {t} : pc'[u] = pc[u]
  BY DEF Resolved, Goto, VInv, RubyTypes, LeftInv
<1>3. Left(t)'
  BY <1>2 DEF Left, Resolving, Synchronized
<1>4. rest' \in [Threads -> Seq(Classes)] /\ outcome' \in [Threads -> Outcomes]
  BY <1>1, <1>2 DEF LeftInv
<1>5. \A u \in Threads \ {t} :
        /\ rest'[u] = rest[u] /\ pc'[u] = pc[u]
        /\ at'[u] = at[u] /\ ret'[u] = ret[u]
  BY <1>2 DEF LeftInv, VInv, EngineInv, EngineTypeOK
<1> QED BY <1>3, <1>4, <1>5, LeftOfOne

\* t goes on to another place with the same classes to resolve.
LEMMA LeftByGoing ==
  ASSUME VInv, LeftInv, NEW t \in Threads, NEW place, Goto(t, place),
         UNCHANGED <<rest, outcome>>,
         place \in Resolving => rest[t] # <<>>,
         place = "validated" => at'[t] = "validate",
         \A u \in Threads \ {t} : at'[u] = at[u] /\ ret'[u] = ret[u]
  PROVE  LeftInv'
<1>1. pc'[t] = place /\ \A u \in Threads \ {t} : pc'[u] = pc[u]
  BY DEF Goto, VInv, RubyTypes
<1>2. Left(t)'
  BY <1>1 DEF Left, LeftInv
<1> QED BY <1>1, <1>2, LeftOfOne DEF LeftInv

\* The engine answers a validation with one of the statuses.
LEMMA LeftByNative ==
  ASSUME VInv, LeftInv, NEW t \in Threads, Native(t)
  PROVE  LeftInv'
<1>1. EngineStep(t) /\ UNCHANGED <<pc, rest, outcome>>
  BY DEF Native, rubyLocal
<1>2. /\ Moves(t)
      /\ \A u \in Threads \ {t} : at'[u] = at[u] /\ ret'[u] = ret[u]
  BY <1>1, EngineFrame DEF VInv
<1>3. CallMatches(t) /\ Left(t)
  BY DEF VInv, ThreadInv, LeftInv
<1>4. ASSUME pc[t] = "validated", at'[t] \in {"ruby", "returning"}
      PROVE  ret'[t] \in Statuses
  <2>1. at[t] \in {"ensuring", "evaluating", "returning"}
    BY <1>2, <1>3, <1>4 DEF Moves, CallMatches
  <2>2. \A r : Leave(t, r) => ret'[t] = r
    BY DEF Leave, VInv, EngineInv, EngineTypeOK
  <2>3. CASE at[t] = "ensuring"
    <3>1. Ensure(t)
      BY <1>1, <2>3 DEF EngineStep, AddFile, MessageType, LockCompile, Compile,
                        LockValidate, Unpack, Evaluate, Reacquire
    <3>2. at' # [at EXCEPT ![t] = "evaluating"]
      BY <1>4 DEF VInv, EngineInv, EngineTypeOK
    <3> QED BY <2>2, <3>1, <3>2 DEF Ensure, Statuses, Verdicts
  <2>4. CASE at[t] = "evaluating"
    <3>1. Unpack(t) \/ Evaluate(t)
      BY <1>1, <2>4 DEF EngineStep, AddFile, MessageType, LockCompile, Compile,
                        LockValidate, Ensure, Reacquire
    <3>2. CASE Unpack(t)
      BY <1>4, <2>2, <2>4, <3>2 DEF Unpack, StatusOf, Statuses, Verdicts
    <3>3. CASE Evaluate(t)
      BY <2>2, <3>3 DEF Evaluate, Statuses, VInv, EngineInv, EngineTypeOK
    <3> QED BY <3>1, <3>2, <3>3
  <2>5. CASE at[t] = "returning"
    BY <1>2, <1>3, <1>4, <2>5 DEF Moves, Left
  <2> QED BY <2>1, <2>3, <2>4, <2>5
<1>5. Left(t)'
  BY <1>1, <1>3, <1>4 DEF Left
<1> QED BY <1>1, <1>2, <1>5, LeftOfOne DEF LeftInv

\* The steps of Ruby code.
LEMMA LeftByRuby ==
  ASSUME VInv, LeftInv, NEW t \in Threads,
         Call(t) \/ Step(t) \/ Interrupt(t), ~Native(t)
  PROVE  LeftInv'
<1>1. /\ DOMAIN pc = Threads /\ DOMAIN at = Threads /\ DOMAIN ret = Threads
      /\ DOMAIN arg = Threads /\ DOMAIN asked = Threads
  BY DEF VInv, RubyTypes, EngineInv, EngineTypeOK, ArgOK
<1>2. Left(t) /\ HasGVL(t)
  BY DEF LeftInv, Call, Step, Interrupt, AllRegistered, FastPath, SlowPath, Acquire,
         Recheck, Import, Add, Added, AskKnown, SkipUnknown, CompileType, Dup, Publish,
         Validate, Validated, At
<1>3. CASE Call(t)
  <2>1. PICK c \in Calls : rest' = [rest EXCEPT ![t] = ClassesOf(c)]
    BY <1>3 DEF Call
  <2>2. Left(t)'
    BY <1>1, <1>3, <2>1, ClassesOfACall
    DEF Call, Left, LeftInv, Goto, Resolving, Synchronized, Outcomes
  <2>3. rest' \in [Threads -> Seq(Classes)] /\ outcome' \in [Threads -> Outcomes]
    BY <1>3, <2>1, ClassesOfACall DEF Call, LeftInv, Outcomes
  <2>4. \A u \in Threads \ {t} :
          /\ rest'[u] = rest[u] /\ pc'[u] = pc[u]
          /\ at'[u] = at[u] /\ ret'[u] = ret[u]
    BY <1>1, <1>3, <2>1 DEF Call, Goto, LeftInv, engineVars, call
  <2> QED BY <2>2, <2>3, <2>4, LeftOfOne
<1>4. CASE AllRegistered(t)
  BY <1>4, LeftByFinish DEF AllRegistered, engineVars, call, Outcomes
<1>5. CASE FastPath(t)
  BY <1>5, LeftByResolved DEF FastPath, engineVars, call
<1>6. CASE SlowPath(t)
  <2>1. rest[t] # <<>> /\ UNCHANGED <<at, ret>>
    BY <1>6 DEF SlowPath, engineVars, call
  <2>2. CASE Finish(t, "type_error")
    BY <2>1, <2>2, LeftByFinish DEF Outcomes
  <2>3. CASE Goto(t, "acquire") /\ UNCHANGED <<rest, outcome>>
    BY <2>1, <2>3, LeftByGoing
  <2> QED BY <1>6, <2>2, <2>3 DEF SlowPath
<1>7. CASE Acquire(t)
  BY <1>2, <1>7, LeftByGoing
  DEF Acquire, At, Left, Resolving, engineVars, call
<1>8. CASE Recheck(t)
  <2>1. rest[t] # <<>> /\ UNCHANGED <<at, ret>>
    BY <1>2, <1>8 DEF Recheck, At, Left, Resolving, Synchronized, engineVars, call
  <2>2. CASE Resolved(t)
    BY <2>1, <2>2, LeftByResolved
  <2>3. CASE Goto(t, "files") /\ UNCHANGED <<rest, outcome>>
    BY <2>1, <2>3, LeftByGoing
  <2> QED BY <1>8, <2>2, <2>3 DEF Recheck
<1>9. CASE Import(t)
  <2>1. pc[t] = "files" /\ UNCHANGED <<at, ret>>
    BY <1>9 DEF Import, At, engineVars, call
  <2>2. CASE Finish(t, "argument_error")
    BY <2>1, <2>2, LeftByFinish DEF Outcomes
  <2>3. CASE UNCHANGED <<pc, rest, outcome>>
    BY <2>1, <2>3 DEF LeftInv, Left
  <2> QED BY <1>9, <2>2, <2>3 DEF Import
<1>10. CASE Add(t) \/ AskKnown(t) \/ CompileType(t)
  <2>1. /\ \E place \in {"added", "known", "compiled"} : Goto(t, place)
        /\ UNCHANGED <<rest, outcome>> /\ pc[t] \in {"files", "known"}
        /\ \A u \in Threads \ {t} : at'[u] = at[u] /\ ret'[u] = ret[u]
    BY <1>1, <1>10
    DEF Add, AskKnown, CompileType, At, CallAddFile, CallMessageType, CallCompile, Enter
  <2>2. rest[t] # <<>>
    BY <1>2, <2>1 DEF Left, Resolving, Synchronized
  <2> QED BY <2>1, <2>2, LeftByGoing
<1>11. CASE Added(t)
  <2>1. pc[t] = "added" /\ UNCHANGED at /\ ret' = [ret EXCEPT ![t] = "none"]
    BY <1>11 DEF Added, At, Discard
  <2>2. CASE Finish(t, "argument_error")
    BY <2>1, <2>2, LeftByFinish DEF Outcomes
  <2>3. CASE Goto(t, "files") /\ UNCHANGED <<rest, outcome>>
    <3>1. rest[t] # <<>>
      BY <1>2, <2>1 DEF Left, Resolving, Synchronized
    <3> QED BY <1>1, <2>1, <2>3, <3>1, LeftByGoing
  <2> QED BY <1>11, <2>2, <2>3 DEF Added
<1>12. CASE SkipUnknown(t)
  BY <1>2, <1>12, LeftByResolved
  DEF SkipUnknown, At, Discard, Left, Resolving, Synchronized
<1>13. CASE Dup(t)
  <2>1. pc[t] = "compiled" /\ UNCHANGED at /\ ret' = [ret EXCEPT ![t] = "none"]
    BY <1>13 DEF Dup, At, Discard
  <2>2. CASE ret[t] \in DOMAIN ErrorOf /\ Finish(t, ErrorOf[ret[t]])
    <3>1. ErrorOf[ret[t]] \in Outcomes
      BY <2>2 DEF ErrorOf, Outcomes
    <3> QED BY <2>1, <2>2, <3>1, LeftByFinish
  <2>3. CASE Goto(t, "publish") /\ UNCHANGED <<rest, outcome>>
    <3>1. rest[t] # <<>>
      BY <1>2, <2>1 DEF Left, Resolving, Synchronized
    <3> QED BY <1>1, <2>1, <2>3, <3>1, LeftByGoing
  <2> QED BY <1>13, <2>2, <2>3 DEF Dup
<1>14. CASE Publish(t)
  BY <1>2, <1>14, LeftByResolved
  DEF Publish, At, Left, Resolving, Synchronized, engineVars, call
<1>15. CASE Validate(t)
  <2>1. /\ Goto(t, "validated") /\ UNCHANGED <<rest, outcome>> /\ at'[t] = "validate"
        /\ \A u \in Threads \ {t} : at'[u] = at[u] /\ ret'[u] = ret[u]
    BY <1>1, <1>15 DEF Validate, CallValidate, Enter
  <2> QED BY <2>1, LeftByGoing DEF Resolving, Synchronized
<1>16. CASE Validated(t)
  <2>1. ret[t] \in Statuses
    BY <1>2, <1>16 DEF Validated, At, HasGVL, Left
  <2>2. (IF ret[t] = "ok" THEN "ok" ELSE ErrorOf[ret[t]]) \in Outcomes
    BY <2>1, ErrorsAreOutcomes DEF Outcomes
  <2> QED BY <1>16, <2>2, LeftByFinish DEF Validated, Discard
<1>17. CASE Interrupt(t)
  BY <1>17, LeftByFinish DEF Interrupt, Discard, Outcomes
<1> QED BY <1>3, <1>4, <1>5, <1>6, <1>7, <1>8, <1>9, <1>10, <1>11, <1>12, <1>13, <1>14,
           <1>15, <1>16, <1>17 DEF Step

-----------------------------------------------------------------------------

LEMMA LeftInvariance == Spec => []LeftInv
<1>1. Init => LeftInv
  BY DEF Init, EngineInit, LeftInv, Left, Outcomes, Resolving, Synchronized
<1>2. VInv /\ LeftInv /\ [Next]_vars => LeftInv'
  <2> SUFFICES ASSUME VInv, LeftInv, [Next]_vars PROVE LeftInv'
    OBVIOUS
  <2>1. CASE Next
    BY <2>1, LeftByRuby, LeftByNative DEF Next
  <2>2. CASE UNCHANGED vars
    BY <2>2 DEF vars, engineVars, call, rubyLocal, LeftInv, Left
  <2> QED BY <2>1, <2>2
<1> QED BY <1>1, <1>2, ValidatorInvariance, PTL DEF Spec

\* The variables keep their types, for every schema, any threads, calls and
\* interrupts; no step reads the head of an empty list of classes.
THEOREM TypeCorrect == Spec => []TypeOK
<1>1. VInv /\ LeftInv => TypeOK
  <2> SUFFICES ASSUME VInv, LeftInv PROVE TypeOK
    OBVIOUS
  <2>1. /\ pc \in [Threads -> Synchronized \cup
                              {"idle", "resolve", "acquire", "validate", "validated"}]
        /\ frames \in [Threads -> Seq([file : Files, imports : Seq(FileNames)])]
    BY DEF VInv, RubyTypes, RubyPlaces, Activations
  <2> QED BY <2>1
          DEF TypeOK, VInv, EngineInv, RubyTypes, ThreadInv, InHand, LeftInv, Left,
              Resolving
<1> QED BY <1>1, ValidatorInvariance, LeftInvariance, PTL

-----------------------------------------------------------------------------
(* The service: what the schema makes of a call.                           *)

\* The classes a call names are of the validator's own pool; register_all picks
\* such classes itself (LoadedAreInPool).
OnePool ==
  \A c \in Calls : c.op # "register_all" =>
    \A i \in DOMAIN c.classes : c.classes[i] \in MessageClasses => InPool(c.classes[i])

\* The files the engine may come to have.
AtHand(f) == f \in Linked \/ \E n \in FileNames : Pool[n] = f

\* A type did not move to a file of another name between the pool's copy of it
\* and the one linked in.
OneHome ==
  \A d, e \in Types :
    AtHand(Home[d]) /\ AtHand(Home[e]) /\ TypeName[d] = TypeName[e]
      => NameOf[Home[d]] = NameOf[Home[e]]

File(t) == FileOf(Class(t))
KnownOf(t) == Known(Descriptor[Class(t)])

Compiles(S) == S # {} /\ \A d \in S : RulesOk(d)

\* What the engine and the validator have is what the pool has.
PoolServed ==
  /\ Linked \subseteq built
  /\ \A g \in built \ Linked :
       NameOf[g] \notin Names(Linked) /\ Pool[NameOf[g]] = g /\ g \notin BadFiles
  /\ \A n \in registered : Pool[n] # NoFile /\ ImportNames(Pool[n]) \subseteq registered
  /\ \A c \in types : NameOf[FileOf(c)] \in registered
  /\ \A c \in types, skip \in BOOLEAN : ClassOutcome(c, skip) = "ok"

\* The first k classes of t's call are resolved, and were right to be.
Remains(t, k) ==
  LET cs == ClassesOf(asked[t]) IN
  /\ k \in 0 .. Len(cs) /\ Len(rest[t]) = Len(cs) - k
  /\ \A i \in 1 .. Len(rest[t]) : rest[t][i] = cs[k + i]
  /\ \A i \in 1 .. k : ClassOutcome(cs[i], SkipsUnknown(t)) = "ok"
  /\ asked[t].op = "validate" => k = 0

\* Whatever register_file goes through, the class needs.
FramesNeeded(t) ==
  \A i \in 1 .. Len(frames[t]) :
    /\ Pool[NameOf[frames[t][i].file]] = frames[t][i].file
    /\ frames[t][i].file \in Needs[File(t)]
    /\ Range(frames[t][i].imports) \subseteq ImportNames(frames[t][i].file)

\* The class's own file is registered, or under way.
FileUnderWay(t) ==
  \/ NameOf[File(t)] \in registered
  \/ \E i \in 1 .. Len(frames[t]) : frames[t][i].file = File(t)

\* What the engine says of a class, and of a message, is what the schema says.
Registration(t) ==
  /\ pc[t] = "added" /\ at[t] = "ruby" /\ ret[t] = "argument" => ~FileOk(File(t))
  /\ at[t] = "message_type" => arg[t] = NameOfClass(t)
  /\ pc[t] = "known" /\ at[t] = "ruby" =>
       ret[t] = IF KnownOf(t) = {} THEN "no" ELSE "yes"
  /\ pc[t] = "compiled" /\ SkipsUnknown(t) => KnownOf(t) # {}
  /\ pc[t] = "compiled" /\ at[t] \in {"ruby", "returning"} =>
       ret[t] = IF KnownOf(t) = {} THEN "argument"
                ELSE IF Compiles(KnownOf(t)) THEN "ok" ELSE "compilation"
  /\ pc[t] = "publish" => Compiles(KnownOf(t))

AsOutcome(r) == IF r = "ok" THEN "ok" ELSE ErrorOf[r]

Evaluation(t) ==
  /\ pc[t] = "validated" /\ at[t] \in {"validate", "ensuring", "evaluating"} =>
       /\ message[t].packed \subseteq asked[t].payload.packed
       /\ message[t].result = asked[t].payload.result
  /\ pc[t] = "validated" /\ at[t] \in {"ruby", "returning"} =>
       AsOutcome(ret[t]) \in EvaluationOutcomes(asked[t].payload)

Serves(t) ==
  /\ pc[t] # "idle" => \E k \in Nat : Remains(t, k)
  /\ pc[t] = "validated" => asked[t].op = "validate"
  /\ FramesNeeded(t)
  /\ pc[t] \in {"files", "added"} => FileUnderWay(t)
  /\ pc[t] \in {"known", "compiled", "publish"} => NameOf[File(t)] \in registered
  /\ Registration(t)
  /\ Evaluation(t)

\* The inductive invariant, on top of VInv and LeftInv.
ServeInv == PoolServed /\ \A t \in Threads : Serves(t)

-----------------------------------------------------------------------------
(* The schema.                                                             *)

\* S has f and, through the pool, all that its files import.
Closing(S, f) ==
  /\ f \in S
  /\ \A h \in S, n \in FileNames :
       n \in ImportNames(h) /\ Pool[n] # NoFile => Pool[n] \in S

LEMMA NeedsLeast ==
  ASSUME NEW f \in Files
  PROVE  /\ Needs[f] \subseteq Files /\ Closing(Needs[f], f)
         /\ \A S \in SUBSET Files : Closing(S, f) => Needs[f] \subseteq S
<1>1. Needs[f] = {g \in Files : \A S \in SUBSET Files : Closing(S, f) => g \in S}
  BY DEF Needs, Closing
<1>2. f \in Needs[f]
  BY <1>1 DEF Closing
<1>3. ASSUME NEW g \in Needs[f], NEW n \in FileNames, n \in ImportNames(g),
             Pool[n] # NoFile
      PROVE  Pool[n] \in Needs[f]
  <2>1. Pool[n] \in Files
    BY <1>3, CatalogAssumption
  <2>2. \A S \in SUBSET Files : Closing(S, f) => Pool[n] \in S
    BY <1>1, <1>3 DEF Closing
  <2> QED BY <1>1, <2>1, <2>2
<1>4. Closing(Needs[f], f)
  BY <1>2, <1>3 DEF Closing
<1> QED BY <1>1, <1>4

LEMMA BuiltIsAtHand ==
  ASSUME VInv, PoolServed, NEW f \in built
  PROVE  AtHand(f)
<1>1. f \in Files /\ NameOf[f] \in FileNames
  BY SchemaAssumption DEF VInv, EngineInv, EngineTypeOK
<1> QED BY <1>1 DEF PoolServed, AtHand

LEMMA ImportsAreNames ==
  ASSUME NEW f \in Files
  PROVE  ImportNames(f) \subseteq FileNames
  BY SchemaAssumption DEF ImportNames, Range

\* A file whose name is registered, with all it needs, can be added.
LEMMA RegisteredFilesOk ==
  ASSUME VInv, PoolServed, NEW n \in registered
  PROVE  FileOk(Pool[n])
<1> DEFINE S == {Pool[m] : m \in registered}
<1>1. \A m \in registered :
        m \in FileNames /\ Pool[m] \in Files /\ NameOf[Pool[m]] = m
  BY CatalogAssumption DEF VInv, RubyTypes, PoolServed
<1>2. S \in SUBSET Files /\ Pool[n] \in S
  BY <1>1
<1>3. \A h \in S : ImportNames(h) \subseteq registered
  BY DEF PoolServed
<1>4. \A h \in S, m \in FileNames : m \in ImportNames(h) => Pool[m] \in S
  BY <1>3
<1>5. Needs[Pool[n]] \subseteq S
  BY <1>2, <1>4, NeedsLeast DEF Closing
<1>6. \A h \in S : NameOf[h] \in Names(Linked) \/ h \notin BadFiles
  <2> SUFFICES ASSUME NEW m \in registered, m \notin Names(Linked)
               PROVE  Pool[m] \notin BadFiles
    BY <1>1
  <2>1. PICK g \in built : NameOf[g] = m
    BY DEF VInv, RegisteredAreBuilt, BuiltNames, Names
  <2>2. g \notin Linked
    BY <2>1 DEF Names
  <2> QED BY <2>1, <2>2 DEF PoolServed
<1>7. \A h \in S : \A m \in ImportNames(h) : Pool[m] # NoFile
  BY <1>3 DEF PoolServed
<1> QED BY <1>5, <1>6, <1>7 DEF FileOk

\* Once its file is registered, the engine finds of a type what it should.
LEMMA FoundIsKnown ==
  ASSUME VInv, PoolServed, OneHome, NEW c \in MessageClasses, InPool(c),
         NameOf[FileOf(c)] \in registered
  PROVE  Find(TypeName[Descriptor[c]]) = Known(Descriptor[c])
<1> DEFINE d == Descriptor[c]
           m == NameOf[Home[d]]
<1>1. d \in Types /\ Home[d] \in Files /\ m \in registered /\ Pool[m] = Home[d]
  BY CatalogAssumption, SchemaAssumption DEF InPool, FileOf
<1>2. PICK g \in built : NameOf[g] = m
  BY <1>1 DEF VInv, RegisteredAreBuilt, BuiltNames, Names
<1> HIDE DEF d
<1>3. CASE m \in Names(Linked)
  <2>1. Known(d) = {e \in Types : TypeName[e] = TypeName[d] /\ Home[e] \in Linked}
    BY <1>3 DEF Known
  <2>2. ASSUME NEW e \in Types, TypeName[e] = TypeName[d]
        PROVE  Home[e] \in built <=> Home[e] \in Linked
    <3>1. Home[e] \in Linked => Home[e] \in built
      BY DEF PoolServed
    <3>2. ASSUME Home[e] \in built PROVE NameOf[Home[e]] = m
      <4>1. AtHand(Home[d]) /\ m \in FileNames
        BY <1>1, SchemaAssumption DEF AtHand
      <4>2. AtHand(Home[e])
        BY <3>2, BuiltIsAtHand
      <4> QED BY <1>1, <2>2, <4>1, <4>2 DEF OneHome, d
    <3> QED BY <1>3, <3>1, <3>2 DEF PoolServed
  <2> QED BY <2>1, <2>2 DEF Find, d
<1>4. CASE m \notin Names(Linked)
  <2>1. g = Home[d]
    BY <1>1, <1>2, <1>4 DEF PoolServed, Names
  <2>2. Known(d) = {d}
    BY <1>4 DEF Known
  <2>3. \A e \in Find(TypeName[d]) : e = d
    BY <1>1, <1>2, <2>1 DEF Find, VInv, NamesUnique
  <2>4. d \in Find(TypeName[d])
    BY <1>1, <1>2, <2>1 DEF Find
  <2> QED BY <2>2, <2>3, <2>4 DEF d
<1> QED BY <1>3, <1>4

-----------------------------------------------------------------------------
(* What the first class that fails, or none, makes of a call.              *)

LEMMA CallClasses ==
  ASSUME NEW c \in Calls
  PROVE  /\ ClassesOf(c) \in Seq(Classes)
         /\ DOMAIN ClassesOf(c) = 1 .. Len(ClassesOf(c))
         /\ Len(ClassesOf(c)) \in Nat
         /\ c.op = "validate" => Len(ClassesOf(c)) = 1
<1>1. ClassesOf(c) \in Seq(Classes)
  BY ClassesOfACall
<1>2. c.op = "validate" => ClassesOf(c) = c.classes /\ Len(c.classes) = 1
  BY CatalogAssumption DEF ClassesOf
<1> QED BY <1>1, <1>2

\* Whatever a call goes through is of the pool, register_all by its own doing.
LEMMA CallInPool ==
  ASSUME OnePool, NEW c \in Calls, NEW i \in DOMAIN ClassesOf(c),
         ClassesOf(c)[i] \in MessageClasses
  PROVE  InPool(ClassesOf(c)[i])
<1>1. CASE c.op = "register_all"
  <2>1. ClassesOf(c) = LoadedMessageClasses
    BY <1>1 DEF ClassesOf
  <2>2. ClassesOf(c)[i] \in {d \in MessageClasses : InPool(d)}
    BY <2>1, LoadedAreInPool
  <2> QED BY <2>2
<1>2. CASE c.op # "register_all"
  BY <1>2 DEF ClassesOf, OnePool
<1> QED BY <1>1, <1>2

\* The class at hand is one of those of the call.
LEMMA ClassAtHand ==
  ASSUME VInv, LeftInv, NEW t \in Threads, pc[t] # "idle", rest[t] # <<>>,
         NEW k \in Nat, Remains(t, k)
  PROVE  /\ asked[t] \in Calls
         /\ k + 1 \in DOMAIN ClassesOf(asked[t])
         /\ Class(t) = ClassesOf(asked[t])[k + 1]
<1>1. asked[t] \in Calls
  BY DEF VInv, RubyTypes, ThreadInv, InHand
<1>2. rest[t] \in Seq(Classes)
  BY DEF LeftInv
<1>3. Len(rest[t]) \in Nat \ {0} /\ Class(t) = rest[t][1]
  BY <1>2 DEF Class
<1> QED BY <1>1, <1>3, CallClasses DEF Remains

LEMMA ClassInPool ==
  ASSUME OnePool, VInv, LeftInv, NEW t \in Threads, Serves(t), pc[t] # "idle",
         rest[t] # <<>>, Class(t) \in MessageClasses
  PROVE  InPool(Class(t)) /\ File(t) \in Files
<1>1. PICK k \in Nat : Remains(t, k)
  BY DEF Serves
<1>2. InPool(Class(t))
  BY <1>1, ClassAtHand, CallInPool
<1> QED BY <1>2, CatalogAssumption, SchemaAssumption DEF File, FileOf

\* The class at hand fails: it decides.
LEMMA FailureExpected ==
  ASSUME VInv, LeftInv, NEW t \in Threads, Serves(t), pc[t] # "idle", rest[t] # <<>>,
         ClassOutcome(Class(t), SkipsUnknown(t)) # "ok"
  PROVE  ClassOutcome(Class(t), SkipsUnknown(t)) \in Expected[asked[t]]
<1> DEFINE cs == ClassesOf(asked[t])
           result(i) == ClassOutcome(cs[i], asked[t].op = "register_all")
           failing == {i \in DOMAIN cs : result(i) # "ok"}
           first == CHOOSE i \in failing : \A j \in failing : i <= j
<1>1. PICK k \in Nat : Remains(t, k)
  BY DEF Serves
<1>2. asked[t] \in Calls /\ k + 1 \in DOMAIN cs /\ Class(t) = cs[k + 1]
  BY <1>1, ClassAtHand
<1>3. DOMAIN cs = 1 .. Len(cs) /\ Len(cs) \in Nat
  BY <1>2, CallClasses
<1>4. result(k + 1) # "ok" /\ result(k + 1) = ClassOutcome(Class(t), SkipsUnknown(t))
  BY <1>2 DEF SkipsUnknown
<1>5. \A i \in 1 .. k : result(i) = "ok"
  BY <1>1 DEF Remains, SkipsUnknown
<1>6. Expected[asked[t]] =
        CASE failing # {} -> {result(first)}
          [] failing = {} /\ asked[t].op = "validate" ->
               EvaluationOutcomes(asked[t].payload)
          [] failing = {} /\ asked[t].op # "validate" -> {"ok"}
  BY <1>2 DEF Expected
<1> HIDE DEF cs, result
<1>7. k + 1 \in failing /\ \A j \in failing : k + 1 <= j
  BY <1>2, <1>3, <1>4, <1>5
<1>8. first = k + 1
  <2>1. \A i \in failing : (\A j \in failing : i <= j) => i = k + 1
    BY <1>3, <1>7
  <2> QED BY <1>7, <2>1
<1> HIDE DEF first
<1> QED BY <1>4, <1>6, <1>7, <1>8

\* All classes are resolved: what is left is the evaluation, if any.
LEMMA SuccessExpected ==
  ASSUME VInv, LeftInv, NEW t \in Threads, Serves(t), pc[t] # "idle",
         \/ rest[t] = <<>>
         \/ /\ rest[t] # <<>> /\ asked[t].op = "validate"
            /\ ClassOutcome(Class(t), SkipsUnknown(t)) = "ok"
  PROVE  /\ asked[t] \in Calls
         /\ rest[t] = <<>> => asked[t].op # "validate"
         /\ Expected[asked[t]] = IF asked[t].op = "validate"
                                 THEN EvaluationOutcomes(asked[t].payload) ELSE {"ok"}
<1> DEFINE cs == ClassesOf(asked[t])
           result(i) == ClassOutcome(cs[i], asked[t].op = "register_all")
           failing == {i \in DOMAIN cs : result(i) # "ok"}
           first == CHOOSE i \in failing : \A j \in failing : i <= j
<1>1. PICK k \in Nat : Remains(t, k)
  BY DEF Serves
<1>2. asked[t] \in Calls
  BY DEF VInv, RubyTypes, ThreadInv, InHand
<1>3. /\ DOMAIN cs = 1 .. Len(cs) /\ Len(cs) \in Nat
      /\ asked[t].op = "validate" => Len(cs) = 1
  BY <1>2, CallClasses
<1>4. \A i \in 1 .. k : result(i) = "ok"
  BY <1>1 DEF Remains, SkipsUnknown
<1>5. Expected[asked[t]] =
        CASE failing # {} -> {result(first)}
          [] failing = {} /\ asked[t].op = "validate" ->
               EvaluationOutcomes(asked[t].payload)
          [] failing = {} /\ asked[t].op # "validate" -> {"ok"}
  BY <1>2 DEF Expected
<1>6. CASE rest[t] = <<>>
  <2>1. k = Len(cs) /\ (asked[t].op = "validate" => k = 0)
    BY <1>1, <1>3, <1>6 DEF Remains
  <2> HIDE DEF result, cs
  <2>2. failing = {}
    BY <1>3, <1>4, <2>1
  <2> HIDE DEF failing, first
  <2>3. asked[t].op # "validate"
    BY <1>3, <2>1
  <2> QED BY <1>2, <1>5, <2>2, <2>3
<1>7. CASE /\ rest[t] # <<>> /\ asked[t].op = "validate"
           /\ ClassOutcome(Class(t), SkipsUnknown(t)) = "ok"
  <2>1. k = 0 /\ Class(t) = cs[1]
    BY <1>1, <1>7, ClassAtHand DEF Remains
  <2>2. result(1) = "ok"
    BY <1>7, <2>1 DEF SkipsUnknown
  <2> HIDE DEF result, cs
  <2>3. failing = {}
    BY <1>3, <1>7, <2>2
  <2> HIDE DEF failing, first
  <2> QED BY <1>2, <1>5, <1>7, <2>3
<1> QED BY <1>6, <1>7

-----------------------------------------------------------------------------
(* Steps and the threads that do not take them.                            *)

LEMMA OthersServe ==
  ASSUME NEW u \in Threads, Serves(u), Untouched(u), message'[u] = message[u],
         registered \subseteq registered'
  PROVE  Serves(u)'
<1> USE DEF Serves, Untouched
<1>1. /\ Class(u)' = Class(u) /\ NameOfClass(u)' = NameOfClass(u)
      /\ File(u)' = File(u) /\ KnownOf(u)' = KnownOf(u)
      /\ SkipsUnknown(u)' = SkipsUnknown(u)
  BY DEF Class, NameOfClass, File, KnownOf, SkipsUnknown
<1>2. \A k \in Nat : Remains(u, k) => Remains(u, k)'
  BY <1>1 DEF Remains
<1>3. FramesNeeded(u)'
  BY <1>1 DEF FramesNeeded
<1>4. FileUnderWay(u) => FileUnderWay(u)'
  BY <1>1 DEF FileUnderWay
<1>5. Registration(u)'
  BY <1>1 DEF Registration
<1>6. Evaluation(u)'
  BY DEF Evaluation
<1> QED BY <1>1, <1>2, <1>3, <1>4, <1>5, <1>6

\* A step of t keeps ServeInv if it does so for t itself and for what is shared.
LEMMA ServesOfOne ==
  ASSUME ServeInv, NEW t \in Threads, Serves(t)', PoolServed',
         registered \subseteq registered',
         \A u \in Threads \ {t} : Untouched(u) /\ message'[u] = message[u]
  PROVE  ServeInv'
  BY OthersServe DEF ServeInv

\* t's call ends as the schema says, interrupted, or not at all.
Answers(t) ==
  \/ UNCHANGED <<asked, outcome>>
  \/ \E o \in Expected[asked[t]] \cup {"interrupted"} : Finish(t, o)

\* A call that ends has nothing in hand.
LEMMA ServeByFinish ==
  ASSUME VInv, ServeInv, NEW t \in Threads, NEW o, HasGVL(t), Finish(t, o),
         UNCHANGED <<built, at, arg, message, types, registered>>,
         ret' \in {ret, [ret EXCEPT ![t] = "none"]}
  PROVE  ServeInv'
<1> USE DEF Finish, Goto, VInv, RubyTypes, EngineInv, EngineTypeOK
<1>1. pc'[t] = "idle" /\ frames'[t] = <<>> /\ at'[t] = "ruby"
  BY DEF HasGVL
<1>2. \A u \in Threads \ {t} : Untouched(u) /\ message'[u] = message[u]
  BY DEF Untouched
<1>3. PoolServed'
  BY DEF ServeInv, PoolServed
<1>4. Serves(t)'
  BY <1>1 DEF Serves, FramesNeeded, Registration, Evaluation
<1> HIDE DEF VInv
<1> QED BY <1>2, <1>3, <1>4, ServesOfOne

\* The class at hand is resolved, and rightly so.
LEMMA ServeByResolved ==
  ASSUME VInv, LeftInv, ServeInv, NEW t \in Threads, HasGVL(t), Resolved(t),
         pc[t] # "idle", rest[t] # <<>>,
         ClassOutcome(Class(t), SkipsUnknown(t)) = "ok",
         UNCHANGED <<built, at, arg, message, registered>>,
         ret' \in {ret, [ret EXCEPT ![t] = "none"]},
         PoolServed'
  PROVE  ServeInv'
<1>1. PICK k \in Nat : Remains(t, k)
  BY DEF ServeInv, Serves
<1>2. rest[t] \in Seq(Classes) /\ rest \in [Threads -> Seq(Classes)]
  BY DEF LeftInv
<1>3. /\ frames'[t] = <<>> /\ at'[t] = "ruby" /\ UNCHANGED asked
      /\ \/ pc'[t] = "validate" /\ asked[t].op = "validate" /\ rest'[t] = rest[t]
         \/ pc'[t] = "resolve" /\ asked[t].op # "validate" /\ rest'[t] = Tail(rest[t])
  BY <1>2 DEF Resolved, Goto, HasGVL, VInv, RubyTypes
<1>4. \A u \in Threads \ {t} : Untouched(u) /\ message'[u] = message[u]
  BY <1>2 DEF Resolved, Goto, VInv, RubyTypes, EngineInv, EngineTypeOK, Untouched
<1>5. \E j \in Nat : Remains(t, j)'
  <2>1. CASE rest'[t] = rest[t]
    BY <1>1, <1>3, <2>1 DEF Remains, SkipsUnknown
  <2>2. CASE rest'[t] = Tail(rest[t]) /\ asked[t].op # "validate"
    <3> DEFINE cs == ClassesOf(asked[t])
    <3>1. /\ Len(rest[t]) \in Nat \ {0} /\ Len(Tail(rest[t])) = Len(rest[t]) - 1
          /\ \A i \in 1 .. Len(rest[t]) - 1 : Tail(rest[t])[i] = rest[t][i + 1]
      BY <1>2
    <3>2. Class(t) = cs[k + 1] /\ Len(cs) \in Nat /\ k + 1 \in 1 .. Len(cs)
      BY <1>1, ClassAtHand, CallClasses
    <3> HIDE DEF cs
    <3>3. /\ k + 1 \in 0 .. Len(cs) /\ Len(Tail(rest[t])) = Len(cs) - (k + 1)
          /\ \A i \in 1 .. Len(Tail(rest[t])) : Tail(rest[t])[i] = cs[k + 1 + i]
      <4>1. /\ Len(rest[t]) = Len(cs) - k
            /\ \A i \in 1 .. Len(rest[t]) : rest[t][i] = cs[k + i]
        BY <1>1 DEF Remains, cs
      <4>2. \A i \in 1 .. Len(rest[t]) - 1 :
              i + 1 \in 1 .. Len(rest[t]) /\ k + (i + 1) = k + 1 + i
        BY <3>1
      <4> QED BY <3>1, <3>2, <4>1, <4>2
    <3>4. \A i \in 1 .. k + 1 : ClassOutcome(cs[i], SkipsUnknown(t)) = "ok"
      BY <1>1, <3>2 DEF Remains, cs
    <3>5. Remains(t, k + 1)'
      BY <1>3, <2>2, <3>3, <3>4 DEF Remains, SkipsUnknown, cs
    <3> QED BY <3>5
  <2> QED BY <1>3, <2>1, <2>2
<1>6. Serves(t)'
  BY <1>3, <1>5 DEF Serves, FramesNeeded, Registration, Evaluation
<1> QED BY <1>4, <1>6, ServesOfOne

\* t goes on to another place, with the same classes and files to go through.
LEMMA ServeByGoing ==
  ASSUME VInv, ServeInv, NEW t \in Threads, NEW place, Goto(t, place), pc[t] # "idle",
         UNCHANGED <<asked, rest, frames, built, types, registered>>,
         \A u \in Threads \ {t} :
           /\ at'[u] = at[u] /\ arg'[u] = arg[u] /\ ret'[u] = ret[u]
           /\ message'[u] = message[u] /\ snapshot'[u] = snapshot[u],
         place = "validated" => asked[t].op = "validate",
         place \in {"files", "added"} => FileUnderWay(t),
         place \in {"known", "compiled", "publish"} => NameOf[File(t)] \in registered,
         Registration(t)', Evaluation(t)'
  PROVE  ServeInv'
<1>1. pc'[t] = place /\ \A u \in Threads \ {t} : pc'[u] = pc[u]
  BY DEF Goto, VInv, RubyTypes
<1>2. \A u \in Threads \ {t} : Untouched(u) /\ message'[u] = message[u]
  BY <1>1 DEF Untouched
<1>3. PoolServed'
  BY DEF ServeInv, PoolServed
<1>4. /\ Class(t)' = Class(t) /\ File(t)' = File(t)
      /\ SkipsUnknown(t)' = SkipsUnknown(t)
  BY DEF Class, File, SkipsUnknown
<1>5. \E k \in Nat : Remains(t, k)'
  BY <1>4 DEF ServeInv, Serves, Remains
<1>6. FramesNeeded(t)' /\ (FileUnderWay(t) => FileUnderWay(t)')
  BY <1>4 DEF ServeInv, Serves, FramesNeeded, FileUnderWay
<1>7. Serves(t)'
  BY <1>1, <1>4, <1>5, <1>6 DEF Serves
<1> QED BY <1>2, <1>3, <1>7, ServesOfOne

-----------------------------------------------------------------------------
(* The steps of Ruby code.                                                 *)

LEMMA CallServes ==
  ASSUME VInv, LeftInv, ServeInv, NEW t \in Threads, Call(t)
  PROVE  ServeInv'
<1>1. PICK c \in Calls : /\ asked' = [asked EXCEPT ![t] = c]
                         /\ rest' = [rest EXCEPT ![t] = ClassesOf(c)]
  BY DEF Call
<1>2. /\ At(t, "idle") /\ Goto(t, "resolve")
      /\ UNCHANGED <<built, at, arg, ret, message, types, registered, frames, snapshot>>
  BY DEF Call, engineVars, pool, call, rubyShared
<1>3. /\ pc'[t] = "resolve" /\ at'[t] = "ruby" /\ frames'[t] = <<>>
      /\ asked'[t] = c /\ rest'[t] = ClassesOf(c)
  BY <1>1, <1>2, AtPlace DEF Goto, RubyTypes, ThreadInv, InHand
<1>4. \A u \in Threads \ {t} : Untouched(u) /\ message'[u] = message[u]
  BY <1>1, <1>2 DEF Goto, VInv, RubyTypes, Untouched
<1>5. PoolServed'
  BY <1>2 DEF ServeInv, PoolServed
<1>6. Remains(t, 0)'
  <2>1. Len(ClassesOf(c)) \in Nat
    BY CallClasses
  <2> DEFINE cs == ClassesOf(c)
  <2> HIDE DEF cs
  <2>2. /\ 0 \in 0 .. Len(cs) /\ Len(cs) = Len(cs) - 0
        /\ \A i \in 1 .. Len(cs) : cs[i] = cs[0 + i]
    BY <2>1 DEF cs
  <2> QED BY <1>3, <2>2 DEF Remains, cs
<1>7. Serves(t)'
  BY <1>3, <1>6 DEF Serves, FramesNeeded, Registration, Evaluation
<1> QED BY <1>2, <1>4, <1>5, <1>7, ServesOfOne

LEMMA AllRegisteredServes ==
  ASSUME VInv, LeftInv, ServeInv, NEW t \in Threads, AllRegistered(t)
  PROVE  ServeInv' /\ Answers(t)
<1>1. /\ At(t, "resolve") /\ rest[t] = <<>> /\ Finish(t, "ok")
      /\ UNCHANGED <<built, at, arg, ret, message, types, registered>>
  BY DEF AllRegistered, engineVars, pool, call
<1>2. Expected[asked[t]] = {"ok"}
  BY <1>1, SuccessExpected DEF At, ServeInv
<1> QED BY <1>1, <1>2, ServeByFinish DEF Answers, At

LEMMA FastPathServes ==
  ASSUME VInv, LeftInv, ServeInv, NEW t \in Threads, FastPath(t)
  PROVE  ServeInv' /\ Answers(t)
<1>1. /\ At(t, "resolve") /\ rest[t] # <<>> /\ Class(t) \in types /\ Resolved(t)
      /\ UNCHANGED <<built, at, arg, ret, message, types, registered>>
  BY DEF FastPath, engineVars, pool, call
<1>2. ClassOutcome(Class(t), SkipsUnknown(t)) = "ok" /\ PoolServed'
  BY <1>1 DEF ServeInv, PoolServed, SkipsUnknown
<1>3. Answers(t)
  BY <1>1 DEF Resolved, Answers
<1> QED BY <1>1, <1>2, <1>3, ServeByResolved DEF At

LEMMA SlowPathServes ==
  ASSUME VInv, LeftInv, ServeInv, NEW t \in Threads, SlowPath(t)
  PROVE  ServeInv' /\ Answers(t)
<1>1. /\ At(t, "resolve") /\ rest[t] # <<>>
      /\ UNCHANGED <<built, at, arg, ret, message, types, registered>>
  BY DEF SlowPath, engineVars, pool, call
<1>2. CASE Class(t) \notin MessageClasses /\ Finish(t, "type_error")
  <2>1. ClassOutcome(Class(t), SkipsUnknown(t)) = "type_error"
    BY <1>2 DEF ClassOutcome
  <2>2. "type_error" \in Expected[asked[t]]
    BY <1>1, <2>1, FailureExpected DEF At, ServeInv
  <2> QED BY <1>1, <1>2, <2>2, ServeByFinish DEF Answers, At
<1>3. CASE /\ Goto(t, "acquire")
           /\ UNCHANGED <<asked, rest, frames, snapshot, outcome>>
  <2>1. pc'[t] = "acquire" /\ at'[t] = "ruby"
    BY <1>1, <1>3, AtPlace DEF Goto, RubyTypes
  <2>2. Registration(t)' /\ Evaluation(t)'
    BY <2>1 DEF Registration, Evaluation
  <2> QED BY <1>1, <1>3, <2>2, ServeByGoing DEF Answers, At
<1> QED BY <1>2, <1>3 DEF SlowPath

LEMMA AcquireServes ==
  ASSUME VInv, LeftInv, ServeInv, NEW t \in Threads, Acquire(t)
  PROVE  ServeInv' /\ Answers(t)
<1>1. /\ At(t, "acquire") /\ Goto(t, "recheck")
      /\ UNCHANGED <<built, at, arg, ret, message, types, registered>>
      /\ UNCHANGED <<asked, rest, frames, snapshot, outcome>>
  BY DEF Acquire, engineVars, pool, call
<1>2. pc'[t] = "recheck" /\ at'[t] = "ruby"
  BY <1>1, AtPlace DEF Goto, RubyTypes
<1>3. Registration(t)' /\ Evaluation(t)'
  BY <1>2 DEF Registration, Evaluation
<1> QED BY <1>1, <1>3, ServeByGoing DEF Answers, At

\* register_file begins with the file of the class, which is that of the pool.
LEMMA RecheckServes ==
  ASSUME OnePool, VInv, LeftInv, ServeInv, NEW t \in Threads, Recheck(t)
  PROVE  ServeInv' /\ Answers(t)
<1>1. /\ At(t, "recheck") /\ rest[t] # <<>>
      /\ UNCHANGED <<built, at, arg, ret, message, types, registered>>
  BY DEF Recheck, At, LeftInv, Left, Resolving, Synchronized, engineVars, pool, call
<1>2. Answers(t)
  BY DEF Recheck, Resolved, Answers
<1>3. CASE Class(t) \in types
  <2>1. ClassOutcome(Class(t), SkipsUnknown(t)) = "ok" /\ PoolServed'
    BY <1>1, <1>3 DEF ServeInv, PoolServed, SkipsUnknown
  <2>2. Resolved(t)
    BY <1>3 DEF Recheck
  <2> QED BY <1>1, <1>2, <2>1, <2>2, ServeByResolved DEF At
<1>4. CASE Class(t) \notin types
  <2> DEFINE f == File(t)
             a == [file |-> f, imports |-> Imports[f]]
  <2>1. /\ Goto(t, "files") /\ UNCHANGED <<asked, rest, snapshot>>
        /\ frames' = [frames EXCEPT ![t] = IF NameOf[f] \in registered THEN <<>> ELSE <<a>>]
    BY <1>4 DEF Recheck, File
  <2>2. /\ pc'[t] = "files" /\ at'[t] = "ruby"
        /\ frames'[t] = IF NameOf[f] \in registered THEN <<>> ELSE <<a>>
    BY <1>1, <2>1, AtPlace DEF Goto, RubyTypes
  <2>3. InPool(Class(t)) /\ f \in Files
    BY <1>1, AtPlace, ClassInPool DEF At, ServeInv, ThreadInv, InHand, Synchronized
  <2>4. Pool[NameOf[f]] = f /\ f \in Needs[f]
    BY <2>3, NeedsLeast DEF InPool, File, Closing
  <2>5. Class(t)' = Class(t) /\ File(t)' = f /\ SkipsUnknown(t)' = SkipsUnknown(t)
    BY <2>1 DEF Class, File, SkipsUnknown
  <2> HIDE DEF f
  <2>6. FramesNeeded(t)' /\ FileUnderWay(t)'
    <3>1. CASE frames'[t] = <<>> /\ NameOf[f] \in registered
      BY <1>1, <2>5, <3>1 DEF FramesNeeded, FileUnderWay
    <3>2. CASE frames'[t] = <<a>>
      <4>1. Len(frames'[t]) = 1 /\ frames'[t][1].file = f /\ frames'[t][1].imports = Imports[f]
        BY <3>2
      <4> QED BY <2>4, <2>5, <4>1 DEF FramesNeeded, FileUnderWay, ImportNames
    <3> QED BY <2>2, <3>1, <3>2
  <2>7. \E k \in Nat : Remains(t, k)'
    BY <1>1, <2>1, <2>5 DEF At, ServeInv, Serves, Remains
  <2>8. Serves(t)'
    BY <2>2, <2>6, <2>7 DEF Serves, Registration, Evaluation
  <2>9. \A u \in Threads \ {t} : Untouched(u) /\ message'[u] = message[u]
    BY <1>1, <2>1 DEF Goto, VInv, RubyTypes, Untouched
  <2>10. PoolServed'
    BY <1>1 DEF ServeInv, PoolServed
  <2> QED BY <1>1, <1>2, <2>8, <2>9, <2>10, ServesOfOne
<1> QED BY <1>3, <1>4

LEMMA EnterFrame ==
  ASSUME VInv, NEW t \in Threads, NEW place, NEW a, Enter(t, place, a)
  PROVE  /\ at'[t] = place /\ arg'[t] = a /\ ret'[t] = "none"
         /\ \A u \in Threads \ {t} :
              at'[u] = at[u] /\ arg'[u] = arg[u] /\ ret'[u] = ret[u]
  BY DEF Enter, VInv, EngineInv, EngineTypeOK, ArgOK

LEMMA AddServes ==
  ASSUME VInv, LeftInv, ServeInv, NEW t \in Threads, Add(t)
  PROVE  ServeInv' /\ Answers(t)
<1>1. /\ pc[t] = "files" /\ Goto(t, "added") /\ Enter(t, "add_file", Top(t).file)
      /\ UNCHANGED <<built, message, types, registered>>
      /\ UNCHANGED <<asked, rest, frames, snapshot, outcome>>
  BY DEF Add, At, CallAddFile, pool, rubyShared
<1>2. pc'[t] = "added" /\ at'[t] = "add_file"
  BY <1>1, EnterFrame DEF Goto, VInv, RubyTypes
<1>3. Registration(t)' /\ Evaluation(t)'
  BY <1>2 DEF Registration, Evaluation
<1>4. FileUnderWay(t)
  BY <1>1 DEF ServeInv, Serves
<1> QED BY <1>1, <1>3, <1>4, EnterFrame, ServeByGoing DEF Answers

\* With all its files gone through, the class's own is registered.
LEMMA FilesAreIn ==
  ASSUME NEW t \in Threads, Serves(t), pc[t] = "files", frames[t] = <<>>
  PROVE  NameOf[File(t)] \in registered
<1>1. ~ \E i \in 1 .. Len(frames[t]) : frames[t][i].file = File(t)
  OBVIOUS
<1> QED BY <1>1 DEF Serves, FileUnderWay

LEMMA AskKnownServes ==
  ASSUME VInv, LeftInv, ServeInv, NEW t \in Threads, AskKnown(t)
  PROVE  ServeInv' /\ Answers(t)
<1>1. /\ pc[t] = "files" /\ frames[t] = <<>>
      /\ Goto(t, "known") /\ Enter(t, "message_type", NameOfClass(t))
      /\ UNCHANGED <<built, message, types, registered>>
      /\ UNCHANGED <<asked, rest, frames, snapshot, outcome>>
  BY DEF AskKnown, At, CallMessageType, pool, rubyShared
<1>2. pc'[t] = "known" /\ at'[t] = "message_type" /\ arg'[t] = NameOfClass(t)'
  BY <1>1, EnterFrame DEF Goto, VInv, RubyTypes, NameOfClass, Class
<1>3. Registration(t)' /\ Evaluation(t)'
  BY <1>2 DEF Registration, Evaluation
<1>4. NameOf[File(t)] \in registered
  BY <1>1, FilesAreIn DEF ServeInv
<1> QED BY <1>1, <1>3, <1>4, EnterFrame, ServeByGoing DEF Answers

LEMMA CompileTypeServes ==
  ASSUME VInv, LeftInv, ServeInv, NEW t \in Threads, CompileType(t)
  PROVE  ServeInv' /\ Answers(t)
<1>1. /\ pc[t] \in {"files", "known"} /\ at[t] = "ruby"
      /\ Goto(t, "compiled") /\ Enter(t, "compile", NameOfClass(t))
      /\ UNCHANGED <<built, message, types, registered>>
      /\ UNCHANGED <<asked, rest, frames, snapshot, outcome>>
  BY DEF CompileType, At, HasGVL, CallCompile, pool, rubyShared
<1>2. pc'[t] = "compiled" /\ at'[t] = "compile"
  BY <1>1, EnterFrame DEF Goto, VInv, RubyTypes
<1>3. Serves(t)
  BY DEF ServeInv
<1>4. NameOf[File(t)] \in registered
  BY <1>3, FilesAreIn DEF CompileType, At, Serves
<1>5. SkipsUnknown(t) => KnownOf(t) # {}
  BY <1>1, <1>3 DEF CompileType, At, Serves, Registration
<1>6. SkipsUnknown(t)' = SkipsUnknown(t) /\ KnownOf(t)' = KnownOf(t)
  BY <1>1 DEF SkipsUnknown, KnownOf, Class
<1>7. Registration(t)' /\ Evaluation(t)'
  BY <1>2, <1>5, <1>6 DEF Registration, Evaluation
<1> QED BY <1>1, <1>4, <1>7, EnterFrame, ServeByGoing DEF Answers

LEMMA ValidateServes ==
  ASSUME VInv, LeftInv, ServeInv, NEW t \in Threads, Validate(t)
  PROVE  ServeInv' /\ Answers(t)
<1>1. /\ At(t, "validate")
      /\ Goto(t, "validated") /\ Enter(t, "validate", NameOfClass(t))
      /\ message' = [message EXCEPT ![t] = asked[t].payload]
      /\ UNCHANGED <<built, types, registered>>
      /\ UNCHANGED <<asked, rest, frames, snapshot, outcome>>
  BY DEF Validate, CallValidate, pool, rubyShared
<1>2. /\ pc'[t] = "validated" /\ at'[t] = "validate"
      /\ message'[t] = asked'[t].payload
      /\ \A u \in Threads \ {t} : message'[u] = message[u]
  BY <1>1, EnterFrame DEF Goto, VInv, RubyTypes, EngineInv, EngineTypeOK
<1>3. Registration(t)' /\ Evaluation(t)'
  BY <1>2 DEF Registration, Evaluation
<1>4. asked[t].op = "validate" /\ pc[t] # "idle"
  BY <1>1, AtPlace DEF ThreadInv, InHand
<1> QED BY <1>1, <1>2, <1>3, <1>4, EnterFrame, ServeByGoing DEF Answers

\* With its own file registered, a class ends as what the engine has of it says.
LEMMA KnownDecides ==
  ASSUME OnePool, VInv, LeftInv, ServeInv, NEW t \in Threads,
         pc[t] \in {"known", "compiled", "publish"}
  PROVE  /\ rest[t] # <<>> /\ Class(t) \in MessageClasses /\ InPool(Class(t))
         /\ NameOf[File(t)] \in registered
         /\ \A skip \in BOOLEAN :
              ClassOutcome(Class(t), skip) =
                IF KnownOf(t) = {} THEN IF skip THEN "ok" ELSE "argument_error"
                ELSE IF Compiles(KnownOf(t)) THEN "ok" ELSE "compilation_error"
<1>1. rest[t] # <<>> /\ Class(t) \in MessageClasses
  BY DEF LeftInv, Left, Resolving, Synchronized, VInv, ThreadInv, InHand
<1>2. Serves(t) /\ PoolServed /\ NameOf[File(t)] \in registered
  BY DEF ServeInv, Serves
<1>3. InPool(Class(t))
  BY <1>1, <1>2, ClassInPool
<1>4. FileOk(File(t))
  BY <1>2, <1>3, RegisteredFilesOk DEF InPool, File
<1>5. \A skip \in BOOLEAN :
        ClassOutcome(Class(t), skip) =
          IF KnownOf(t) = {} THEN IF skip THEN "ok" ELSE "argument_error"
          ELSE IF Compiles(KnownOf(t)) THEN "ok" ELSE "compilation_error"
  BY <1>1, <1>4 DEF ClassOutcome, KnownOf, Compiles, File
<1> QED BY <1>1, <1>2, <1>3, <1>5

LEMMA SkipUnknownServes ==
  ASSUME OnePool, VInv, LeftInv, ServeInv, NEW t \in Threads, SkipUnknown(t)
  PROVE  ServeInv' /\ Answers(t)
<1>1. /\ At(t, "known") /\ ret[t] = "no" /\ Resolved(t)
      /\ ret' = [ret EXCEPT ![t] = "none"]
      /\ UNCHANGED <<built, at, arg, message, types, registered>>
  BY DEF SkipUnknown, Discard, pool
<1>2. KnownOf(t) = {} /\ SkipsUnknown(t) = TRUE
  BY <1>1, AtPlace DEF ServeInv, Serves, Registration, ThreadInv, InHand, SkipsUnknown
<1>3. ClassOutcome(Class(t), SkipsUnknown(t)) = "ok" /\ rest[t] # <<>>
  BY <1>1, <1>2, AtPlace, KnownDecides
<1>4. PoolServed' /\ Answers(t)
  BY <1>1 DEF ServeInv, PoolServed, Resolved, Answers
<1> QED BY <1>1, <1>3, <1>4, ServeByResolved DEF At

LEMMA DupServes ==
  ASSUME OnePool, VInv, LeftInv, ServeInv, NEW t \in Threads, Dup(t)
  PROVE  ServeInv' /\ Answers(t)
<1>1. /\ At(t, "compiled") /\ ret' = [ret EXCEPT ![t] = "none"]
      /\ UNCHANGED <<built, at, arg, message, types, registered>>
  BY DEF Dup, Discard, pool
<1>2. /\ ret[t] = IF KnownOf(t) = {} THEN "argument"
                  ELSE IF Compiles(KnownOf(t)) THEN "ok" ELSE "compilation"
      /\ SkipsUnknown(t) => KnownOf(t) # {}
      /\ SkipsUnknown(t) \in BOOLEAN
  BY <1>1, AtPlace DEF ServeInv, Serves, Registration, SkipsUnknown
<1>3. /\ rest[t] # <<>> /\ NameOf[File(t)] \in registered
      /\ ClassOutcome(Class(t), SkipsUnknown(t)) =
           IF KnownOf(t) = {} THEN IF SkipsUnknown(t) THEN "ok" ELSE "argument_error"
           ELSE IF Compiles(KnownOf(t)) THEN "ok" ELSE "compilation_error"
  BY <1>1, <1>2, AtPlace, KnownDecides
<1>4. CASE ret[t] \in DOMAIN ErrorOf /\ Finish(t, ErrorOf[ret[t]])
  <2>1. ret[t] # "ok"
    BY <1>4 DEF ErrorOf
  <2>2. ErrorOf[ret[t]] = ClassOutcome(Class(t), SkipsUnknown(t)) /\ ErrorOf[ret[t]] # "ok"
    BY <1>2, <1>3, <2>1 DEF ErrorOf
  <2>3. ErrorOf[ret[t]] \in Expected[asked[t]]
    BY <1>1, <1>3, <2>2, FailureExpected DEF At, ServeInv
  <2> QED BY <1>1, <1>4, <2>3, ServeByFinish DEF Answers, At
<1>5. CASE /\ ret[t] = "ok" /\ snapshot' = [snapshot EXCEPT ![t] = types]
           /\ Goto(t, "publish") /\ UNCHANGED <<asked, rest, frames, outcome>>
  <2>1. pc'[t] = "publish" /\ at'[t] = "ruby"
    BY <1>1, <1>5, AtPlace DEF Goto, RubyTypes
  <2>2. Compiles(KnownOf(t)) /\ KnownOf(t)' = KnownOf(t)
    BY <1>2, <1>5 DEF KnownOf, Class
  <2>3. Registration(t)' /\ Evaluation(t)'
    BY <2>1, <2>2 DEF Registration, Evaluation, Compiles
  <2>4. \A u \in Threads \ {t} :
          /\ at'[u] = at[u] /\ arg'[u] = arg[u] /\ ret'[u] = ret[u]
          /\ message'[u] = message[u] /\ snapshot'[u] = snapshot[u]
    BY <1>1, <1>5 DEF VInv, EngineInv, EngineTypeOK, RubyTypes
  <2> QED BY <1>1, <1>3, <1>5, <2>3, <2>4, ServeByGoing DEF Answers, At
<1> QED BY <1>4, <1>5 DEF Dup

\* What is published may be: the engine has the class, and its rules compile.
LEMMA PublishServes ==
  ASSUME OnePool, VInv, LeftInv, ServeInv, NEW t \in Threads, Publish(t)
  PROVE  ServeInv' /\ Answers(t)
<1>1. /\ At(t, "publish") /\ Resolved(t) /\ types' = snapshot[t] \cup {Class(t)}
      /\ UNCHANGED <<built, at, arg, ret, message, registered>>
  BY DEF Publish, engineVars, pool, call
<1>2. snapshot[t] = types /\ Compiles(KnownOf(t))
  BY <1>1, AtPlace DEF ThreadInv, InHand, ServeInv, Serves, Registration
<1>3. /\ rest[t] # <<>> /\ NameOf[File(t)] \in registered
      /\ \A skip \in BOOLEAN : ClassOutcome(Class(t), skip) = "ok"
  BY <1>1, <1>2, AtPlace, KnownDecides DEF Compiles
<1>4. PoolServed'
  BY <1>1, <1>2, <1>3 DEF ServeInv, PoolServed, File
<1>5. Answers(t) /\ SkipsUnknown(t) \in BOOLEAN
  BY <1>1 DEF Resolved, Answers, SkipsUnknown
<1> QED BY <1>1, <1>3, <1>4, <1>5, ServeByResolved DEF At

LEMMA ValidatedServes ==
  ASSUME VInv, LeftInv, ServeInv, NEW t \in Threads, Validated(t)
  PROVE  ServeInv' /\ Answers(t)
<1>1. /\ At(t, "validated") /\ Finish(t, AsOutcome(ret[t]))
      /\ ret' = [ret EXCEPT ![t] = "none"]
      /\ UNCHANGED <<built, at, arg, message, types, registered>>
  BY DEF Validated, AsOutcome, Discard, pool
<1>2. /\ Serves(t) /\ PoolServed /\ pc[t] # "idle" /\ Class(t) \in types
      /\ asked[t].op = "validate"
      /\ AsOutcome(ret[t]) \in EvaluationOutcomes(asked[t].payload)
  BY <1>1, AtPlace DEF ThreadInv, InHand, ServeInv, Serves, Evaluation
<1>3. rest[t] # <<>>
  BY <1>2, SuccessExpected
<1>4. ClassOutcome(Class(t), SkipsUnknown(t)) = "ok"
  BY <1>2 DEF PoolServed, SkipsUnknown
<1>5. AsOutcome(ret[t]) \in Expected[asked[t]]
  BY <1>2, <1>3, <1>4, SuccessExpected
<1> QED BY <1>1, <1>5, ServeByFinish DEF Answers, At

LEMMA InterruptServes ==
  ASSUME VInv, LeftInv, ServeInv, NEW t \in Threads, Interrupt(t)
  PROVE  ServeInv' /\ Answers(t)
<1>1. /\ HasGVL(t) /\ Finish(t, "interrupted")
      /\ ret' = [ret EXCEPT ![t] = "none"]
      /\ UNCHANGED <<built, at, arg, message, types, registered>>
  BY DEF Interrupt, Discard, pool
<1> QED BY <1>1, ServeByFinish DEF Answers

\* The files below the one on top: those the class still needs, one place up.
LEMMA AddedServes ==
  ASSUME VInv, LeftInv, ServeInv, NEW t \in Threads, Added(t)
  PROVE  ServeInv' /\ Answers(t)
<1> DEFINE s == frames[t]
<1>1. /\ At(t, "added") /\ s # <<>> /\ s \in Seq(Activations) /\ Top(t).imports = <<>>
      /\ ret' = [ret EXCEPT ![t] = "none"]
      /\ UNCHANGED <<built, at, arg, message, types>>
      /\ Serves(t) /\ PoolServed /\ rest[t] # <<>>
  BY DEF Added, At, Discard, pool, VInv, RubyTypes, ThreadInv, InHand, ServeInv,
         LeftInv, Left, Resolving, Synchronized
<1>2. CASE ret[t] = "argument" /\ Finish(t, "argument_error") /\ UNCHANGED registered
  <2>1. Class(t) \in MessageClasses /\ ~FileOk(File(t))
    BY <1>1, <1>2, AtPlace DEF Serves, Registration, ThreadInv, InHand, Synchronized
  <2>2. ClassOutcome(Class(t), SkipsUnknown(t)) = "argument_error"
    BY <2>1 DEF ClassOutcome, File
  <2>3. "argument_error" \in Expected[asked[t]]
    BY <1>1, <2>2, FailureExpected DEF At
  <2> QED BY <1>1, <1>2, <2>3, ServeByFinish DEF Answers, At
<1>3. CASE /\ registered' = registered \cup {NameOf[Top(t).file]}
           /\ frames' = [frames EXCEPT ![t] = Below(t)]
           /\ Goto(t, "files")
           /\ UNCHANGED <<owner, asked, rest, snapshot, outcome>>
  <2>1. /\ Top(t) = s[1] /\ Top(t) \in Activations /\ Below(t) = Tail(s)
        /\ Len(s) \in Nat \ {0} /\ Len(Tail(s)) = Len(s) - 1
        /\ \A i \in 1 .. Len(s) - 1 : Tail(s)[i] = s[i + 1]
    BY <1>1 DEF Top, Below
  <2>2. /\ pc'[t] = "files" /\ at'[t] = "ruby" /\ frames'[t] = Tail(s)
    BY <1>1, <1>3, <2>1, AtPlace DEF Goto, RubyTypes
  <2>3. /\ Class(t)' = Class(t) /\ File(t)' = File(t) /\ SkipsUnknown(t)' = SkipsUnknown(t)
    BY <1>3 DEF Class, File, SkipsUnknown
  <2>4. PoolServed'
    <3> DEFINE f == Top(t).file
    <3>1. f \in Files /\ Pool[NameOf[f]] = f
      <4>1. 1 \in 1 .. Len(s) /\ f = s[1].file /\ f \in Files
        BY <2>1 DEF Activations
      <4>2. \A i \in 1 .. Len(s) : Pool[NameOf[s[i].file]] = s[i].file
        BY <1>1 DEF Serves, FramesNeeded
      <4> QED BY <4>1, <4>2
    <3>2. ImportNames(f) \subseteq registered
      <4>1. ImportNames(f) \subseteq registered \cup Range(Top(t).imports)
        BY <1>1, <2>1, AtPlace DEF ThreadInv, FramesCover
      <4> QED BY <1>1, <4>1 DEF Range
    <3> HIDE DEF f
    <3>3. Pool[NameOf[f]] # NoFile /\ ImportNames(Pool[NameOf[f]]) \subseteq registered'
      BY <1>3, <3>1, <3>2, CatalogAssumption
    <3>4. registered' = registered \cup {NameOf[f]}
      BY <1>3 DEF f
    <3> QED BY <1>1, <3>3, <3>4 DEF PoolServed
  <2> DEFINE q == Tail(s)
  <2> HIDE DEF q
  <2>5. Len(q) = Len(s) - 1 /\ \A i \in 1 .. Len(q) : i + 1 \in 1 .. Len(s) /\ q[i] = s[i + 1]
    BY <2>1 DEF q
  <2>6. frames'[t] = q
    BY <2>2 DEF q
  <2>7. FramesNeeded(t)'
    BY <1>1, <2>3, <2>5, <2>6 DEF Serves, FramesNeeded
  <2>8. FileUnderWay(t)'
    <3>1. CASE NameOf[File(t)] \in registered
      BY <1>3, <2>3, <3>1 DEF FileUnderWay
    <3>2. CASE NameOf[File(t)] \notin registered
      <4>1. PICK i \in 1 .. Len(s) : s[i].file = File(t)
        BY <1>1, <3>2, AtPlace DEF Serves, FileUnderWay
      <4>2. CASE i = 1
        BY <1>3, <2>1, <2>3, <4>1, <4>2 DEF FileUnderWay
      <4>3. CASE i # 1
        <5>1. i - 1 \in 1 .. Len(q) /\ q[i - 1] = s[i]
          BY <2>1, <2>5, <4>1, <4>3
        <5> QED BY <2>3, <2>6, <4>1, <5>1 DEF FileUnderWay
      <4> QED BY <4>2, <4>3
    <3> QED BY <3>1, <3>2
  <2>9. \E k \in Nat : Remains(t, k)'
    BY <1>1, <1>3, <2>3 DEF At, Serves, Remains
  <2>10. Serves(t)'
    BY <2>2, <2>7, <2>8, <2>9 DEF Serves, Registration, Evaluation
  <2>11. \A u \in Threads \ {t} : Untouched(u) /\ message'[u] = message[u]
    BY <1>1, <1>3 DEF Goto, VInv, EngineInv, EngineTypeOK, RubyTypes, Untouched
  <2>12. registered \subseteq registered' /\ Answers(t)
    BY <1>3 DEF Answers
  <2> QED BY <2>4, <2>10, <2>11, <2>12, ServesOfOne
<1> QED BY <1>2, <1>3 DEF Added

\* The next import is needed: it is in the pool, or the class's file fails.
LEMMA ImportServes ==
  ASSUME OnePool, VInv, LeftInv, ServeInv, NEW t \in Threads, Import(t)
  PROVE  ServeInv' /\ Answers(t)
<1> DEFINE n == Head(Top(t).imports)
           here == [Top(t) EXCEPT !.imports = Tail(@)]
           f == Pool[n]
           a == [file |-> f, imports |-> Imports[f]]
           s == frames[t]
<1>1. /\ At(t, "files") /\ s # <<>> /\ Top(t).imports # <<>>
      /\ UNCHANGED <<built, at, arg, ret, message, types, registered>>
      /\ Serves(t) /\ PoolServed /\ rest[t] # <<>>
  BY DEF Import, At, engineVars, pool, call, ServeInv, LeftInv, Left, Resolving,
         Synchronized
<1>2. /\ s \in Seq(Activations) /\ Top(t) = s[1] /\ Top(t) \in Activations
      /\ Below(t) = Tail(s) /\ Len(s) \in Nat \ {0}
  BY <1>1, AtPlace, HeadTail DEF RubyTypes, Top, Below
<1>3. /\ n \in FileNames /\ here \in Activations /\ here.file = Top(t).file
      /\ Range(Top(t).imports) = {n} \cup Range(here.imports)
  BY <1>1, <1>2, HeadTail DEF Activations
<1>4. /\ Top(t).file \in Needs[File(t)] /\ n \in ImportNames(Top(t).file)
      /\ \A i \in 1 .. Len(s) :
           /\ Pool[NameOf[s[i].file]] = s[i].file
           /\ s[i].file \in Needs[File(t)]
           /\ Range(s[i].imports) \subseteq ImportNames(s[i].file)
  <2>1. \A i \in 1 .. Len(s) :
          /\ Pool[NameOf[s[i].file]] = s[i].file
          /\ s[i].file \in Needs[File(t)]
          /\ Range(s[i].imports) \subseteq ImportNames(s[i].file)
    BY <1>1 DEF Serves, FramesNeeded
  <2>2. 1 \in 1 .. Len(s) /\ Top(t) = s[1]
    BY <1>2
  <2> HIDE DEF n, s
  <2>3. n \in Range(s[1].imports)
    BY <1>3, <2>2
  <2> QED BY <2>1, <2>2, <2>3
<1>5. Class(t) \in MessageClasses /\ File(t) \in Files
  BY <1>1, AtPlace, ClassInPool DEF ThreadInv, InHand, Synchronized
<1>6. CASE f = NoFile /\ Finish(t, "argument_error")
  <2>1. ~FileOk(File(t))
    BY <1>4, <1>6 DEF FileOk
  <2>2. ClassOutcome(Class(t), SkipsUnknown(t)) = "argument_error"
    BY <1>5, <2>1 DEF ClassOutcome, File
  <2>3. "argument_error" \in Expected[asked[t]]
    BY <1>1, <2>2, FailureExpected DEF At
  <2> QED BY <1>1, <1>6, <2>3, ServeByFinish DEF Answers, At
<1>7. CASE /\ f # NoFile
           /\ frames' = [frames EXCEPT ![t] =
                 (IF n \in registered THEN <<>> ELSE <<a>>) \o <<here>> \o Below(t)]
           /\ UNCHANGED <<owner, pc, asked, rest, snapshot, outcome>>
  <2>1. /\ f \in Files /\ NameOf[f] = n /\ a \in Activations
        /\ a.file = f /\ a.imports = Imports[f] /\ Pool[NameOf[f]] = f
    BY <1>3, <1>7, CatalogAssumption, SchemaAssumption DEF Activations
  <2>2. f \in Needs[File(t)]
    BY <1>3, <1>4, <1>5, <1>7, NeedsLeast DEF Closing
  <2> HIDE DEF n, here, f, a
  <2>3. \/ frames' = [frames EXCEPT ![t] = <<>> \o <<here>> \o Tail(s)]
        \/ frames' = [frames EXCEPT ![t] = <<a>> \o <<here>> \o Tail(s)]
    BY <1>2, <1>7
  <2>4. PICK q \in Seq(Activations) :
          /\ frames' = [frames EXCEPT ![t] = q]
          /\ \/ /\ Len(q) = Len(s)
                /\ \A i \in 1 .. Len(s) : q[i] = IF i = 1 THEN here ELSE s[i]
             \/ /\ Len(q) = Len(s) + 1
                /\ \A i \in 1 .. Len(s) + 1 :
                     q[i] = IF i = 1 THEN a ELSE IF i = 2 THEN here ELSE s[i - 1]
    <3>1. /\ <<>> \o <<here>> \o Tail(s) \in Seq(Activations)
          /\ Len(<<>> \o <<here>> \o Tail(s)) = Len(s)
          /\ \A i \in 1 .. Len(s) :
               (<<>> \o <<here>> \o Tail(s))[i] = IF i = 1 THEN here ELSE s[i]
      BY <1>1, <1>2, <1>3, <2>1, Pushed
    <3>2. /\ <<a>> \o <<here>> \o Tail(s) \in Seq(Activations)
          /\ Len(<<a>> \o <<here>> \o Tail(s)) = Len(s) + 1
          /\ \A i \in 1 .. Len(s) + 1 :
               (<<a>> \o <<here>> \o Tail(s))[i] =
                 IF i = 1 THEN a ELSE IF i = 2 THEN here ELSE s[i - 1]
      BY <1>1, <1>2, <1>3, <2>1, Pushed
    <3> QED BY <2>3, <3>1, <3>2
  <2>5. frames'[t] = q /\ pc'[t] = "files" /\ at'[t] = "ruby"
    BY <1>1, <1>7, <2>4, AtPlace DEF RubyTypes
  <2>6. /\ Class(t)' = Class(t) /\ File(t)' = File(t) /\ SkipsUnknown(t)' = SkipsUnknown(t)
    BY <1>7 DEF Class, File, SkipsUnknown
  <2>7. \A i \in 1 .. Len(q) :
          \/ q[i] = a \/ q[i] = here \/ \E j \in 1 .. Len(s) : q[i] = s[j]
    <3>1. \A i \in 1 .. Len(s) + 1 : i # 1 => i - 1 \in 1 .. Len(s)
      BY <1>2
    <3> QED BY <2>4, <3>1
  <2>8. \A i \in 1 .. Len(s) : \E j \in 1 .. Len(q) : q[j].file = s[i].file
    <3>1. here.file = s[1].file /\ 1 \in 1 .. Len(s)
      BY <1>2, <1>3
    <3>2. CASE /\ Len(q) = Len(s)
               /\ \A i \in 1 .. Len(s) : q[i] = IF i = 1 THEN here ELSE s[i]
      BY <3>1, <3>2
    <3>3. CASE /\ Len(q) = Len(s) + 1
               /\ \A i \in 1 .. Len(s) + 1 :
                    q[i] = IF i = 1 THEN a ELSE IF i = 2 THEN here ELSE s[i - 1]
      <4> SUFFICES ASSUME NEW i \in 1 .. Len(s)
                   PROVE  i + 1 \in 1 .. Len(q) /\ q[i + 1].file = s[i].file
        OBVIOUS
      <4>1. i + 1 \in 1 .. Len(s) + 1 /\ i + 1 # 1 /\ (i + 1 = 2 <=> i = 1) /\ (i + 1) - 1 = i
        BY <1>2
      <4> QED BY <3>1, <3>3, <4>1
    <3> QED BY <2>4, <3>2, <3>3
  <2>9. FramesNeeded(t)'
    <3>1. /\ Range(a.imports) \subseteq ImportNames(a.file)
          /\ Range(here.imports) \subseteq ImportNames(here.file)
          /\ Pool[NameOf[here.file]] = here.file /\ here.file \in Needs[File(t)]
      <4>1. Range(a.imports) \subseteq ImportNames(a.file)
        BY <2>1 DEF ImportNames
      <4>2. here.file = s[1].file /\ 1 \in 1 .. Len(s)
        BY <1>2, <1>3
      <4>3. Range(here.imports) \subseteq Range(s[1].imports)
        BY <1>2, <1>3
      <4> QED BY <1>4, <4>1, <4>2, <4>3
    <3>2. \A i \in 1 .. Len(q) :
            /\ Pool[NameOf[q[i].file]] = q[i].file
            /\ q[i].file \in Needs[File(t)]
            /\ Range(q[i].imports) \subseteq ImportNames(q[i].file)
      BY <1>4, <2>1, <2>2, <2>7, <3>1
    <3> QED BY <2>5, <2>6, <3>2 DEF FramesNeeded
  <2>10. FileUnderWay(t)'
    BY <1>1, <2>5, <2>6, <2>8, AtPlace DEF Serves, FileUnderWay
  <2>11. \E k \in Nat : Remains(t, k)'
    BY <1>1, <1>7, <2>6 DEF At, Serves, Remains
  <2>12. Serves(t)'
    BY <2>5, <2>9, <2>10, <2>11 DEF Serves, Registration, Evaluation
  <2>13. \A u \in Threads \ {t} : Untouched(u) /\ message'[u] = message[u]
    BY <1>1, <1>7, <2>4 DEF VInv, RubyTypes, Untouched
  <2>14. PoolServed' /\ Answers(t)
    BY <1>1, <1>7 DEF PoolServed, Answers
  <2> QED BY <1>1, <2>12, <2>13, <2>14, ServesOfOne
<1> QED BY <1>6, <1>7 DEF Import

-----------------------------------------------------------------------------
(* The steps of the engine.                                                *)

\* A step of the engine is right if the pool is, and what t is told.
LEMMA ServeByNative ==
  ASSUME VInv, ServeInv, NEW t \in Threads, Native(t),
         PoolServed', Registration(t)', Evaluation(t)'
  PROVE  ServeInv' /\ Answers(t)
<1>1. EngineStep(t) /\ UNCHANGED <<types, registered, owner>>
      /\ UNCHANGED <<pc, asked, rest, frames, snapshot, outcome>>
  BY DEF Native, rubyShared, rubyLocal
<1>2. UNCHANGED message \/ \E m : message' = [message EXCEPT ![t] = m]
  <2>1. CASE Unpack(t)
    BY <2>1 DEF Unpack, Leave, VInv, EngineInv, EngineTypeOK
  <2>2. CASE ~Unpack(t)
    BY <1>1, <2>2
    DEF EngineStep, AddFile, MessageType, LockCompile, Compile, LockValidate, Ensure,
        Evaluate, Reacquire, Return, Leave
  <2> QED BY <2>1, <2>2
<1>3. \A u \in Threads \ {t} : Untouched(u) /\ message'[u] = message[u]
  BY <1>1, <1>2, EngineFrame DEF VInv, EngineInv, EngineTypeOK, Untouched
<1>4. /\ Class(t)' = Class(t) /\ File(t)' = File(t) /\ SkipsUnknown(t)' = SkipsUnknown(t)
  BY <1>1 DEF Class, File, SkipsUnknown
<1>5. (\E k \in Nat : Remains(t, k)) => \E k \in Nat : Remains(t, k)'
  BY <1>1, <1>4 DEF Remains
<1>6. FramesNeeded(t)' /\ (FileUnderWay(t) => FileUnderWay(t)')
  BY <1>1, <1>4 DEF ServeInv, Serves, FramesNeeded, FileUnderWay
<1>7. Serves(t)'
  BY <1>1, <1>4, <1>5, <1>6 DEF ServeInv, Serves
<1> QED BY <1>1, <1>3, <1>7, ServesOfOne DEF Answers

\* The file that t adds comes after its imports, and its class needs it.
LEMMA FileAtBuild ==
  ASSUME VInv, ServeInv, NEW t \in Threads, at[t] = "add_file"
  PROVE  /\ pc[t] = "added" /\ arg[t] \in Files /\ arg[t] \in Needs[File(t)]
         /\ Pool[NameOf[arg[t]]] = arg[t] /\ Range(Imports[arg[t]]) \subseteq BuiltNames
<1> DEFINE s == frames[t]
<1>1. /\ arg[t] = Top(t).file /\ s # <<>> /\ Top(t).imports = <<>> /\ pc[t] = "added"
      /\ s \in Seq(Activations)
  BY DEF VInv, RubyTypes, ThreadInv, CallMatches, InHand
<1>2. 1 \in 1 .. Len(s) /\ Top(t) = s[1] /\ Top(t) \in Activations
  BY <1>1 DEF Top
<1>3. /\ Pool[NameOf[s[1].file]] = s[1].file
      /\ s[1].file \in Needs[File(t)]
      /\ ImportNames(s[1].file) \subseteq registered \cup Range(s[1].imports)
  <2>1. FramesNeeded(t) /\ FramesCover(t)
    BY DEF ServeInv, Serves, VInv, ThreadInv
  <2> QED BY <1>2, <2>1 DEF FramesNeeded, FramesCover
<1>4. Range(s[1].imports) = {}
  BY <1>1, <1>2 DEF Range
<1> QED BY <1>1, <1>2, <1>3, <1>4 DEF Activations, ImportNames, VInv, RegisteredAreBuilt

\* Only a file that is bad in itself is refused, and then the class fails.
LEMMA AddFileServes ==
  ASSUME OneHome, VInv, ServeInv, NEW t \in Threads, Native(t), AddFile(t)
  PROVE  ServeInv' /\ Answers(t)
<1> DEFINE f == arg[t]
<1>1. /\ pc[t] = "added" /\ f \in Files /\ f \in Needs[File(t)]
      /\ Pool[NameOf[f]] = f /\ Range(Imports[f]) \subseteq BuiltNames
      /\ UNCHANGED <<types, registered, pc, rest>>
  BY FileAtBuild DEF AddFile, Native, rubyShared, rubyLocal
<1>2. NameOf[f] \notin BuiltNames /\ f \notin BadFiles => Builds(f)
  <2>1. AtHand(f)
    BY <1>1, SchemaAssumption DEF AtHand
  <2>2. \A g \in built : AtHand(g)
    BY BuiltIsAtHand DEF ServeInv
  <2> QED BY <1>1, <2>1, <2>2 DEF Builds, OneHome, BuiltNames, Names
<1>3. PoolServed /\ NameOf[f] \notin BuiltNames => NameOf[f] \notin Names(Linked)
  BY DEF PoolServed, BuiltNames, Names
<1>4. at'[t] = "ruby" /\ File(t)' = File(t)
  BY <1>1 DEF AddFile, Return, VInv, EngineInv, EngineTypeOK, File, Class
<1>5. PoolServed'
  <2>1. CASE UNCHANGED built
    BY <1>1, <2>1 DEF ServeInv, PoolServed
  <2>2. CASE /\ NameOf[f] \notin BuiltNames /\ Builds(f)
             /\ built' = built \cup {f}
    BY <1>1, <1>3, <2>2 DEF ServeInv, PoolServed, Builds
  <2> QED BY <2>1, <2>2 DEF AddFile
<1>6. ret'[t] = "argument" => ~FileOk(File(t))
  <2>1. ret'[t] = "argument" => NameOf[f] \notin BuiltNames /\ ~Builds(f)
    BY DEF AddFile, Return, VInv, EngineInv, EngineTypeOK
  <2> QED BY <1>1, <1>2, <1>3, <2>1 DEF ServeInv, FileOk
<1>7. Registration(t)' /\ Evaluation(t)'
  BY <1>1, <1>4, <1>6 DEF Registration, Evaluation
<1> QED BY <1>5, <1>7, ServeByNative

\* The engine knows of the class at hand what it should.
LEMMA AskedIsKnown ==
  ASSUME OnePool, OneHome, VInv, LeftInv, ServeInv, NEW t \in Threads,
         pc[t] \in {"known", "compiled"}
  PROVE  Find(NameOfClass(t)) = KnownOf(t)
<1>1. /\ Class(t) \in MessageClasses /\ InPool(Class(t))
      /\ NameOf[FileOf(Class(t))] \in registered /\ PoolServed
  BY KnownDecides DEF File, ServeInv
<1> QED BY <1>1, FoundIsKnown DEF NameOfClass, KnownOf

LEMMA CompilationServes ==
  ASSUME OnePool, OneHome, VInv, LeftInv, ServeInv, NEW t \in Threads, Native(t),
         MessageType(t) \/ LockCompile(t) \/ Compile(t)
  PROVE  ServeInv' /\ Answers(t)
<1>1. /\ UNCHANGED <<built, types, registered, pc, rest, asked>>
      /\ at[t] \in {"message_type", "compile", "compiling"}
  BY DEF Native, rubyShared, rubyLocal, MessageType, LockCompile, Compile, pool
<1>2. /\ CallMatches(t) /\ Registration(t)
      /\ DOMAIN at = Threads /\ DOMAIN ret = Threads
  BY DEF VInv, ThreadInv, ServeInv, Serves, EngineInv, EngineTypeOK
<1>3. PoolServed'
  BY <1>1 DEF ServeInv, PoolServed
<1>4. /\ pc[t] \in {"known", "compiled"} /\ Find(NameOfClass(t)) = KnownOf(t)
      /\ arg[t] = NameOfClass(t)
  BY <1>1, <1>2, AskedIsKnown DEF CallMatches, Registration
<1>5. /\ KnownOf(t)' = KnownOf(t) /\ SkipsUnknown(t)' = SkipsUnknown(t)
  BY <1>1 DEF KnownOf, SkipsUnknown, Class
<1>6. Evaluation(t)'
  BY <1>1, <1>4 DEF Evaluation
<1>7. Registration(t)'
  <2>1. CASE MessageType(t)
    <3>1. /\ at'[t] = "ruby" /\ pc'[t] = "known"
          /\ ret'[t] = IF KnownOf(t) = {} THEN "no" ELSE "yes"
      BY <1>1, <1>2, <1>4, <2>1 DEF MessageType, Return, CallMatches
    <3> QED BY <1>5, <3>1 DEF Registration
  <2>2. CASE LockCompile(t)
    <3>1. at'[t] = "compiling" /\ pc'[t] = "compiled" /\ pc[t] = "compiled"
      BY <1>1, <1>2, <2>2 DEF LockCompile, CallMatches
    <3> QED BY <1>2, <1>5, <3>1 DEF Registration
  <2>3. CASE Compile(t)
    <3>1. at'[t] = "returning" /\ pc'[t] = "compiled" /\ pc[t] = "compiled"
      BY <1>1, <1>2, <2>3 DEF Compile, Leave, CallMatches
    <3>2. \A d, e \in KnownOf(t) : d = e
      BY <1>4 DEF VInv, NamesUnique, Find
    <3>3. ret'[t] = IF KnownOf(t) = {} THEN "argument"
                    ELSE IF Compiles(KnownOf(t)) THEN "ok" ELSE "compilation"
      <4>1. CASE KnownOf(t) = {}
        BY <1>2, <1>4, <2>3, <4>1 DEF Compile, Leave
      <4>2. CASE \E d \in KnownOf(t) : EnsureOk(d) /\ Leave(t, "ok")
        BY <1>2, <3>2, <4>2 DEF EnsureOk, Leave, Compiles
      <4>3. CASE \E d \in KnownOf(t) : EnsureFails(d) /\ Leave(t, "compilation")
        BY <1>2, <4>3 DEF EnsureFails, Leave, Compiles
      <4> QED BY <1>4, <2>3, <4>1, <4>2, <4>3 DEF Compile
    <3> QED BY <1>2, <1>5, <3>1, <3>3 DEF Registration, Compiles
  <2> QED BY <2>1, <2>2, <2>3
<1> QED BY <1>3, <1>6, <1>7, ServeByNative

\* Rules of a type packed in the message that do not compile: the error is one
\* the schema allows.
LEMMA PackedFails ==
  ASSUME NEW m, NEW d \in m.packed, d \in Types,
         NEW u \in ({d} \cup Reach[d]) \ Good
  PROVE  AsOutcome(StatusOf(u)) \in EvaluationOutcomes(m)
<1>1. d \in Reach[d]
  BY DEF Reach
<1>2. u \in UNION {Reach[e] : e \in m.packed} /\ u \notin Good
  BY <1>1
<1>3. CASE u \in Mismatched
  <2>1. AsOutcome(StatusOf(u)) = "evaluation_error"
    BY <1>3 DEF AsOutcome, StatusOf, ErrorOf
  <2> QED BY <1>2, <1>3, <2>1 DEF EvaluationOutcomes
<1>4. CASE u \notin Mismatched
  <2>1. AsOutcome(StatusOf(u)) = "compilation_error"
    BY <1>4 DEF AsOutcome, StatusOf, ErrorOf
  <2> QED BY <1>2, <1>4, <2>1 DEF EvaluationOutcomes
<1> QED BY <1>3, <1>4

LEMMA EvaluationServes ==
  ASSUME VInv, LeftInv, ServeInv, NEW t \in Threads, Native(t),
         LockValidate(t) \/ Ensure(t) \/ Unpack(t) \/ Evaluate(t)
  PROVE  ServeInv' /\ Answers(t)
<1> DEFINE m == asked[t].payload
<1>1. /\ UNCHANGED <<built, types, registered, pc, rest, asked>>
      /\ at[t] \in {"validate", "ensuring", "evaluating"}
  BY DEF Native, rubyShared, rubyLocal, LockValidate, Ensure, Unpack, Evaluate, pool
<1>2. /\ CallMatches(t) /\ Evaluation(t) /\ InHand(t)
      /\ DOMAIN at = Threads /\ DOMAIN ret = Threads
      /\ message \in [Threads -> [packed : SUBSET Types, result : Verdicts]]
  BY DEF VInv, ThreadInv, ServeInv, Serves, EngineInv, EngineTypeOK
<1>3. PoolServed'
  BY <1>1 DEF ServeInv, PoolServed
<1>4. /\ pc[t] = "validated" /\ pc'[t] = "validated" /\ arg[t] = NameOfClass(t)
      /\ message[t].packed \subseteq m.packed /\ message[t].result = m.result
  BY <1>1, <1>2 DEF CallMatches, Evaluation
<1>5. Registration(t)'
  <2>1. Moves(t)
    BY EngineFrame DEF VInv, Native
  <2>2. at'[t] # "message_type"
    BY <1>1, <2>1 DEF Moves
  <2> QED BY <1>4, <2>2 DEF Registration
<1>6. Evaluation(t)'
  <2>1. CASE /\ at'[t] \in {"ensuring", "evaluating"}
             /\ message'[t].packed \subseteq m.packed /\ message'[t].result = m.result
    BY <1>1, <2>1 DEF Evaluation
  <2>2. CASE \E r : Leave(t, r) /\ AsOutcome(r) \in EvaluationOutcomes(m)
    <3>1. PICK r : Leave(t, r) /\ AsOutcome(r) \in EvaluationOutcomes(m)
      BY <2>2
    <3>2. at'[t] = "returning" /\ ret'[t] = r
      BY <1>2, <3>1 DEF Leave
    <3> QED BY <1>1, <3>1, <3>2 DEF Evaluation
  <2>3. CASE LockValidate(t)
    BY <1>2, <1>4, <2>1, <2>3 DEF LockValidate
  <2>4. CASE Ensure(t)
    <3>1. Class(t) \in types
      BY <1>2, <1>4 DEF InHand
    <3>2. Find(arg[t]) # {} /\ \A d \in Find(arg[t]) : d \in compiled /\ RulesOk(d)
      BY <1>4, <3>1
      DEF VInv, TypesCompiled, CompiledName, NameOfClass, EngineInv, PoolComplete
    <3>3. at' = [at EXCEPT ![t] = "evaluating"] /\ UNCHANGED message
      BY <2>4, <3>2 DEF Ensure, EnsureFails
    <3> QED BY <1>2, <1>4, <2>1, <3>3
  <2>5. CASE Unpack(t)
    <3>1. PICK d \in message[t].packed :
            \/ /\ message' = [message EXCEPT ![t].packed = @ \ {d}]
               /\ UNCHANGED at
            \/ \E u \in (IF d \in ruled THEN {d} ELSE Reach[d]) \ Good :
                 Leave(t, StatusOf(u))
      BY <2>5 DEF Unpack
    <3>2. d \in Types /\ d \in m.packed /\ at[t] = "evaluating"
      BY <1>2, <1>4, <2>5, <3>1 DEF Unpack
    <3>3. CASE /\ message' = [message EXCEPT ![t].packed = @ \ {d}]
               /\ UNCHANGED at
      BY <1>2, <1>4, <2>1, <3>2, <3>3
    <3>4. CASE \E u \in (IF d \in ruled THEN {d} ELSE Reach[d]) \ Good :
                 Leave(t, StatusOf(u))
      <4>1. PICK u \in ({d} \cup Reach[d]) \ Good : Leave(t, StatusOf(u))
        BY <3>4
      <4>2. AsOutcome(StatusOf(u)) \in EvaluationOutcomes(m)
        BY <3>2, PackedFails
      <4> QED BY <2>2, <4>1, <4>2
    <3> QED BY <3>1, <3>3, <3>4
  <2>6. CASE Evaluate(t)
    <3>1. Leave(t, m.result)
      BY <1>4, <2>6 DEF Evaluate
    <3>2. AsOutcome(m.result) \in EvaluationOutcomes(m)
      BY DEF AsOutcome, EvaluationOutcomes
    <3> QED BY <2>2, <3>1, <3>2
  <2> QED BY <2>3, <2>4, <2>5, <2>6
<1> QED BY <1>3, <1>5, <1>6, ServeByNative

\* What was returned is kept until Ruby code has the GVL again.
LEMMA ReacquireServes ==
  ASSUME VInv, LeftInv, ServeInv, NEW t \in Threads, Native(t), Reacquire(t)
  PROVE  ServeInv' /\ Answers(t)
<1>1. /\ UNCHANGED <<built, types, registered, pc, rest, asked>>
      /\ at[t] = "returning" /\ at'[t] = "ruby" /\ ret'[t] = ret[t]
  BY DEF Native, rubyShared, rubyLocal, Reacquire, Return, pool, VInv, EngineInv,
         EngineTypeOK
<1>2. pc[t] \in {"compiled", "validated"} /\ Registration(t) /\ Evaluation(t)
  BY <1>1 DEF VInv, ThreadInv, CallMatches, ServeInv, Serves
<1>3. KnownOf(t)' = KnownOf(t) /\ SkipsUnknown(t)' = SkipsUnknown(t)
  BY <1>1 DEF KnownOf, SkipsUnknown, Class
<1>4. Registration(t)' /\ Evaluation(t)'
  BY <1>1, <1>2, <1>3 DEF Registration, Evaluation, Compiles
<1>5. PoolServed'
  BY <1>1 DEF ServeInv, PoolServed
<1> QED BY <1>4, <1>5, ServeByNative

LEMMA NativeServes ==
  ASSUME OnePool, OneHome, VInv, LeftInv, ServeInv, NEW t \in Threads, Native(t)
  PROVE  ServeInv' /\ Answers(t)
  BY AddFileServes, CompilationServes, EvaluationServes, ReacquireServes
  DEF Native, EngineStep

-----------------------------------------------------------------------------
(* The theorem.                                                            *)

LEMMA ServeInit ==
  ASSUME Init
  PROVE  ServeInv
<1>1. PoolServed
  BY DEF Init, EngineInit, PoolServed
<1>2. \A t \in Threads : Serves(t)
  BY DEF Init, EngineInit, Serves, FramesNeeded, Registration, Evaluation
<1> QED BY <1>1, <1>2 DEF ServeInv

LEMMA ServeStep ==
  ASSUME OnePool, OneHome, VInv, LeftInv, ServeInv, NEW t \in Threads,
         Step(t) \/ Interrupt(t)
  PROVE  ServeInv' /\ Answers(t)
  BY AllRegisteredServes, FastPathServes, SlowPathServes, AcquireServes, RecheckServes,
     ImportServes, AddServes, AddedServes, AskKnownServes, SkipUnknownServes,
     CompileTypeServes, DupServes, PublishServes, ValidateServes, ValidatedServes,
     NativeServes, InterruptServes
  DEF Step

LEMMA StepInCall ==
  ASSUME VInv, NEW t \in Threads, Step(t) \/ Interrupt(t)
  PROVE  asked[t] # NoCall
<1>1. CASE Native(t)
  <2>1. Moves(t)
    BY <1>1, EngineFrame DEF VInv, Native
  <2> QED BY <2>1 DEF Moves, VInv, ThreadInv, CallMatches, InHand
<1>2. CASE ~Native(t)
  <2>1. pc[t] # "idle"
    BY <1>2
    DEF Step, Interrupt, AllRegistered, FastPath, SlowPath, Acquire, Recheck, Import, Add,
        Added, AskKnown, SkipUnknown, CompileType, Dup, Publish, Validate, Validated, At
  <2> QED BY <2>1 DEF VInv, ThreadInv, InHand
<1> QED BY <1>1, <1>2

LEMMA ServeStutter ==
  ASSUME ServeInv, UNCHANGED vars
  PROVE  ServeInv'
<1>1. /\ UNCHANGED <<built, at, arg, message, ret, types, registered>>
      /\ UNCHANGED <<pc, asked, rest, frames, snapshot, outcome>>
  BY DEF vars, engineVars, pool, call, rubyShared, rubyLocal
<1>2. PoolServed'
  BY <1>1 DEF ServeInv, PoolServed
<1>3. \A t \in Threads : Serves(t)'
  BY <1>1, OthersServe DEF ServeInv, Untouched
<1> QED BY <1>2, <1>3 DEF ServeInv

LEMMA ServeInvariance ==
  ASSUME OnePool, OneHome
  PROVE  Spec => []ServeInv
<1>1. Init => ServeInv
  BY ServeInit
<1>2. VInv /\ LeftInv /\ ServeInv /\ [Next]_vars => ServeInv'
  BY CallServes, ServeStep, ServeStutter DEF Next
<1> QED BY <1>1, <1>2, ValidatorInvariance, LeftInvariance, PTL DEF Spec

\* ServesSchema, for every schema, any threads, calls and interrupts: a call ends
\* as its classes and its message call for, or interrupted, whatever other
\* threads did before it or do meanwhile.
THEOREM ImplementsService ==
  ASSUME OnePool, OneHome
  PROVE  Spec => ServesSchema
<1> USE DEF Service!svars
<1>1. Init => Service!Init
  BY DEF Init, Service!Init
<1>2. VInv /\ LeftInv /\ ServeInv /\ [Next]_vars => [Service!Next]_(Service!svars)
  <2> SUFFICES ASSUME VInv, LeftInv, ServeInv, [Next]_vars
               PROVE  [Service!Next]_(Service!svars)
    OBVIOUS
  <2>1. ASSUME NEW t \in Threads, Call(t)
        PROVE  [Service!Next]_(Service!svars)
    <3>1. asked[t] = NoCall
      BY <2>1, AtPlace DEF Call, ThreadInv, InHand
    <3>2. Service!Ask(t)
      BY <2>1, <3>1 DEF Call, Service!Ask
    <3> QED BY <3>2 DEF Service!Next
  <2>2. ASSUME NEW t \in Threads, Step(t) \/ Interrupt(t)
        PROVE  [Service!Next]_(Service!svars)
    <3>1. Answers(t)
      BY <2>2, ServeStep
    <3>2. ASSUME NEW o \in Expected[asked[t]] \cup {"interrupted"}, Finish(t, o)
          PROVE  Service!Next
      <4>1. asked[t] # NoCall
        BY <2>2, StepInCall
      <4>2. Service!Answer(t)
        BY <3>2, <4>1 DEF Finish, Service!Answer
      <4> QED BY <4>2 DEF Service!Next
    <3> QED BY <3>1, <3>2 DEF Answers
  <2>3. CASE UNCHANGED vars
    BY <2>3 DEF vars, rubyLocal
  <2> QED BY <2>1, <2>2, <2>3 DEF Next
<1> QED BY <1>1, <1>2, ValidatorInvariance, LeftInvariance, ServeInvariance, PTL
        DEF Spec, ServesSchema, Service!Spec

\* OwnRules, which a class of another pool breaks: if every call keeps to classes
\* of the validator's pool, a message is evaluated against the rules of its own
\* descriptor, or of the linked-in one of its name.
THEOREM OwnRulesInOnePool ==
  ASSUME OnePool, OneHome
  PROVE  Spec => []OwnRules
<1>1. VInv /\ LeftInv /\ ServeInv => OwnRules
  <2> SUFFICES ASSUME VInv, LeftInv, ServeInv,
                      NEW t \in Threads, at[t] = "evaluating"
               PROVE  Find(arg[t]) = Known(Descriptor[Class(t)])
    BY DEF OwnRules
  <2>1. /\ pc[t] = "validated" /\ arg[t] = NameOfClass(t) /\ Class(t) \in types
        /\ Class(t) \in MessageClasses
    BY DEF VInv, RubyTypes, ThreadInv, CallMatches, InHand
  <2>2. Serves(t) /\ PoolServed /\ asked[t].op = "validate"
    BY <2>1 DEF ServeInv, Serves
  <2>3. rest[t] # <<>>
    BY <2>1, <2>2, SuccessExpected
  <2>4. InPool(Class(t)) /\ NameOf[FileOf(Class(t))] \in registered
    BY <2>1, <2>2, <2>3, ClassInPool DEF PoolServed
  <2> QED BY <2>1, <2>2, <2>4, FoundIsKnown DEF NameOfClass
<1> QED BY <1>1, ValidatorInvariance, LeftInvariance, ServeInvariance, PTL
=============================================================================
