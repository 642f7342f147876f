------------------------ MODULE ForkedValidatorProofs ------------------------
(***************************************************************************)
(* What the native engine owes to its callers holds in a forked child too, *)
(* whichever threads are lost and whatever they were doing: the guards, the *)
(* pool and the rules do not depend on the registration mutex, which the   *)
(* child finds free though a lost thread was in the middle of its block.   *)
(***************************************************************************)
EXTENDS ForkedValidator, ValidatorProofs

Shape ==
  /\ types \subseteq MessageClasses
  /\ DOMAIN pc = Threads /\ DOMAIN rest = Threads /\ DOMAIN snapshot = Threads
  /\ asked \in [Threads -> Calls \cup {NoCall}]
  /\ frames \in [Threads -> Seq(Activations)]

AllCompiled(S) == \A c \in S : CompiledName(TypeName[Descriptor[c]])

\* What t relies on without the mutex: nothing of it is about @types as it is now,
\* which another thread may have assigned an older copy.
Relies(t) ==
  /\ CallMatches(t)
  /\ pc[t] # "idle" => asked[t] # NoCall
  /\ pc[t] = "validate" => asked[t].op = "validate"
  /\ pc[t] = "known" => SkipsUnknown(t)
  /\ pc[t] = "added" => frames[t] # <<>>
  /\ pc[t] \in Synchronized \cup {"acquire", "validate", "validated"}
       => Class(t) \in MessageClasses
  /\ pc[t] \in {"publish", "validate", "validated"} => CompiledName(NameOfClass(t))
  /\ pc[t] = "compiled" /\ ret[t] = "ok" => CompiledName(NameOfClass(t))
  /\ pc[t] = "publish" => AllCompiled(snapshot[t]) /\ snapshot[t] \subseteq MessageClasses

\* The inductive invariant.
FInv ==
  /\ EngineInv /\ NamesUnique /\ Shape /\ AllCompiled(types)
  /\ \A t \in Threads : Relies(t)

-----------------------------------------------------------------------------

LEMMA OthersRely ==
  ASSUME NEW u \in Threads, Relies(u), Untouched(u),
         \A n : CompiledName(n) => CompiledName(n)'
  PROVE  Relies(u)'
<1>1. Top(u)' = Top(u) /\ Class(u)' = Class(u) /\ NameOfClass(u)' = NameOfClass(u)
  BY DEF Untouched, Top, Class, NameOfClass
<1>2. CallMatches(u)'
  BY <1>1 DEF Relies, CallMatches, Untouched
<1>3. AllCompiled(snapshot[u]) => AllCompiled(snapshot[u])'
  BY DEF AllCompiled, Untouched
<1> QED BY <1>1, <1>2, <1>3 DEF Relies, Untouched, SkipsUnknown

LEMMA NativeKeeps ==
  ASSUME FInv, NEW t \in Threads, Native(t)
  PROVE  FInv'
<1>1. EngineStep(t) /\ UNCHANGED <<types, pc, asked, rest, frames, snapshot>>
  BY DEF Native, rubyShared, rubyLocal
<1>2. EngineInv'
  BY <1>1, EngineStepInv DEF FInv
<1>3. /\ built \subseteq built' /\ compiled \subseteq compiled' /\ NamesUnique'
      /\ \A u \in Threads \ {t} : at'[u] = at[u] /\ arg'[u] = arg[u] /\ ret'[u] = ret[u]
      /\ Moves(t)
  BY <1>1, EngineFrame DEF FInv
<1>4. \A n : CompiledName(n) => CompiledName(n)'
  BY <1>3, CompiledStays
<1>5. Shape' /\ AllCompiled(types)'
  BY <1>1, <1>4 DEF FInv, Shape, AllCompiled
<1>6. \A u \in Threads \ {t} : Relies(u)'
  BY <1>1, <1>3, <1>4, OthersRely DEF FInv, Untouched
<1>7. Relies(t)'
  <2>1. UNCHANGED <<Top(t), Class(t), NameOfClass(t)>> /\ Relies(t)
    BY <1>1 DEF FInv, Top, Class, NameOfClass
  <2>2. CallMatches(t)'
    BY <1>1, <1>3, <2>1 DEF Relies, CallMatches, Moves
  <2>3. pc'[t] = "compiled" /\ ret'[t] = "ok" => CompiledName(NameOfClass(t))'
    BY <1>1, <1>3, <1>4, <2>1 DEF Relies, CallMatches, Moves
  <2>4. AllCompiled(snapshot[t]) => AllCompiled(snapshot[t])'
    BY <1>1, <1>4 DEF AllCompiled
  <2> QED BY <1>1, <1>4, <2>1, <2>2, <2>3, <2>4 DEF Relies, SkipsUnknown
<1> QED BY <1>2, <1>3, <1>5, <1>6, <1>7 DEF FInv

\* A step of t in Ruby code keeps the invariant if it does so for t itself.
LEMMA RubyKeeps ==
  ASSUME FInv, NEW t \in Threads, UNCHANGED pool, EngineInv', Shape', Relies(t)',
         \A u \in Threads \ {t} : Untouched(u), AllCompiled(types')
  PROVE  FInv'
<1>1. \A n : CompiledName(n)' = CompiledName(n)
  BY DEF pool, CompiledName, Find
<1>2. NamesUnique' /\ AllCompiled(types)'
  BY <1>1 DEF FInv, NamesUnique, AllCompiled, pool
<1>3. \A u \in Threads \ {t} : Relies(u)'
  BY <1>1, OthersRely DEF FInv
<1> QED BY <1>2, <1>3 DEF FInv

LEMMA FinishKeeps ==
  ASSUME FInv, NEW t \in Threads, NEW o, HasGVL(t), Finish(t, o), EngineInv',
         UNCHANGED <<pool, at, arg, types>>,
         ret' \in {ret, [ret EXCEPT ![t] = "none"]}
  PROVE  FInv'
<1> USE DEF FInv, Finish, Goto
<1>1. Shape'
  BY DEF Shape
<1>2. \A u \in Threads \ {t} : Untouched(u)
  BY DEF Shape, EngineInv, EngineTypeOK, Untouched
<1>3. Relies(t)'
  BY DEF Shape, Relies, CallMatches, HasGVL, Synchronized
<1> QED BY <1>1, <1>2, <1>3, RubyKeeps

LEMMA ResolvedKeeps ==
  ASSUME FInv, NEW t \in Threads, HasGVL(t), Resolved(t), EngineInv',
         UNCHANGED <<pool, at, arg>>,
         ret' \in {ret, [ret EXCEPT ![t] = "none"]},
         pc[t] # "idle", types' \subseteq MessageClasses, AllCompiled(types'),
         asked[t].op = "validate" => Class(t) \in types'
  PROVE  FInv'
<1> USE DEF FInv
<1>1. /\ \/ /\ pc' = [pc EXCEPT ![t] = "validate"]
            /\ rest' = rest /\ asked[t].op = "validate"
         \/ /\ pc' = [pc EXCEPT ![t] = "resolve"]
            /\ rest' = [rest EXCEPT ![t] = Tail(@)]
      /\ frames' = [frames EXCEPT ![t] = <<>>]
      /\ snapshot' = [snapshot EXCEPT ![t] = {}]
      /\ UNCHANGED asked
  BY DEF Resolved, Goto
<1>2. Shape'
  BY <1>1 DEF Shape
<1>3. \A u \in Threads \ {t} : Untouched(u)
  BY <1>1 DEF Shape, EngineInv, EngineTypeOK, Untouched
<1>4. Relies(t)'
  <2>1. CASE pc'[t] = "resolve"
    BY <1>1, <2>1 DEF HasGVL, Relies, CallMatches, Synchronized
  <2>2. CASE pc'[t] # "resolve"
    <3>1. /\ pc'[t] = "validate" /\ rest' = rest /\ asked'[t].op = "validate"
          /\ at'[t] = "ruby" /\ asked'[t] # NoCall
      BY <1>1, <2>2 DEF Shape, HasGVL, Relies
    <3>2. Class(t)' = Class(t) /\ NameOfClass(t)' = NameOfClass(t) /\ Class(t) \in types'
      BY <3>1, <1>1 DEF Class, NameOfClass
    <3>3. CompiledName(NameOfClass(t))'
      BY <3>2 DEF AllCompiled, NameOfClass, CompiledName, Find, pool
    <3> QED BY <3>1, <3>2, <3>3 DEF Relies, CallMatches
  <2> QED BY <2>1, <2>2
<1> QED BY <1>2, <1>3, <1>4, RubyKeeps

-----------------------------------------------------------------------------
(* The steps of Ruby code that go on to another place of the same call.    *)

\* t goes on to `place`, looking at no result any more.
LEMMA GoKeeps ==
  ASSUME FInv, NEW t \in Threads, NEW place, EngineInv',
         pc' = [pc EXCEPT ![t] = place],
         UNCHANGED <<pool, types, asked, rest, snapshot>>,
         frames' \in [Threads -> Seq(Activations)],
         \A u \in Threads \ {t} :
           /\ at'[u] = at[u] /\ arg'[u] = arg[u] /\ ret'[u] = ret[u]
           /\ frames'[u] = frames[u],
         pc[t] # "idle",
         place \in {"acquire", "recheck", "files", "added", "known", "compiled",
                    "validated"},
         ret'[t] # "ok" \/ place # "compiled",
         CallMatches(t)',
         place = "known" => SkipsUnknown(t),
         place = "added" => frames'[t] # <<>>,
         Class(t) \in MessageClasses,
         place = "validated" => CompiledName(NameOfClass(t))
  PROVE  FInv'
<1>1. Shape'
  BY DEF FInv, Shape
<1>2. \A u \in Threads \ {t} : Untouched(u)
  BY DEF FInv, Shape, Untouched
<1>3. /\ Class(t)' = Class(t) /\ NameOfClass(t)' = NameOfClass(t)
      /\ pc'[t] = place /\ SkipsUnknown(t)' = SkipsUnknown(t)
      /\ CompiledName(NameOfClass(t)) => CompiledName(NameOfClass(t))'
  BY DEF FInv, Shape, Class, NameOfClass, SkipsUnknown, CompiledName, Find, pool
<1>4. asked'[t] # NoCall
  BY DEF FInv, Relies
<1>5. Relies(t)'
  BY <1>3, <1>4 DEF Relies
<1> QED BY <1>1, <1>2, <1>5, RubyKeeps DEF FInv

\* Steps that call nothing native.
LEMMA WalkKeeps ==
  ASSUME FInv, NEW t \in Threads,
         Call(t) \/ AllRegistered(t) \/ FastPath(t) \/ SlowPath(t) \/ Acquire(t)
         \/ Recheck(t) \/ Import(t) \/ Publish(t)
  PROVE  FInv'
<1>1. /\ HasGVL(t) /\ at[t] = "ruby"
      /\ UNCHANGED <<engineVars, pool, at, arg, ret>>
  BY DEF Call, AllRegistered, FastPath, SlowPath, Acquire, Recheck, Import, Publish, At,
         HasGVL, engineVars, call
<1>2. EngineInv'
  BY <1>1, EngineStutterInv DEF FInv
<1>3. Shape /\ Relies(t) /\ AllCompiled(types)
  BY DEF FInv
<1>4. CASE Call(t)
  <2>1. PICK c \in Calls :
          /\ asked' = [asked EXCEPT ![t] = c]
          /\ rest' = [rest EXCEPT ![t] = ClassesOf(c)]
          /\ pc' = [pc EXCEPT ![t] = "resolve"]
          /\ UNCHANGED <<types, frames, snapshot>>
    BY <1>4 DEF Call, Goto, rubyShared
  <2>2. Shape' /\ \A u \in Threads \ {t} : Untouched(u)
    BY <1>1, <1>3, <2>1 DEF Shape, Untouched
  <2>3. Relies(t)'
    BY <1>1, <1>3, <2>1, NoCallAssumption DEF Shape, Relies, CallMatches, Synchronized
  <2> QED BY <1>1, <1>2, <1>3, <2>1, <2>2, <2>3, RubyKeeps
<1>5. CASE AllRegistered(t)
  BY <1>1, <1>2, <1>5, FinishKeeps DEF AllRegistered
<1>6. CASE FastPath(t)
  BY <1>1, <1>2, <1>3, <1>6, ResolvedKeeps DEF FastPath, At, Shape
<1>7. CASE SlowPath(t)
  <2>1. CASE Finish(t, "type_error")
    BY <1>1, <1>2, <1>7, <2>1, FinishKeeps DEF SlowPath
  <2>2. CASE /\ Class(t) \in MessageClasses /\ pc' = [pc EXCEPT ![t] = "acquire"]
             /\ UNCHANGED <<asked, rest, frames, snapshot>>
    BY <1>1, <1>2, <1>3, <1>7, <2>2, GoKeeps DEF SlowPath, At, Shape, CallMatches
  <2> QED BY <1>7, <2>1, <2>2 DEF SlowPath, Goto
<1>8. CASE Acquire(t)
  BY <1>1, <1>2, <1>3, <1>8, GoKeeps
  DEF Acquire, Goto, At, Shape, Relies, CallMatches
<1>9. CASE Recheck(t)
  <2>1. CASE Class(t) \in types
    BY <1>1, <1>2, <1>3, <1>9, <2>1, ResolvedKeeps DEF Recheck, At, Shape
  <2>2. CASE Class(t) \notin types
    <3> DEFINE f == FileOf(Class(t))
               a == [file |-> f, imports |-> Imports[f]]
    <3>1. Class(t) \in MessageClasses /\ f \in Files
      BY <1>3, <1>9, NameOfClassType DEF Recheck, At, Relies, Synchronized
    <3>2. a \in Activations
      BY <3>1, SchemaAssumption DEF Activations
    <3>3. PICK s \in {<<>>, <<a>>} : frames' = [frames EXCEPT ![t] = s]
      BY <1>9, <2>2 DEF Recheck
    <3> HIDE DEF a
    <3>4. s \in Seq(Activations)
      <4>1. <<>> \in Seq(Activations) /\ <<a>> \in Seq(Activations)
        BY <3>2
      <4> QED BY <3>3, <4>1
    <3>5. frames' \in [Threads -> Seq(Activations)]
          /\ \A u \in Threads \ {t} : frames'[u] = frames[u]
      BY <1>3, <3>3, <3>4 DEF Shape
    <3>6. /\ pc' = [pc EXCEPT ![t] = "files"] /\ pc[t] # "idle"
          /\ UNCHANGED <<types, asked, rest, snapshot>>
      BY <1>9, <2>2 DEF Recheck, Goto, At
    <3>7. CallMatches(t)'
      BY <1>1, <1>3, <3>6 DEF CallMatches, Shape
    <3> QED BY <1>1, <1>2, <3>1, <3>5, <3>6, <3>7, GoKeeps
  <2> QED BY <2>1, <2>2
<1>10. CASE Import(t)
  <2> DEFINE n == Head(Top(t).imports)
             here == [Top(t) EXCEPT !.imports = Tail(@)]
             f == Pool[n]
             a == [file |-> f, imports |-> Imports[f]]
             s == frames[t]
  <2>1. CASE Finish(t, "argument_error")
    BY <1>1, <1>2, <1>10, <2>1, FinishKeeps DEF Import
  <2>2. CASE /\ f # NoFile
             /\ frames' = [frames EXCEPT ![t] =
                  (IF n \in registered THEN <<>> ELSE <<a>>) \o <<here>> \o Below(t)]
             /\ UNCHANGED <<pc, asked, rest, snapshot>>
    <3>1. s \in Seq(Activations) /\ s # <<>> /\ Top(t).imports # <<>>
      BY <1>3, <1>10 DEF Import, Shape
    <3>2. Top(t) \in Activations /\ Below(t) = Tail(s)
      BY <3>1, HeadTail DEF Top, Below
    <3>3. n \in FileNames /\ here \in Activations
      BY <3>1, <3>2, HeadTail DEF Activations
    <3>4. a \in Activations
      BY <2>2, <3>3, CatalogAssumption, SchemaAssumption DEF Activations
    <3> HIDE DEF n, here, f, a
    <3>5. /\ <<>> \o <<here>> \o Tail(s) \in Seq(Activations)
          /\ <<a>> \o <<here>> \o Tail(s) \in Seq(Activations)
      BY <3>1, <3>3, <3>4, Pushed
    <3>6. PICK q \in Seq(Activations) : frames' = [frames EXCEPT ![t] = q]
      BY <2>2, <3>2, <3>5
    <3>7. Shape' /\ \A u \in Threads \ {t} : Untouched(u)
      BY <1>1, <1>3, <1>10, <2>2, <3>6 DEF Shape, Untouched, Import
    <3>8. Relies(t)'
      BY <1>1, <1>3, <1>10, <2>2
      DEF Relies, CallMatches, Class, Synchronized, Import, At
    <3> QED BY <1>1, <1>2, <1>3, <1>10, <3>7, <3>8, RubyKeeps DEF Import
  <2> QED BY <1>10, <2>1, <2>2 DEF Import
<1>11. CASE Publish(t)
  <2>1. pc[t] = "publish" /\ Resolved(t) /\ types' = snapshot[t] \cup {Class(t)}
    BY <1>11 DEF Publish, At
  <2>2. types' \subseteq MessageClasses /\ AllCompiled(types')
    BY <1>3, <2>1 DEF Relies, AllCompiled, NameOfClass, Synchronized
  <2> QED BY <1>1, <1>2, <2>1, <2>2, ResolvedKeeps
<1> QED BY <1>4, <1>5, <1>6, <1>7, <1>8, <1>9, <1>10, <1>11

\* Steps that call the engine.
LEMMA CallKeeps ==
  ASSUME FInv, NEW t \in Threads,
         Add(t) \/ AskKnown(t) \/ CompileType(t) \/ Validate(t)
  PROVE  FInv'
<1>1. /\ HasGVL(t) /\ at[t] = "ruby" /\ pc[t] # "idle"
      /\ UNCHANGED <<pool, types, asked, rest, frames, snapshot>>
  BY DEF Add, AskKnown, CompileType, Validate, At, HasGVL, rubyShared, CallAddFile,
         CallMessageType, CallCompile, CallValidate
<1>2. Shape /\ Relies(t)
  BY DEF FInv
<1>3. Class(t) \in MessageClasses
  BY <1>2 DEF Add, AskKnown, CompileType, Validate, At, Relies, Synchronized
<1>4. NameOfClass(t) \in TypeNames
  BY <1>3, NameOfClassType
<1>5. Top(t)' = Top(t) /\ NameOfClass(t)' = NameOfClass(t)
  BY <1>1 DEF Top, NameOfClass, Class
<1>6. /\ DOMAIN at = Threads /\ DOMAIN arg = Threads /\ DOMAIN ret = Threads
      /\ frames' \in [Threads -> Seq(Activations)]
  BY <1>1, <1>2 DEF FInv, EngineInv, EngineTypeOK, ArgOK, Shape
<1>7. CASE Add(t)
  <2>1. Top(t) \in Activations
    BY <1>2, <1>7, HeadTail DEF Shape, Top, Add
  <2>2. EngineInv'
    BY <1>7, <2>1, CallInv DEF FInv, Add, Activations
  <2>3. at'[t] = "add_file" /\ arg'[t] = Top(t).file /\ ret'[t] = "none"
    BY <1>6, <1>7 DEF Add, CallAddFile, Enter
  <2> QED BY <1>1, <1>2, <1>3, <1>5, <1>6, <1>7, <2>2, <2>3, GoKeeps
          DEF Add, Goto, CallAddFile, Enter, CallMatches, Shape
<1>8. CASE AskKnown(t)
  <2>1. EngineInv'
    BY <1>4, <1>8, CallInv DEF FInv, AskKnown
  <2>2. at'[t] = "message_type" /\ ret'[t] = "none"
    BY <1>6, <1>8 DEF AskKnown, CallMessageType, Enter
  <2> QED BY <1>1, <1>2, <1>3, <1>5, <1>6, <1>8, <2>1, <2>2, GoKeeps
          DEF AskKnown, Goto, CallMessageType, Enter, CallMatches, Shape
<1>9. CASE CompileType(t)
  <2>1. EngineInv'
    BY <1>4, <1>9, CallInv DEF FInv, CompileType
  <2>2. at'[t] = "compile" /\ arg'[t] = NameOfClass(t) /\ ret'[t] = "none"
    BY <1>6, <1>9 DEF CompileType, CallCompile, Enter
  <2> QED BY <1>1, <1>2, <1>3, <1>5, <1>6, <1>9, <2>1, <2>2, GoKeeps
          DEF CompileType, Goto, CallCompile, Enter, CallMatches, Shape
<1>10. CASE Validate(t)
  <2>1. asked[t] \in Calls /\ CompiledName(NameOfClass(t))
    BY <1>2, <1>10 DEF Validate, At, Shape, Relies
  <2>2. EngineInv'
    BY <1>4, <1>10, <2>1, CallInv, CatalogAssumption DEF FInv, Validate
  <2>3. at'[t] = "validate" /\ arg'[t] = NameOfClass(t) /\ ret'[t] = "none"
    BY <1>6, <1>10 DEF Validate, CallValidate, Enter
  <2> QED BY <1>1, <1>2, <1>3, <1>5, <1>6, <1>10, <2>1, <2>2, <2>3, GoKeeps
          DEF Validate, Goto, CallValidate, Enter, CallMatches, Shape
<1> QED BY <1>7, <1>8, <1>9, <1>10

\* Steps that look at what the engine returned, or drop it.
LEMMA ReturnKeeps ==
  ASSUME FInv, NEW t \in Threads,
         Added(t) \/ SkipUnknown(t) \/ Dup(t) \/ Validated(t) \/ Interrupt(t)
  PROVE  FInv'
<1>1. HasGVL(t) /\ at[t] = "ruby" /\ Discard(t) /\ types' = types /\ pc[t] # "idle"
  BY DEF Added, SkipUnknown, Dup, Validated, Interrupt, At, HasGVL
<1>2. EngineInv' /\ UNCHANGED <<pool, at, arg>> /\ ret' = [ret EXCEPT ![t] = "none"]
  BY <1>1, DiscardInv DEF FInv, Discard
<1>3. Shape /\ Relies(t) /\ AllCompiled(types) /\ DOMAIN ret = Threads
  BY DEF FInv, EngineInv, EngineTypeOK
<1>4. CASE \E o : Finish(t, o)
  BY <1>1, <1>2, <1>4, FinishKeeps
<1>5. CASE Added(t) /\ ~\E o : Finish(t, o)
  <2>1. /\ pc[t] = "added" /\ frames' = [frames EXCEPT ![t] = Below(t)]
        /\ pc' = [pc EXCEPT ![t] = "files"]
        /\ UNCHANGED <<asked, rest, snapshot>>
    BY <1>5 DEF Added, At, Goto
  <2>2. Below(t) \in Seq(Activations)
    BY <1>3, <2>1, HeadTail DEF Shape, Below, Relies
  <2>3. frames' \in [Threads -> Seq(Activations)]
        /\ \A u \in Threads \ {t} : frames'[u] = frames[u]
    BY <1>3, <2>1, <2>2 DEF Shape
  <2>4. Class(t) \in MessageClasses /\ CallMatches(t)'
    BY <1>1, <1>2, <1>3, <2>1 DEF Relies, Synchronized, CallMatches
  <2> QED BY <1>1, <1>2, <1>3, <2>1, <2>3, <2>4, GoKeeps
<1>6. CASE SkipUnknown(t)
  <2>1. asked[t].op # "validate" /\ Resolved(t)
    BY <1>3, <1>6 DEF SkipUnknown, At, Relies, SkipsUnknown
  <2> QED BY <1>1, <1>2, <1>3, <2>1, ResolvedKeeps DEF Shape
<1>7. CASE Dup(t) /\ ~\E o : Finish(t, o)
  <2>1. /\ pc[t] = "compiled" /\ ret[t] = "ok"
        /\ snapshot' = [snapshot EXCEPT ![t] = types]
        /\ pc' = [pc EXCEPT ![t] = "publish"]
        /\ UNCHANGED <<asked, rest, frames>>
    BY <1>7 DEF Dup, At, Goto
  <2>2. Shape' /\ \A u \in Threads \ {t} : Untouched(u)
    BY <1>1, <1>2, <1>3, <2>1 DEF Shape, Untouched
  <2>3. /\ pc'[t] = "publish" /\ snapshot'[t] = types /\ at'[t] = "ruby"
        /\ Class(t)' = Class(t) /\ NameOfClass(t)' = NameOfClass(t)
    BY <1>1, <1>2, <1>3, <2>1 DEF Shape, Class, NameOfClass
  <2>4. CompiledName(NameOfClass(t))' /\ AllCompiled(types)'
    BY <1>1, <1>2, <1>3, <2>1, <2>3
    DEF Relies, AllCompiled, CompiledName, Find, pool
  <2>5. AllCompiled(snapshot[t])' /\ (snapshot[t] \subseteq MessageClasses)'
    BY <1>1, <1>3, <2>3, <2>4 DEF AllCompiled, Shape
  <2>6. Relies(t)'
    BY <1>3, <2>1, <2>3, <2>4, <2>5 DEF Relies, CallMatches, Synchronized
  <2> QED BY <1>1, <1>2, <1>3, <2>2, <2>6, RubyKeeps
<1> QED BY <1>4, <1>5, <1>6, <1>7 DEF Validated, Interrupt

-----------------------------------------------------------------------------
(* The theorems.                                                           *)

LEMMA StepKeeps ==
  ASSUME FInv, NEW t \in Threads, Call(t) \/ Step(t) \/ Interrupt(t)
  PROVE  FInv'
  BY WalkKeeps, CallKeeps, ReturnKeeps, NativeKeeps DEF Step

LEMMA StutterKeeps ==
  ASSUME FInv, UNCHANGED <<engineVars, types, pc, asked, rest, frames, snapshot>>
  PROVE  FInv'
<1>1. EngineInv'
  BY EngineStutterInv DEF FInv
<1> QED BY <1>1
        DEF FInv, engineVars, pool, call, NamesUnique, Shape, AllCompiled, CompiledName,
            Find, Relies, CallMatches, Top, Class, NameOfClass, SkipsUnknown

LEMMA ForkInvariance == ForkSpec => []FInv
<1>1. ForkInit => FInv
  <2> SUFFICES ASSUME ForkInit PROVE FInv
    OBVIOUS
  <2>1. EngineInv /\ NamesUnique
    BY EngineInitInv, SchemaAssumption DEF ForkInit, Init, EngineInit, NamesUnique
  <2>2. Shape /\ AllCompiled(types)
    BY DEF ForkInit, Init, Shape, AllCompiled
  <2>3. \A t \in Threads : Relies(t)
    BY DEF ForkInit, Init, EngineInit, Relies, CallMatches, Synchronized
  <2> QED BY <2>1, <2>2, <2>3 DEF FInv
<1>2. FInv /\ [ForkNext]_forkVars => FInv'
  <2> SUFFICES ASSUME FInv, [ForkNext]_forkVars PROVE FInv'
    OBVIOUS
  <2>1. ASSUME NEW t \in Threads, Begin(t) \/ ForkedStep(t)
        PROVE  FInv'
    BY <2>1, StepKeeps DEF Begin, ForkedStep
  <2>2. ASSUME NEW t \in Threads, Fork(t)
        PROVE  FInv'
    BY <2>2, StutterKeeps DEF Fork, rubyLocal
  <2>3. CASE UNCHANGED forkVars
    BY <2>3, StutterKeeps DEF forkVars, vars, rubyShared, rubyLocal
  <2> QED BY <2>1, <2>2, <2>3 DEF ForkNext
<1> QED BY <1>1, <1>2, PTL DEF ForkSpec

\* The engine's variables keep their types, in a child as in its parent.
THEOREM EngineTypeInChild == ForkSpec => []EngineTypeOK
  BY ForkInvariance, PTL DEF FInv, EngineInv

\* Guards and the GVL are held exactly inside the sections the code takes them
\* for, those that lost threads hold for ever included.
THEOREM GuardsInChild == ForkSpec => []GuardsInSection
  BY ForkInvariance, PTL DEF FInv, EngineInv

\* The pool of a child is closed under imports, and its marks can be trusted,
\* wherever the fork caught a registration.
THEOREM PoolInChild == ForkSpec => []PoolComplete
  BY ForkInvariance, PTL DEF FInv, EngineInv

\* With no Any in any message there is none to unpack, in a child either.
LEMMA NothingPackedInChild ==
  ASSUME \A m \in Payloads : m.packed = {}
  PROVE  ForkSpec => []NothingPacked
<1>1. ForkInit => NothingPacked
  BY DEF ForkInit, Init, EngineInit, NoMessage, NothingPacked
<1>2. FInv /\ NothingPacked /\ [ForkNext]_forkVars => NothingPacked'
  <2> SUFFICES ASSUME FInv, NothingPacked, [ForkNext]_forkVars PROVE NothingPacked'
    OBVIOUS
  <2>1. message \in [Threads -> [packed : SUBSET Types, result : Verdicts]]
    BY DEF FInv, EngineInv, EngineTypeOK
  <2>2. ASSUME NEW t \in Threads, Validate(t)
        PROVE  NothingPacked'
    <3>1. asked[t].payload.packed = {}
      BY <2>2, CatalogAssumption DEF Validate, At, FInv, Shape, Relies
    <3> QED BY <2>1, <2>2, <3>1 DEF Validate, CallValidate, NothingPacked
  <2>3. ASSUME NEW t \in Threads, EngineStep(t)
        PROVE  NothingPacked'
    <3>1. ~Unpack(t)
      BY DEF Unpack, NothingPacked
    <3>2. UNCHANGED message \/ message' = [message EXCEPT ![t] = NoMessage]
      BY <2>3, <3>1
      DEF EngineStep, AddFile, MessageType, LockCompile, Compile, LockValidate, Ensure,
          Evaluate, Reacquire, Return, Leave
    <3> QED BY <2>1, <3>2 DEF NothingPacked, NoMessage
  <2>4. ASSUME NEW t \in Threads, Call(t) \/ Step(t) \/ Interrupt(t),
               ~Validate(t), ~EngineStep(t)
        PROVE  UNCHANGED message
    BY <2>4
    DEF Step, Call, AllRegistered, FastPath, SlowPath, Acquire, Recheck, Import, Add,
        Added, AskKnown, SkipUnknown, CompileType, Dup, Publish, Validated, Native,
        Interrupt, CallAddFile, CallMessageType, CallCompile, Discard, engineVars, call
  <2>5. ASSUME NEW t \in Threads, Fork(t)
        PROVE  UNCHANGED message
    BY <2>5 DEF Fork, engineVars, call
  <2> QED BY <2>2, <2>3, <2>4, <2>5
          DEF ForkNext, Begin, ForkedStep, NothingPacked, forkVars, vars, engineVars, call
<1> QED BY <1>1, <1>2, ForkInvariance, PTL DEF ForkSpec

\* In a child too, as long as no message carries an Any: no step adds rules to the
\* factory's map while another thread, lost or alive, is in the middle of them.
THEOREM RulesRestInChild ==
  ASSUME \A m \in Payloads : m.packed = {}
  PROVE  ForkSpec => RulesStillWhileHeld
<1>1. FInv /\ NothingPacked /\ [ForkNext]_forkVars =>
        [\A t \in Threads :
           at[t] = "evaluating" /\ UNCHANGED <<at[t], message[t]>> => ruled' = ruled]_vars
  <2> SUFFICES ASSUME FInv, NothingPacked, [ForkNext]_forkVars,
                      NEW u \in Threads, at[u] = "evaluating"
               PROVE  ruled' = ruled
    OBVIOUS
  <2>1. /\ u \in readers /\ writer = NoThread
        /\ \A t \in Threads : at[t] # "compiling"
    BY ThreadAssumption DEF FInv, EngineInv, GuardsInSection
  <2>2. ASSUME NEW t \in Threads, Ensure(t)
        PROVE  ruled' = ruled
    <3>1. CompiledName(arg[t])
      BY <2>2 DEF Ensure, FInv, Relies, CallMatches
    <3>2. \A d \in Find(arg[t]) : d \in compiled /\ RulesOk(d)
      BY <3>1 DEF CompiledName, FInv, EngineInv, PoolComplete
    <3> QED BY <2>2, <3>2 DEF Ensure, EnsureOk, EnsureFails
  <2>3. ASSUME NEW t \in Threads, EngineStep(t)
        PROVE  ruled' = ruled
    BY <2>1, <2>2, <2>3
    DEF EngineStep, AddFile, MessageType, LockCompile, Compile, LockValidate, Unpack,
        Evaluate, Reacquire, NothingPacked, pool
  <2>4. ASSUME NEW t \in Threads, Call(t) \/ Step(t) \/ Interrupt(t), ~EngineStep(t)
        PROVE  ruled' = ruled
    BY <2>4
    DEF Step, Call, AllRegistered, FastPath, SlowPath, Acquire, Recheck, Import, Add,
        Added, AskKnown, SkipUnknown, CompileType, Dup, Publish, Validate, Validated,
        Native, Interrupt, CallAddFile, CallMessageType, CallCompile, CallValidate,
        Discard, engineVars, pool
  <2>5. ASSUME NEW t \in Threads, Fork(t)
        PROVE  ruled' = ruled
    BY <2>5 DEF Fork, engineVars, pool
  <2> QED BY <2>3, <2>4, <2>5
          DEF ForkNext, Begin, ForkedStep, forkVars, vars, engineVars, pool
<1> QED BY <1>1, NothingPackedInChild, ForkInvariance, PTL
        DEF ForkSpec, RulesStillWhileHeld

-----------------------------------------------------------------------------
(* What a child may wait for.                                              *)

\* The lost threads stay where the fork found them, and account for the inner locks.
LostInv ==
  /\ lost \subseteq Threads /\ owner \notin lost
  /\ \A u \in lost : at[u] \notin {"add_file", "message_type"}
  /\ inner = "exclusive" => \E u \in lost : Compiles(u)
  /\ inner # "free" => \E u \in lost : at[u] \in {"ensuring", "compiling", "evaluating"}

\* A step of t leaves the others where they are, the files in the pool, and the
\* mutex to t or as it was.
LEMMA OthersStay ==
  ASSUME FInv, NEW t \in Threads, Call(t) \/ Step(t) \/ Interrupt(t)
  PROVE  /\ \A u \in Threads \ {t} :
              at'[u] = at[u] /\ arg'[u] = arg[u] /\ message'[u] = message[u]
         /\ built \subseteq built'
         /\ owner' \in {owner, t, NoThread}
         /\ compiled' # compiled => at[t] \in {"ensuring", "compiling"}
<1> USE DEF FInv, EngineInv, EngineTypeOK, ArgOK
<1>1. CASE Native(t)
  <2>1. \A u \in Threads \ {t} :
          at'[u] = at[u] /\ arg'[u] = arg[u] /\ message'[u] = message[u]
    BY <1>1
    DEF Native, EngineStep, AddFile, MessageType, LockCompile, Compile, LockValidate,
        Ensure, Unpack, Evaluate, Reacquire, Return, Leave
  <2>2. /\ built \subseteq built'
        /\ compiled' # compiled => at[t] \in {"ensuring", "compiling"}
    BY <1>1
    DEF Native, EngineStep, AddFile, MessageType, LockCompile, Compile, LockValidate,
        Ensure, Unpack, Evaluate, Reacquire, pool
  <2> QED BY <1>1, <2>1, <2>2 DEF Native, rubyShared
<1>2. CASE Call(t) \/ Interrupt(t) \/ (Step(t) /\ ~Native(t))
  <2>1. /\ UNCHANGED pool
        /\ \A u \in Threads \ {t} :
             at'[u] = at[u] /\ arg'[u] = arg[u] /\ message'[u] = message[u]
    BY <1>2
    DEF Step, Call, AllRegistered, FastPath, SlowPath, Acquire, Recheck, Import, Add,
        Added, AskKnown, SkipUnknown, CompileType, Dup, Publish, Validate, Validated,
        Interrupt, CallAddFile, CallMessageType, CallCompile, CallValidate, Enter,
        Discard, engineVars, pool, call
  <2>2. owner' \in {owner, t, NoThread}
    BY <1>2
    DEF Step, Call, AllRegistered, FastPath, SlowPath, Acquire, Recheck, Import, Add,
        Added, AskKnown, SkipUnknown, CompileType, Dup, Publish, Validate, Validated,
        Interrupt, Finish, Resolved, rubyShared
  <2> QED BY <2>1, <2>2 DEF pool
<1> QED BY <1>1, <1>2

\* As long as a lost thread may be compiling, no other one can: it stays so.
LEMMA StepKeepsLost ==
  ASSUME FInv, LostInv, NEW t \in Threads, Begin(t) \/ ForkedStep(t)
  PROVE  LostInv'
<1>1. /\ t \notin lost /\ UNCHANGED <<lost, inner>>
      /\ Call(t) \/ Step(t) \/ Interrupt(t)
  BY DEF Begin, ForkedStep
<1>2. /\ \A u \in lost : at'[u] = at[u] /\ arg'[u] = arg[u] /\ message'[u] = message[u]
      /\ built \subseteq built'
      /\ owner' \in {owner, t, NoThread}
      /\ compiled' # compiled => at[t] \in {"ensuring", "compiling"}
  BY <1>1, OthersStay DEF LostInv
<1>3. ASSUME inner = "exclusive" PROVE UNCHANGED <<ruled, compiled>>
  <2>1. CASE Begin(t)
    <3>1. HasGVL(t)
      BY <2>1 DEF Begin, Call, Interrupt, At
    <3> QED BY <2>1 DEF Begin, Call, Interrupt, Discard, engineVars, pool
  <2>2. CASE ForkedStep(t)
    BY <1>2, <1>3, <2>2 DEF ForkedStep, InnerLocksAllow
  <2> QED BY <2>1, <2>2
<1>4. ASSUME inner = "exclusive", NEW u \in lost, Compiles(u) PROVE Compiles(u)'
  <2>1. Find(arg[u]) \subseteq Find(arg[u])'
    BY <1>2 DEF Find
  <2> QED BY <1>2, <1>3, <1>4, <2>1 DEF Compiles
<1>5. owner' \notin lost
  BY <1>1, <1>2, ThreadAssumption DEF LostInv
<1> QED BY <1>1, <1>2, <1>4, <1>5 DEF LostInv

LEMMA ForkKeepsLost ==
  ASSUME FInv, NEW t \in Threads, Fork(t)
  PROVE  LostInv'
<1>1. at[t] = "ruby" /\ gvl = NoThread /\ UNCHANGED engineVars
  BY DEF Fork, At, HasGVL
<1>2. \A u \in Threads : at[u] \notin {"add_file", "message_type"}
  BY <1>1, ThreadAssumption DEF FInv, EngineInv, GuardsInSection
<1>3. PICK u \in Threads : inner' \in InnerLocksOf(u)
  BY DEF Fork
<1>4. /\ inner' = "exclusive" => Compiles(u)
      /\ inner' # "free" => at[u] \in {"ensuring", "compiling", "evaluating"}
  BY <1>3 DEF InnerLocksOf, Compiles
<1>5. inner' # "free" => u \in Threads \ {t}
  BY <1>1, <1>4
<1>6. \A v \in Threads : Compiles(v)' = Compiles(v)
  BY <1>1 DEF Compiles, Find, engineVars, pool, call
<1>7. lost' = Threads \ {t} /\ owner' = NoThread /\ at' = at
  BY <1>1 DEF Fork, engineVars, call
<1> QED BY <1>2, <1>4, <1>5, <1>6, <1>7, ThreadAssumption DEF LostInv

\* A fork leaves a child nothing to wait for in vain: not the mutex or the GVL
\* whatever the fork caught, not a lock that keeps it from what is compiled if the
\* parent was prepared, and no lock at all if it caught nobody in native code.
THEOREM ChildNotShutOut == ForkSpec => []NotShutOut
<1>1. ForkInit => LostInv
  BY DEF ForkInit, LostInv
<1>2. FInv /\ LostInv /\ [ForkNext]_forkVars => LostInv'
  <2> SUFFICES ASSUME FInv, LostInv, [ForkNext]_forkVars PROVE LostInv'
    OBVIOUS
  <2>1. CASE UNCHANGED forkVars
    BY <2>1
    DEF LostInv, Compiles, Find, forkVars, vars, rubyShared, engineVars, pool, call
  <2> QED BY <2>1, StepKeepsLost, ForkKeepsLost DEF ForkNext
<1>3. FInv /\ LostInv => NotShutOut
  <2> SUFFICES ASSUME FInv, LostInv, lost # {} PROVE NotShutOut
    BY DEF NotShutOut
  <2>1. {owner, gvl} \cap lost = {}
    BY DEF LostInv, FInv, EngineInv, GuardsInSection
  <2>2. Prepared => writer \notin lost /\ inner # "exclusive"
    BY DEF Prepared, LostInv, FInv, EngineInv, GuardsInSection
  <2>3. Clean => readers \cap lost = {} /\ inner = "free"
    BY DEF Clean, LostInv, FInv, EngineInv, GuardsInSection
  <2> QED BY <2>1, <2>2, <2>3 DEF NotShutOut
<1> QED BY <1>1, <1>2, <1>3, ForkInvariance, PTL DEF ForkSpec
=============================================================================
