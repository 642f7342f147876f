--------------------------- MODULE ValidatorProofs ---------------------------
(***************************************************************************)
(* For every schema, any number of threads and calls, and interrupts       *)
(* anywhere: one thread registers at a time, @registered_files and @types  *)
(* promise only what the engine has, files come after their imports, and   *)
(* no registration is lost.                                                *)
(***************************************************************************)
EXTENDS Validator, NativeEngineProofs

RubyPlaces ==
  Synchronized \cup {"idle", "resolve", "acquire", "validate", "validated"}

Activations == [file : Files, imports : Seq(FileNames)]

\* Descriptors in the pool are told apart by their names.
NamesUnique ==
  \A d, e \in Types :
    Home[d] \in built /\ Home[e] \in built /\ TypeName[d] = TypeName[e] => d = e

\* The name of a type that is in the pool and marked as compiled.
CompiledName(n) == Find(n) # {} /\ Find(n) \subseteq compiled

RubyTypes ==
  /\ types \subseteq MessageClasses
  /\ registered \subseteq FileNames
  /\ owner \in Threads \cup {NoThread}
  /\ pc \in [Threads -> RubyPlaces]
  /\ asked \in [Threads -> Calls \cup {NoCall}]
  /\ DOMAIN rest = Threads
  /\ frames \in [Threads -> Seq(Activations)]
  /\ snapshot \in [Threads -> SUBSET MessageClasses]
  /\ DOMAIN outcome = Threads

\* The mutex is held from `synchronize` to the end of its block.
MutexInBlock == \A t \in Threads : owner = t <=> pc[t] \in Synchronized

\* Which native call a thread is in follows from its place in the Ruby code.
CallMatches(t) ==
  /\ at[t] = "add_file" => pc[t] = "added" /\ arg[t] = Top(t).file
  /\ at[t] = "message_type" => pc[t] = "known"
  /\ at[t] \in {"compile", "compiling"}
       => pc[t] = "compiled" /\ arg[t] = NameOfClass(t)
  /\ at[t] \in {"validate", "ensuring", "evaluating"}
       => pc[t] = "validated" /\ arg[t] = NameOfClass(t)
  /\ at[t] = "returning" => pc[t] \in {"compiled", "validated"}

\* What a thread has in hand at each place.
InHand(t) ==
  /\ pc[t] = "idle" <=> asked[t] = NoCall
  /\ pc[t] = "validate" => asked[t].op = "validate"
  /\ pc[t] = "known" => SkipsUnknown(t)
  /\ pc[t] \in Synchronized \cup {"acquire"} => Class(t) \in MessageClasses
  /\ pc[t] \in {"validate", "validated"} => Class(t) \in types
  /\ frames[t] # <<>> => pc[t] \in {"files", "added"}
  /\ pc[t] = "added" => frames[t] # <<>> /\ Top(t).imports = <<>>
  /\ pc[t] = "publish" => snapshot[t] = types /\ CompiledName(NameOfClass(t))

\* A result that Ruby code has not looked at yet tells of what was done.
ResultHolds(t) ==
  ret[t] = "ok" =>
    /\ pc[t] = "added" => NameOf[Top(t).file] \in BuiltNames
    /\ pc[t] = "compiled" => CompiledName(NameOfClass(t))

\* Every file under way has each of its imports registered, still to go
\* through, or under way as well.
FramesCover(t) ==
  \A i \in 1 .. Len(frames[t]) :
    ImportNames(frames[t][i].file) \subseteq
      registered \cup Range(frames[t][i].imports)
      \cup {NameOf[frames[t][j].file] : j \in 1 .. i - 1}

ThreadInv(t) == CallMatches(t) /\ InHand(t) /\ ResultHolds(t) /\ FramesCover(t)

TypesCompiled == \A c \in types : CompiledName(TypeName[Descriptor[c]])

\* The inductive invariant.
VInv ==
  /\ EngineInv /\ NamesUnique
  /\ RubyTypes /\ MutexInBlock /\ RegisteredAreBuilt /\ TypesCompiled
  /\ \A t \in Threads : ThreadInv(t)

-----------------------------------------------------------------------------
(* The engine's own steps.                                                 *)

LEMMA CompiledStays ==
  ASSUME NamesUnique', built \subseteq built', compiled \subseteq compiled',
         NEW n, CompiledName(n)
  PROVE  CompiledName(n)'
  BY DEF NamesUnique, CompiledName, Find

\* What a step of the engine does to the call it is part of.
Moves(t) ==
  \/ at[t] = "add_file" /\ at'[t] = "ruby"
     /\ (ret'[t] = "ok" => NameOf[arg[t]] \in BuiltNames')
  \/ at[t] = "message_type" /\ at'[t] = "ruby" /\ ret'[t] # "ok"
  \/ at[t] = "compile" /\ at'[t] = "compiling" /\ arg'[t] = arg[t]
     /\ ret'[t] = ret[t]
  \/ at[t] = "compiling" /\ at'[t] = "returning" /\ arg'[t] = arg[t]
     /\ (ret'[t] = "ok" => CompiledName(arg[t])')
  \/ at[t] = "validate" /\ at'[t] = "ensuring" /\ arg'[t] = arg[t]
  \/ at[t] = "ensuring" /\ at'[t] \in {"evaluating", "returning"}
     /\ arg'[t] = arg[t]
  \/ at[t] = "evaluating" /\ at'[t] \in {"evaluating", "returning"}
     /\ arg'[t] = arg[t]
  \/ at[t] = "returning" /\ at'[t] = "ruby" /\ ret'[t] = ret[t]

LEMMA EngineFrame ==
  ASSUME EngineInv, NamesUnique, NEW t \in Threads, EngineStep(t)
  PROVE  /\ built \subseteq built' /\ compiled \subseteq compiled'
         /\ NamesUnique'
         /\ \A u \in Threads \ {t} :
              at'[u] = at[u] /\ arg'[u] = arg[u] /\ ret'[u] = ret[u]
         /\ Moves(t)
<1> USE DEF EngineInv, EngineTypeOK, ArgOK
<1>1. CASE AddFile(t)
  <2>1. PICK r \in {"ok", "argument"} :
          /\ Return(t, r)
          /\ \/ UNCHANGED built /\ (r = "ok" => NameOf[arg[t]] \in BuiltNames)
             \/ built' = built \cup {arg[t]} /\ Builds(arg[t])
    BY <1>1 DEF AddFile
  <2>2. at[t] = "add_file" /\ UNCHANGED compiled /\ arg[t] \in Files
    BY <1>1 DEF AddFile
  <2>3. NamesUnique'
    BY <2>1, SchemaAssumption DEF NamesUnique, Builds
  <2>4. ret'[t] = "ok" => NameOf[arg[t]] \in BuiltNames'
    BY <2>1 DEF Return, BuiltNames, Names
  <2> QED BY <2>1, <2>2, <2>3, <2>4 DEF Return, Moves
<1>2. CASE MessageType(t)
  BY <1>2 DEF MessageType, Return, Moves, pool, NamesUnique
<1>3. CASE LockCompile(t)
  BY <1>3 DEF LockCompile, Moves, pool, NamesUnique
<1>4. CASE Compile(t)
  <2>1. NamesUnique' /\ UNCHANGED built
    BY <1>4 DEF Compile, NamesUnique
  <2>2. compiled \subseteq compiled'
    BY <1>4 DEF Compile, EnsureOk, EnsureFails
  <2>3. PICK r : Leave(t, r) /\ (r = "ok" => \E d \in Find(arg[t]) : d \in compiled')
    BY <1>4 DEF Compile, EnsureOk
  <2>4. ret'[t] = "ok" => CompiledName(arg[t])'
    BY <2>1, <2>3 DEF Leave, CompiledName, Find, NamesUnique
  <2> QED BY <1>4, <2>1, <2>2, <2>3, <2>4 DEF Leave, Moves, Compile
<1>5. CASE LockValidate(t)
  BY <1>5 DEF LockValidate, Moves, pool, NamesUnique
<1>6. CASE Ensure(t)
  <2>1. NamesUnique' /\ UNCHANGED built /\ at[t] = "ensuring"
    BY <1>6 DEF Ensure, NamesUnique
  <2>2. compiled \subseteq compiled'
    BY <1>6 DEF Ensure, EnsureOk, EnsureFails
  <2>3. \/ at' = [at EXCEPT ![t] = "evaluating"] /\ UNCHANGED <<arg, ret>>
        \/ \E r : Leave(t, r)
    BY <1>6 DEF Ensure
  <2> QED BY <2>1, <2>2, <2>3 DEF Leave, Moves
<1>7. CASE Unpack(t)
  <2>1. NamesUnique' /\ UNCHANGED <<built, compiled>> /\ at[t] = "evaluating"
    BY <1>7 DEF Unpack, NamesUnique
  <2>2. UNCHANGED <<at, arg, ret>> \/ \E r : Leave(t, r)
    BY <1>7 DEF Unpack
  <2> QED BY <2>1, <2>2 DEF Leave, Moves
<1>8. CASE Evaluate(t)
  BY <1>8 DEF Evaluate, Leave, Moves, pool, NamesUnique
<1>9. CASE Reacquire(t)
  BY <1>9 DEF Reacquire, Return, Moves, pool, NamesUnique
<1> QED BY <1>1, <1>2, <1>3, <1>4, <1>5, <1>6, <1>7, <1>8, <1>9 DEF EngineStep

\* The state of thread u is left alone.
Untouched(u) ==
  /\ at'[u] = at[u] /\ arg'[u] = arg[u] /\ ret'[u] = ret[u]
  /\ pc'[u] = pc[u] /\ asked'[u] = asked[u] /\ rest'[u] = rest[u]
  /\ frames'[u] = frames[u] /\ snapshot'[u] = snapshot[u]

\* What holds of a thread is not disturbed by others that add to the engine, to
\* @registered_files and, with the mutex, to @types.
LEMMA OtherThreads ==
  ASSUME NEW u \in Threads, ThreadInv(u), Untouched(u),
         BuiltNames \subseteq BuiltNames', registered \subseteq registered',
         \A n : CompiledName(n) => CompiledName(n)',
         types \subseteq types', pc[u] = "publish" => types' = types
  PROVE  ThreadInv(u)'
<1> USE DEF ThreadInv, Untouched
<1>1. /\ Top(u)' = Top(u) /\ Class(u)' = Class(u)
      /\ NameOfClass(u)' = NameOfClass(u)
  BY DEF Top, Class, NameOfClass
<1>2. CallMatches(u)'
  BY <1>1 DEF CallMatches
<1>3. InHand(u)'
  BY <1>1 DEF InHand, SkipsUnknown
<1>4. ResultHolds(u)'
  BY <1>1 DEF ResultHolds
<1>5. FramesCover(u)'
  BY DEF FramesCover
<1> QED BY <1>2, <1>3, <1>4, <1>5

LEMMA NativeInv ==
  ASSUME VInv, NEW t \in Threads, Native(t)
  PROVE  VInv'
<1>1. EngineStep(t) /\ UNCHANGED <<rubyShared, rubyLocal>>
  BY DEF Native
<1>2. /\ UNCHANGED <<types, registered, owner>>
      /\ UNCHANGED <<pc, asked, rest, frames, snapshot, outcome>>
  BY <1>1 DEF rubyShared, rubyLocal
<1>3. EngineInv'
  BY <1>1, EngineStepInv DEF VInv
<1>4. /\ built \subseteq built' /\ compiled \subseteq compiled'
      /\ NamesUnique'
      /\ \A u \in Threads \ {t} :
           at'[u] = at[u] /\ arg'[u] = arg[u] /\ ret'[u] = ret[u]
      /\ Moves(t)
  BY <1>1, EngineFrame DEF VInv
<1>5. \A n : CompiledName(n) => CompiledName(n)'
  BY <1>4, CompiledStays
<1>6. BuiltNames \subseteq BuiltNames'
  BY <1>4 DEF BuiltNames, Names
<1>7. RubyTypes' /\ MutexInBlock' /\ RegisteredAreBuilt' /\ TypesCompiled'
  BY <1>2, <1>5, <1>6
  DEF VInv, RubyTypes, MutexInBlock, RegisteredAreBuilt, TypesCompiled
<1>8. \A u \in Threads \ {t} : ThreadInv(u)'
  BY <1>2, <1>4, <1>5, <1>6, OtherThreads DEF VInv, Untouched
<1>9. ThreadInv(t)'
  <2>1. /\ UNCHANGED <<Top(t), Class(t), NameOfClass(t)>>
        /\ ThreadInv(t)
    BY <1>2 DEF VInv, Top, Class, NameOfClass
  <2>2. CallMatches(t)'
    BY <1>2, <1>4, <2>1 DEF ThreadInv, CallMatches, Moves
  <2>3. InHand(t)' /\ FramesCover(t)'
    BY <1>2, <1>5, <2>1 DEF ThreadInv, InHand, SkipsUnknown, FramesCover
  <2>4. ResultHolds(t)'
    <3>1. CASE ret'[t] = ret[t]
      BY <1>2, <1>5, <1>6, <2>1, <3>1 DEF ThreadInv, ResultHolds
    <3>2. CASE ret'[t] # ret[t]
      BY <1>2, <1>4, <2>1, <3>2 DEF ThreadInv, ResultHolds, CallMatches, Moves
    <3> QED BY <3>1, <3>2
  <2> QED BY <2>2, <2>3, <2>4 DEF ThreadInv
<1> QED BY <1>3, <1>4, <1>7, <1>8, <1>9 DEF VInv

-----------------------------------------------------------------------------
(* The Ruby steps.                                                         *)

LEMMA NameOfClassType ==
  ASSUME NEW t, Class(t) \in MessageClasses
  PROVE  NameOfClass(t) \in TypeNames /\ FileOf(Class(t)) \in Files
  BY CatalogAssumption, SchemaAssumption DEF NameOfClass, FileOf

\* A step of t in Ruby code keeps the invariant if it does so for t itself, and
\* changes @types only with the mutex.
LEMMA RubyStepInv ==
  ASSUME VInv, NEW t \in Threads, UNCHANGED pool,
         EngineInv', RubyTypes', MutexInBlock', ThreadInv(t)',
         \A u \in Threads \ {t} : Untouched(u),
         registered \subseteq registered', registered' \subseteq BuiltNames,
         types \subseteq types', types' = types \/ owner = t,
         \A c \in types' : CompiledName(TypeName[Descriptor[c]])
  PROVE  VInv'
<1>1. /\ UNCHANGED <<built, compiled, BuiltNames>>
      /\ \A n : CompiledName(n)' = CompiledName(n)
  BY DEF pool, BuiltNames, Names, CompiledName, Find
<1>2. NamesUnique' /\ RegisteredAreBuilt' /\ TypesCompiled'
  BY <1>1 DEF VInv, NamesUnique, RegisteredAreBuilt, TypesCompiled
<1>3. \A u \in Threads \ {t} : pc[u] = "publish" => types' = types
  BY DEF VInv, MutexInBlock, Synchronized
<1>4. \A u \in Threads \ {t} : ThreadInv(u)'
  BY <1>1, <1>3, OtherThreads DEF VInv
<1> QED BY <1>2, <1>4 DEF VInv

\* A call that ends, or is interrupted, gives back all it had.
LEMMA FinishInv ==
  ASSUME VInv, NEW t \in Threads, NEW o, HasGVL(t), Finish(t, o), EngineInv',
         UNCHANGED <<pool, at, arg, types, registered>>,
         ret' \in {ret, [ret EXCEPT ![t] = "none"]}
  PROVE  VInv'
<1> USE DEF VInv, Finish, Goto
<1>1. RubyTypes'
  BY DEF RubyTypes, RubyPlaces
<1>2. MutexInBlock'
  BY ThreadAssumption DEF RubyTypes, MutexInBlock, Synchronized
<1>3. \A u \in Threads \ {t} : Untouched(u)
  BY DEF RubyTypes, EngineInv, EngineTypeOK, Untouched
<1>4. ThreadInv(t)'
  BY DEF RubyTypes, ThreadInv, CallMatches, InHand, ResultHolds, FramesCover, HasGVL,
         Synchronized
<1> QED BY <1>1, <1>2, <1>3, <1>4, RubyStepInv DEF RegisteredAreBuilt, TypesCompiled

\* A class that is resolved: the block of `synchronize`, if it was entered, is
\* left, and the class is published if a message of it is to be validated.
LEMMA ResolvedInv ==
  ASSUME VInv, NEW t \in Threads, HasGVL(t), Resolved(t), EngineInv',
         UNCHANGED <<pool, at, arg, registered>>,
         ret' \in {ret, [ret EXCEPT ![t] = "none"]},
         pc[t] # "idle", types' \subseteq MessageClasses,
         types \subseteq types', types' = types \/ owner = t,
         \A c \in types' : CompiledName(TypeName[Descriptor[c]]),
         asked[t].op = "validate" => Class(t) \in types'
  PROVE  VInv'
<1> USE DEF VInv
<1>1. /\ \/ /\ pc' = [pc EXCEPT ![t] = "validate"]
            /\ rest' = rest /\ asked[t].op = "validate"
         \/ /\ pc' = [pc EXCEPT ![t] = "resolve"]
            /\ rest' = [rest EXCEPT ![t] = Tail(@)]
      /\ frames' = [frames EXCEPT ![t] = <<>>]
      /\ snapshot' = [snapshot EXCEPT ![t] = {}]
      /\ owner' = IF owner = t THEN NoThread ELSE owner
      /\ UNCHANGED <<asked, outcome>>
  BY DEF Resolved, Goto
<1>2. RubyTypes'
  <2>1. pc' \in [Threads -> RubyPlaces] /\ DOMAIN rest' = Threads
    BY <1>1 DEF RubyTypes, RubyPlaces
  <2>2. frames' \in [Threads -> Seq(Activations)]
    BY <1>1 DEF RubyTypes
  <2> QED BY <1>1, <2>1, <2>2 DEF RubyTypes
<1>3. MutexInBlock'
  BY <1>1, ThreadAssumption DEF RubyTypes, MutexInBlock, Synchronized
<1>4. \A u \in Threads \ {t} : Untouched(u)
  BY <1>1 DEF RubyTypes, EngineInv, EngineTypeOK, Untouched
<1>5. ThreadInv(t)'
  <2>1. pc'[t] \in {"validate", "resolve"} /\ frames'[t] = <<>>
    BY <1>1 DEF RubyTypes
  <2>2. pc'[t] = "validate" => asked'[t].op = "validate" /\ Class(t)' \in types'
    BY <1>1 DEF RubyTypes, Class
  <2>3. InHand(t)'
    BY <1>1, <2>1, <2>2 DEF ThreadInv, InHand, Synchronized
  <2> QED BY <2>1, <2>3 DEF HasGVL, ThreadInv, CallMatches, ResultHolds, FramesCover
<1> QED BY <1>2, <1>3, <1>4, <1>5, RubyStepInv DEF RegisteredAreBuilt

\* What the step of a thread in Ruby code finds.
LEMMA AtPlace ==
  ASSUME VInv, NEW t \in Threads, NEW place, At(t, place)
  PROVE  /\ HasGVL(t) /\ at[t] = "ruby" /\ pc[t] = place
         /\ ThreadInv(t) /\ RubyTypes
         /\ registered \subseteq BuiltNames
         /\ \A c \in types : CompiledName(TypeName[Descriptor[c]])
  BY DEF At, HasGVL, VInv, RegisteredAreBuilt, TypesCompiled

LEMMA CallStepInv ==
  ASSUME VInv, NEW t \in Threads, Call(t)
  PROVE  VInv'
<1>1. At(t, "idle") /\ UNCHANGED <<pool, at, arg, ret, rubyShared, frames, snapshot>>
  BY DEF Call, engineVars, call
<1>2. PICK c \in Calls :
        /\ asked' = [asked EXCEPT ![t] = c]
        /\ rest' = [rest EXCEPT ![t] = ClassesOf(c)]
  BY DEF Call
<1>3. /\ pc' = [pc EXCEPT ![t] = "resolve"]
      /\ outcome' = [outcome EXCEPT ![t] = "none"]
  BY DEF Call, Goto
<1>4. EngineInv'
  BY EngineStutterInv DEF VInv, Call
<1>5. RubyTypes'
  BY <1>1, <1>2, <1>3, AtPlace DEF RubyTypes, RubyPlaces, rubyShared
<1>6. MutexInBlock'
  BY <1>1, <1>3 DEF At, VInv, RubyTypes, MutexInBlock, Synchronized, rubyShared
<1>7. \A u \in Threads \ {t} : Untouched(u)
  BY <1>1, <1>2, <1>3 DEF VInv, RubyTypes, Untouched
<1>8. ThreadInv(t)'
  <2>1. pc'[t] = "resolve" /\ asked'[t] # NoCall /\ frames'[t] = <<>> /\ at'[t] = "ruby"
    BY <1>1, <1>2, <1>3, AtPlace, NoCallAssumption DEF RubyTypes, ThreadInv, InHand
  <2> QED BY <2>1 DEF ThreadInv, CallMatches, InHand, ResultHolds, FramesCover,
                      Synchronized
<1> QED BY <1>1, <1>4, <1>5, <1>6, <1>7, <1>8, AtPlace, RubyStepInv DEF rubyShared

LEMMA AllRegisteredInv ==
  ASSUME VInv, NEW t \in Threads, AllRegistered(t)
  PROVE  VInv'
  BY FinishInv, EngineStutterInv
  DEF AllRegistered, At, VInv, engineVars, call

LEMMA FastPathInv ==
  ASSUME VInv, NEW t \in Threads, FastPath(t)
  PROVE  VInv'
<1>1. /\ At(t, "resolve") /\ Class(t) \in types /\ Resolved(t)
      /\ UNCHANGED <<engineVars, pool, at, arg, ret, types, registered>>
  BY DEF FastPath, engineVars, call
<1>2. EngineInv'
  BY <1>1, EngineStutterInv DEF VInv
<1> QED BY <1>1, <1>2, AtPlace, ResolvedInv DEF RubyTypes

LEMMA SlowPathInv ==
  ASSUME VInv, NEW t \in Threads, SlowPath(t)
  PROVE  VInv'
<1>1. /\ At(t, "resolve")
      /\ UNCHANGED <<pool, at, arg, ret, types, registered>>
  BY DEF SlowPath, engineVars, call
<1>2. EngineInv'
  BY EngineStutterInv DEF SlowPath, VInv
<1>3. CASE Finish(t, "type_error")
  BY <1>1, <1>2, <1>3, AtPlace, FinishInv
<1>4. CASE /\ Class(t) \in MessageClasses
           /\ pc' = [pc EXCEPT ![t] = "acquire"]
           /\ UNCHANGED <<owner, asked, rest, frames, snapshot, outcome>>
  <2>1. RubyTypes'
    BY <1>1, <1>4, AtPlace DEF RubyTypes, RubyPlaces
  <2>2. MutexInBlock'
    BY <1>1, <1>4 DEF At, VInv, RubyTypes, MutexInBlock, Synchronized
  <2>3. \A u \in Threads \ {t} : Untouched(u)
    BY <1>1, <1>4 DEF VInv, RubyTypes, Untouched
  <2>4. ThreadInv(t)'
    <3>1. pc'[t] = "acquire" /\ at'[t] = "ruby" /\ frames'[t] = <<>>
      BY <1>1, <1>4, AtPlace DEF RubyTypes, ThreadInv, InHand
    <3>2. InHand(t)'
      BY <1>1, <1>4, <3>1, AtPlace DEF ThreadInv, InHand, Class, Synchronized
    <3> QED BY <3>1, <3>2 DEF ThreadInv, CallMatches, ResultHolds, FramesCover
  <2> QED BY <1>1, <1>2, <2>1, <2>2, <2>3, <2>4, AtPlace, RubyStepInv
<1> QED BY <1>3, <1>4 DEF SlowPath, Goto

LEMMA AcquireInv ==
  ASSUME VInv, NEW t \in Threads, Acquire(t)
  PROVE  VInv'
<1>1. /\ At(t, "acquire") /\ owner = NoThread /\ owner' = t
      /\ pc' = [pc EXCEPT ![t] = "recheck"]
      /\ UNCHANGED <<pool, at, arg, ret, types, registered>>
      /\ UNCHANGED <<asked, rest, frames, snapshot, outcome>>
  BY DEF Acquire, Goto, engineVars, call
<1>2. EngineInv'
  BY EngineStutterInv DEF Acquire, VInv
<1>3. RubyTypes'
  BY <1>1, AtPlace DEF RubyTypes, RubyPlaces, Synchronized
<1>4. MutexInBlock'
  BY <1>1, ThreadAssumption DEF VInv, RubyTypes, MutexInBlock, Synchronized
<1>5. \A u \in Threads \ {t} : Untouched(u)
  BY <1>1 DEF VInv, RubyTypes, Untouched
<1>6. ThreadInv(t)'
  <2>1. pc'[t] = "recheck" /\ at'[t] = "ruby" /\ frames'[t] = <<>>
    BY <1>1, AtPlace DEF RubyTypes, ThreadInv, InHand
  <2>2. InHand(t)'
    BY <1>1, <2>1, AtPlace DEF ThreadInv, InHand, Class, Synchronized
  <2> QED BY <2>1, <2>2 DEF ThreadInv, CallMatches, ResultHolds, FramesCover
<1> QED BY <1>1, <1>2, <1>3, <1>4, <1>5, <1>6, AtPlace, RubyStepInv

\* register_file starts with the file of the class and all its imports to do.
LEMMA RecheckInv ==
  ASSUME VInv, NEW t \in Threads, Recheck(t)
  PROVE  VInv'
<1>1. /\ At(t, "recheck")
      /\ UNCHANGED <<pool, at, arg, ret, types, registered>>
  BY DEF Recheck, engineVars, call
<1>2. EngineInv'
  BY EngineStutterInv DEF Recheck, VInv
<1>3. CASE Class(t) \in types
  <2>1. Resolved(t)
    BY <1>3 DEF Recheck
  <2> QED BY <1>1, <1>2, <1>3, <2>1, AtPlace, ResolvedInv DEF RubyTypes
<1>4. CASE Class(t) \notin types
  <2> DEFINE f == FileOf(Class(t))
  <2>1. f \in Files /\ Class(t) \in MessageClasses
    BY <1>1, AtPlace, NameOfClassType DEF ThreadInv, InHand, Synchronized
  <2> HIDE DEF f
  <2>2. /\ pc' = [pc EXCEPT ![t] = "files"]
        /\ UNCHANGED <<owner, asked, rest, snapshot, outcome>>
    BY <1>4 DEF Recheck, Goto
  <2>3. \/ frames' = [frames EXCEPT ![t] = <<>>]
        \/ frames' = [frames EXCEPT ![t] = <<[file |-> f, imports |-> Imports[f]]>>]
    BY <1>4 DEF Recheck, f
  <2>4. [file |-> f, imports |-> Imports[f]] \in Activations
    BY <2>1, SchemaAssumption DEF Activations
  <2>5. RubyTypes'
    <3>1. <<>> \in Seq(Activations) /\ \A a \in Activations : <<a>> \in Seq(Activations)
      OBVIOUS
    <3>2. PICK s \in Seq(Activations) : frames' = [frames EXCEPT ![t] = s]
      BY <2>3, <2>4, <3>1
    <3>3. frames' \in [Threads -> Seq(Activations)]
      BY <1>1, <3>2, AtPlace DEF RubyTypes
    <3> QED BY <1>1, <2>2, <3>3, AtPlace DEF RubyTypes, RubyPlaces, Synchronized
  <2>6. MutexInBlock'
    BY <1>1, <2>2 DEF At, VInv, RubyTypes, MutexInBlock, Synchronized
  <2>7. \A u \in Threads \ {t} : Untouched(u)
    BY <1>1, <2>2, <2>3 DEF VInv, RubyTypes, Untouched
  <2>8. ThreadInv(t)'
    <3>1. pc'[t] = "files" /\ at'[t] = "ruby"
      BY <1>1, <2>2, AtPlace DEF RubyTypes
    <3>2. InHand(t)'
      BY <1>1, <2>2, <3>1, AtPlace DEF ThreadInv, InHand, Class, Synchronized
    <3>3. FramesCover(t)'
      <4>1. CASE frames'[t] = <<>>
        BY <4>1 DEF FramesCover
      <4>2. CASE frames'[t] = <<[file |-> f, imports |-> Imports[f]]>>
        BY <4>2 DEF FramesCover, ImportNames
      <4> QED BY <1>1, <2>3, <4>1, <4>2, AtPlace DEF RubyTypes
    <3> QED BY <3>1, <3>2, <3>3 DEF ThreadInv, CallMatches, ResultHolds
  <2> QED BY <1>1, <1>2, <2>5, <2>6, <2>7, <2>8, AtPlace, RubyStepInv
<1> QED BY <1>3, <1>4

\* A sequence that is not empty is its head and its tail.
LEMMA HeadTail ==
  ASSUME NEW S, NEW s \in Seq(S), s # <<>>
  PROVE  /\ Head(s) \in S /\ Tail(s) \in Seq(S) /\ Head(s) = s[1]
         /\ Range(s) = {Head(s)} \cup Range(Tail(s))
<1>1. /\ Len(s) \in Nat \ {0} /\ DOMAIN s = 1 .. Len(s)
      /\ DOMAIN Tail(s) = 1 .. Len(s) - 1
      /\ \A i \in 1 .. Len(s) - 1 : Tail(s)[i] = s[i + 1]
      /\ Head(s) = s[1] /\ Head(s) \in S /\ Tail(s) \in Seq(S)
  OBVIOUS
<1>2. \A i \in 1 .. Len(s) : i = 1 \/ s[i] = Tail(s)[i - 1]
  BY <1>1
<1>3. Range(s) \subseteq {Head(s)} \cup Range(Tail(s))
  <2> SUFFICES ASSUME NEW i \in 1 .. Len(s)
               PROVE  s[i] \in {Head(s)} \cup Range(Tail(s))
    BY <1>1 DEF Range
  <2>1. CASE i = 1
    BY <1>1, <2>1
  <2>2. CASE i # 1
    <3>1. i - 1 \in DOMAIN Tail(s) /\ s[i] = Tail(s)[i - 1]
      BY <1>1, <1>2, <2>2
    <3> QED BY <3>1 DEF Range
  <2> QED BY <2>1, <2>2
<1>4. {Head(s)} \cup Range(Tail(s)) \subseteq Range(s)
  BY <1>1 DEF Range
<1> QED BY <1>1, <1>3, <1>4

\* The frames after the next import of the file on top was looked at.
LEMMA Pushed ==
  ASSUME NEW S, NEW s \in Seq(S), s # <<>>, NEW here \in S, NEW a \in S
  PROVE  /\ <<>> \o <<here>> \o Tail(s) \in Seq(S)
         /\ Len(<<>> \o <<here>> \o Tail(s)) = Len(s)
         /\ \A i \in 1 .. Len(s) :
              (<<>> \o <<here>> \o Tail(s))[i] = IF i = 1 THEN here ELSE s[i]
         /\ <<a>> \o <<here>> \o Tail(s) \in Seq(S)
         /\ Len(<<a>> \o <<here>> \o Tail(s)) = Len(s) + 1
         /\ \A i \in 1 .. Len(s) + 1 :
              (<<a>> \o <<here>> \o Tail(s))[i] =
                IF i = 1 THEN a ELSE IF i = 2 THEN here ELSE s[i - 1]
<1>1. /\ Len(s) \in Nat \ {0} /\ Tail(s) \in Seq(S) /\ Len(Tail(s)) = Len(s) - 1
      /\ \A i \in 1 .. Len(s) - 1 : Tail(s)[i] = s[i + 1]
  OBVIOUS
<1>2. /\ <<>> \o <<here>> = <<here>> /\ <<here>> \in Seq(S)
      /\ Len(<<here>>) = 1 /\ <<here>>[1] = here
  OBVIOUS
<1>3. /\ <<a>> \o <<here>> \in Seq(S) /\ Len(<<a>> \o <<here>>) = 2
      /\ (<<a>> \o <<here>>)[1] = a /\ (<<a>> \o <<here>>)[2] = here
  <2>1. /\ <<a>> \in Seq(S) /\ Len(<<a>>) = 1 /\ <<a>>[1] = a
        /\ <<here>> \in Seq(S) /\ Len(<<here>>) = 1 /\ <<here>>[1] = here
    OBVIOUS
  <2>2. \A p, q \in Seq(S) :
          /\ p \o q \in Seq(S) /\ Len(p \o q) = Len(p) + Len(q)
          /\ \A i \in 1 .. Len(p) : (p \o q)[i] = p[i]
          /\ \A i \in Len(p) + 1 .. Len(p) + Len(q) : (p \o q)[i] = q[i - Len(p)]
    OBVIOUS
  <2> QED BY <2>1, <2>2
<1>4. ASSUME NEW p \in Seq(S)
      PROVE  /\ p \o Tail(s) \in Seq(S) /\ Len(p \o Tail(s)) = Len(p) + Len(s) - 1
             /\ \A i \in 1 .. Len(p) : (p \o Tail(s))[i] = p[i]
             /\ \A i \in Len(p) + 1 .. Len(p) + Len(s) - 1 :
                  (p \o Tail(s))[i] = s[i - Len(p) + 1]
  BY <1>1
<1>5. /\ <<>> \o <<here>> \o Tail(s) \in Seq(S)
      /\ Len(<<>> \o <<here>> \o Tail(s)) = Len(s)
      /\ \A i \in 1 .. Len(s) :
           (<<>> \o <<here>> \o Tail(s))[i] = IF i = 1 THEN here ELSE s[i]
  BY <1>1, <1>2, <1>4
<1>6. /\ <<a>> \o <<here>> \o Tail(s) \in Seq(S)
      /\ Len(<<a>> \o <<here>> \o Tail(s)) = Len(s) + 1
      /\ \A i \in 1 .. Len(s) + 1 :
           (<<a>> \o <<here>> \o Tail(s))[i] =
             IF i = 1 THEN a ELSE IF i = 2 THEN here ELSE s[i - 1]
  BY <1>1, <1>3, <1>4
<1> QED BY <1>5, <1>6

LEMMA ImportInv ==
  ASSUME VInv, NEW t \in Threads, Import(t)
  PROVE  VInv'
<1> DEFINE n == Head(Top(t).imports)
           here == [Top(t) EXCEPT !.imports = Tail(@)]
           f == Pool[n]
           a == [file |-> f, imports |-> Imports[f]]
           s == frames[t]
<1>1. /\ At(t, "files") /\ s # <<>> /\ Top(t).imports # <<>>
      /\ UNCHANGED <<pool, at, arg, ret, types, registered>>
  BY DEF Import, engineVars, call
<1>2. EngineInv'
  BY EngineStutterInv DEF Import, VInv
<1>3. CASE Finish(t, "argument_error")
  BY <1>1, <1>2, <1>3, AtPlace, FinishInv
<1>4. CASE /\ f # NoFile
           /\ frames' = [frames EXCEPT ![t] =
                 (IF n \in registered THEN <<>> ELSE <<a>>) \o <<here>> \o Below(t)]
           /\ UNCHANGED <<owner, pc, asked, rest, snapshot, outcome>>
  <2>1. /\ s \in Seq(Activations) /\ Top(t) = s[1] /\ Top(t) \in Activations
        /\ Below(t) = Tail(s)
    BY <1>1, AtPlace, HeadTail DEF RubyTypes, Top, Below
  <2>2. /\ n \in FileNames /\ here \in Activations /\ here.file = Top(t).file
        /\ Range(Top(t).imports) = {n} \cup Range(here.imports)
    BY <1>1, <2>1, HeadTail DEF Activations
  <2>3. f \in Files /\ NameOf[f] = n /\ a \in Activations
        /\ a.file = f /\ a.imports = Imports[f]
    BY <1>4, <2>2, CatalogAssumption, SchemaAssumption DEF Activations
  <2> HIDE DEF n, here, f, a
  <2>4. \/ /\ n \in registered
           /\ frames' = [frames EXCEPT ![t] = <<>> \o <<here>> \o Tail(s)]
        \/ /\ n \notin registered
           /\ frames' = [frames EXCEPT ![t] = <<a>> \o <<here>> \o Tail(s)]
    BY <1>4, <2>1
  <2>5. PICK q \in Seq(Activations) :
          /\ frames' = [frames EXCEPT ![t] = q]
          /\ \/ /\ n \in registered /\ Len(q) = Len(s)
                /\ \A i \in 1 .. Len(s) : q[i] = IF i = 1 THEN here ELSE s[i]
             \/ /\ Len(q) = Len(s) + 1
                /\ \A i \in 1 .. Len(s) + 1 :
                     q[i] = IF i = 1 THEN a ELSE IF i = 2 THEN here ELSE s[i - 1]
    <3>1. /\ <<>> \o <<here>> \o Tail(s) \in Seq(Activations)
          /\ Len(<<>> \o <<here>> \o Tail(s)) = Len(s)
          /\ \A i \in 1 .. Len(s) :
               (<<>> \o <<here>> \o Tail(s))[i] = IF i = 1 THEN here ELSE s[i]
      BY <1>1, <2>1, <2>2, <2>3, Pushed
    <3>2. /\ <<a>> \o <<here>> \o Tail(s) \in Seq(Activations)
          /\ Len(<<a>> \o <<here>> \o Tail(s)) = Len(s) + 1
          /\ \A i \in 1 .. Len(s) + 1 :
               (<<a>> \o <<here>> \o Tail(s))[i] =
                 IF i = 1 THEN a ELSE IF i = 2 THEN here ELSE s[i - 1]
      BY <1>1, <2>1, <2>2, <2>3, Pushed
    <3>3. CASE n \in registered
      BY <2>4, <3>1, <3>3
    <3>4. CASE n \notin registered
      BY <2>4, <3>2, <3>4
    <3> QED BY <3>3, <3>4
  <2>6. RubyTypes'
    BY <1>1, <1>4, <2>5, AtPlace DEF RubyTypes
  <2>7. MutexInBlock'
    BY <1>4 DEF VInv, MutexInBlock
  <2>8. \A u \in Threads \ {t} : Untouched(u)
    BY <1>1, <1>4, <2>5 DEF VInv, RubyTypes, Untouched
  <2>9. FramesCover(t)'
    <3>1. \A i \in 1 .. Len(s) :
            ImportNames(s[i].file) \subseteq
              registered \cup Range(s[i].imports) \cup {NameOf[s[j].file] : j \in 1 .. i - 1}
      BY <1>1, AtPlace DEF ThreadInv, FramesCover
    <3>2. ImportNames(here.file) \subseteq registered \cup {n} \cup Range(here.imports)
      BY <1>1, <2>1, <2>2, <3>1
    <3>3. frames'[t] = q /\ Len(s) \in Nat \ {0}
      BY <1>1, <2>1, <2>5, AtPlace DEF RubyTypes
    <3>4. CASE /\ n \in registered /\ Len(q) = Len(s)
               /\ \A i \in 1 .. Len(s) : q[i] = IF i = 1 THEN here ELSE s[i]
      <4>1. \A i \in 1 .. Len(s) : q[i].file = s[i].file
        BY <2>1, <2>2, <3>4
      <4> SUFFICES ASSUME NEW i \in 1 .. Len(q)
                   PROVE  ImportNames(q[i].file) \subseteq
                            registered \cup Range(q[i].imports)
                            \cup {NameOf[q[j].file] : j \in 1 .. i - 1}
        BY <1>1, <3>3 DEF FramesCover
      <4>2. CASE i = 1
        BY <3>2, <3>3, <3>4, <4>2
      <4>3. CASE i # 1
        <5>1. q[i] = s[i]
          BY <3>4, <4>3
        <5>2. {NameOf[q[j].file] : j \in 1 .. i - 1}
                = {NameOf[s[j].file] : j \in 1 .. i - 1}
          BY <3>3, <3>4, <4>1
        <5> QED BY <3>1, <3>4, <5>1, <5>2
      <4> QED BY <4>2, <4>3
    <3>5. CASE /\ Len(q) = Len(s) + 1
               /\ \A i \in 1 .. Len(s) + 1 :
                    q[i] = IF i = 1 THEN a ELSE IF i = 2 THEN here ELSE s[i - 1]
      <4>1. \A j \in 1 .. Len(s) : q[j + 1].file = s[j].file
        BY <2>1, <2>2, <3>3, <3>5
      <4> SUFFICES ASSUME NEW i \in 1 .. Len(q)
                   PROVE  ImportNames(q[i].file) \subseteq
                            registered \cup Range(q[i].imports)
                            \cup {NameOf[q[j].file] : j \in 1 .. i - 1}
        BY <1>1, <3>3 DEF FramesCover
      <4>2. CASE i = 1
        BY <2>3, <3>3, <3>5, <4>2 DEF ImportNames
      <4>3. CASE i = 2
        <5>1. n \in {NameOf[q[j].file] : j \in 1 .. i - 1}
          BY <2>3, <3>3, <3>5, <4>3
        <5> QED BY <3>2, <3>3, <3>5, <4>3, <5>1
      <4>4. CASE i # 1 /\ i # 2
        <5>1. i - 1 \in 1 .. Len(s) /\ q[i] = s[i - 1]
          BY <3>3, <3>5, <4>4
        <5>2. {NameOf[s[j].file] : j \in 1 .. (i - 1) - 1}
                \subseteq {NameOf[q[j].file] : j \in 1 .. i - 1}
          <6> SUFFICES ASSUME NEW j \in 1 .. (i - 1) - 1
                       PROVE  \E k \in 1 .. i - 1 : NameOf[s[j].file] = NameOf[q[k].file]
            OBVIOUS
          <6>1. j + 1 \in 1 .. i - 1 /\ j \in 1 .. Len(s)
            BY <3>3, <3>5
          <6> QED BY <4>1, <6>1
        <5> QED BY <3>1, <5>1, <5>2
      <4> QED BY <4>2, <4>3, <4>4
    <3> QED BY <2>5, <3>4, <3>5
  <2>10. ThreadInv(t)'
    BY <1>1, <1>4, <2>9, AtPlace
    DEF ThreadInv, CallMatches, InHand, ResultHolds, Class, Synchronized
  <2> QED BY <1>1, <1>2, <2>6, <2>7, <2>8, <2>10, AtPlace, RubyStepInv
<1> QED BY <1>3, <1>4 DEF Import

\* Only a file with no import left to go through is added.
LEMMA AddInv ==
  ASSUME VInv, NEW t \in Threads, Add(t)
  PROVE  VInv'
<1>1. /\ pc[t] = "files" /\ frames[t] # <<>> /\ Top(t).imports = <<>>
      /\ pc' = [pc EXCEPT ![t] = "added"]
      /\ UNCHANGED <<pool, types, registered, owner>>
      /\ UNCHANGED <<asked, rest, frames, snapshot, outcome>>
  BY DEF Add, At, Goto, rubyShared, CallAddFile
<1>2. Top(t).file \in Files
  <2>1. frames[t] \in Seq(Activations)
    BY DEF VInv, RubyTypes
  <2>2. Top(t) \in Activations
    BY <1>1, <2>1, HeadTail DEF Top
  <2> QED BY <2>2 DEF Activations
<1>3. EngineInv'
  BY <1>2, CallInv DEF Add, VInv
<1>4. /\ at' = [at EXCEPT ![t] = "add_file"]
      /\ arg' = [arg EXCEPT ![t] = Top(t).file]
      /\ ret' = [ret EXCEPT ![t] = "none"]
  BY DEF Add, CallAddFile, Enter
<1>5. RubyTypes'
  BY <1>1 DEF VInv, RubyTypes, RubyPlaces, Synchronized
<1>6. MutexInBlock'
  BY <1>1 DEF VInv, RubyTypes, MutexInBlock, Synchronized
<1>7. \A u \in Threads \ {t} : Untouched(u)
  BY <1>1, <1>4 DEF VInv, EngineInv, EngineTypeOK, ArgOK, RubyTypes, Untouched
<1>8. ThreadInv(t)'
  <2>1. /\ pc'[t] = "added" /\ at'[t] = "add_file" /\ ret'[t] = "none"
        /\ arg'[t] = Top(t).file
        /\ ThreadInv(t)
    BY <1>1, <1>4 DEF VInv, EngineInv, EngineTypeOK, ArgOK, RubyTypes
  <2>2. UNCHANGED <<Top(t), Class(t), NameOfClass(t)>>
    BY <1>1 DEF Top, Class, NameOfClass
  <2>3. CallMatches(t)' /\ ResultHolds(t)'
    BY <2>1, <2>2 DEF CallMatches, ResultHolds
  <2>4. InHand(t)'
    BY <1>1, <1>2, <2>1, <2>2 DEF ThreadInv, InHand, Synchronized
  <2>5. FramesCover(t)'
    BY <1>1, <2>1 DEF ThreadInv, FramesCover
  <2> QED BY <2>3, <2>4, <2>5 DEF ThreadInv
<1> QED BY <1>1, <1>3, <1>5, <1>6, <1>7, <1>8, RubyStepInv
        DEF VInv, RegisteredAreBuilt, TypesCompiled

LEMMA AskKnownInv ==
  ASSUME VInv, NEW t \in Threads, AskKnown(t)
  PROVE  VInv'
<1>1. /\ pc[t] = "files" /\ frames[t] = <<>> /\ SkipsUnknown(t)
      /\ pc' = [pc EXCEPT ![t] = "known"]
      /\ UNCHANGED <<pool, types, registered, owner>>
      /\ UNCHANGED <<asked, rest, frames, snapshot, outcome>>
  BY DEF AskKnown, At, Goto, rubyShared, CallMessageType
<1>2. NameOfClass(t) \in TypeNames
  BY <1>1, NameOfClassType DEF VInv, ThreadInv, InHand, Synchronized
<1>3. EngineInv'
  BY <1>2, CallInv DEF AskKnown, VInv
<1>4. /\ at' = [at EXCEPT ![t] = "message_type"]
      /\ arg' = [arg EXCEPT ![t] = NameOfClass(t)]
      /\ ret' = [ret EXCEPT ![t] = "none"]
  BY DEF AskKnown, CallMessageType, Enter
<1>5. RubyTypes'
  BY <1>1 DEF VInv, RubyTypes, RubyPlaces, Synchronized
<1>6. MutexInBlock'
  BY <1>1 DEF VInv, RubyTypes, MutexInBlock, Synchronized
<1>7. \A u \in Threads \ {t} : Untouched(u)
  BY <1>1, <1>4 DEF VInv, EngineInv, EngineTypeOK, ArgOK, RubyTypes, Untouched
<1>8. ThreadInv(t)'
  <2>1. /\ pc'[t] = "known" /\ at'[t] = "message_type" /\ ret'[t] = "none"
        /\ arg'[t] = NameOfClass(t)
        /\ ThreadInv(t)
    BY <1>1, <1>4 DEF VInv, EngineInv, EngineTypeOK, ArgOK, RubyTypes
  <2>2. UNCHANGED <<Top(t), Class(t), NameOfClass(t)>>
    BY <1>1 DEF Top, Class, NameOfClass
  <2>3. CallMatches(t)' /\ ResultHolds(t)'
    BY <2>1, <2>2 DEF CallMatches, ResultHolds
  <2>4. InHand(t)'
    BY <1>1, <1>2, <2>1, <2>2 DEF ThreadInv, InHand, SkipsUnknown, Synchronized
  <2>5. FramesCover(t)'
    BY <1>1, <2>1 DEF ThreadInv, FramesCover
  <2> QED BY <2>3, <2>4, <2>5 DEF ThreadInv
<1> QED BY <1>1, <1>3, <1>5, <1>6, <1>7, <1>8, RubyStepInv
        DEF VInv, RegisteredAreBuilt, TypesCompiled

LEMMA CompileTypeInv ==
  ASSUME VInv, NEW t \in Threads, CompileType(t)
  PROVE  VInv'
<1>1. /\ pc[t] \in {"files", "known"} /\ frames[t] = <<>>
      /\ pc' = [pc EXCEPT ![t] = "compiled"]
      /\ UNCHANGED <<pool, types, registered, owner>>
      /\ UNCHANGED <<asked, rest, frames, snapshot, outcome>>
  BY DEF VInv, ThreadInv, InHand, CompileType, At, Goto, rubyShared, CallCompile
<1>2. NameOfClass(t) \in TypeNames
  BY <1>1, NameOfClassType DEF VInv, ThreadInv, InHand, Synchronized
<1>3. EngineInv'
  BY <1>2, CallInv DEF CompileType, VInv
<1>4. /\ at' = [at EXCEPT ![t] = "compile"]
      /\ arg' = [arg EXCEPT ![t] = NameOfClass(t)]
      /\ ret' = [ret EXCEPT ![t] = "none"]
  BY DEF CompileType, CallCompile, Enter
<1>5. RubyTypes'
  BY <1>1 DEF VInv, RubyTypes, RubyPlaces, Synchronized
<1>6. MutexInBlock'
  BY <1>1 DEF VInv, RubyTypes, MutexInBlock, Synchronized
<1>7. \A u \in Threads \ {t} : Untouched(u)
  BY <1>1, <1>4 DEF VInv, EngineInv, EngineTypeOK, ArgOK, RubyTypes, Untouched
<1>8. ThreadInv(t)'
  <2>1. /\ pc'[t] = "compiled" /\ at'[t] = "compile" /\ ret'[t] = "none"
        /\ arg'[t] = NameOfClass(t)
        /\ ThreadInv(t)
    BY <1>1, <1>4 DEF VInv, EngineInv, EngineTypeOK, ArgOK, RubyTypes
  <2>2. UNCHANGED <<Top(t), Class(t), NameOfClass(t)>>
    BY <1>1 DEF Top, Class, NameOfClass
  <2>3. CallMatches(t)' /\ ResultHolds(t)'
    BY <2>1, <2>2 DEF CallMatches, ResultHolds
  <2>4. InHand(t)'
    BY <1>1, <1>2, <2>1, <2>2 DEF ThreadInv, InHand, Synchronized
  <2>5. FramesCover(t)'
    BY <1>1, <2>1 DEF ThreadInv, FramesCover
  <2> QED BY <2>3, <2>4, <2>5 DEF ThreadInv
<1> QED BY <1>1, <1>3, <1>5, <1>6, <1>7, <1>8, RubyStepInv
        DEF VInv, RegisteredAreBuilt, TypesCompiled

LEMMA ValidateInv ==
  ASSUME VInv, NEW t \in Threads, Validate(t)
  PROVE  VInv'
<1>1. /\ pc[t] = "validate"
      /\ pc' = [pc EXCEPT ![t] = "validated"]
      /\ UNCHANGED <<pool, types, registered, owner>>
      /\ UNCHANGED <<asked, rest, frames, snapshot, outcome>>
  BY DEF Validate, At, Goto, rubyShared, CallValidate
<1>2. /\ NameOfClass(t) \in TypeNames /\ Class(t) \in types
      /\ asked[t].payload \in Payloads
  <2>1. Class(t) \in types /\ asked[t] \in Calls
    BY <1>1 DEF VInv, RubyTypes, ThreadInv, InHand
  <2> QED BY <2>1, NameOfClassType, CatalogAssumption DEF VInv, RubyTypes
<1>3. EngineInv'
  BY <1>2, CallInv DEF Validate, VInv
<1>4. /\ at' = [at EXCEPT ![t] = "validate"]
      /\ arg' = [arg EXCEPT ![t] = NameOfClass(t)]
      /\ ret' = [ret EXCEPT ![t] = "none"]
  BY DEF Validate, CallValidate, Enter
<1>5. RubyTypes'
  BY <1>1 DEF VInv, RubyTypes, RubyPlaces, Synchronized
<1>6. MutexInBlock'
  BY <1>1 DEF VInv, RubyTypes, MutexInBlock, Synchronized
<1>7. \A u \in Threads \ {t} : Untouched(u)
  BY <1>1, <1>4 DEF VInv, EngineInv, EngineTypeOK, ArgOK, RubyTypes, Untouched
<1>8. ThreadInv(t)'
  <2>1. /\ pc'[t] = "validated" /\ at'[t] = "validate" /\ ret'[t] = "none"
        /\ arg'[t] = NameOfClass(t)
        /\ ThreadInv(t)
    BY <1>1, <1>4 DEF VInv, EngineInv, EngineTypeOK, ArgOK, RubyTypes
  <2>2. UNCHANGED <<Top(t), Class(t), NameOfClass(t)>>
    BY <1>1 DEF Top, Class, NameOfClass
  <2>3. CallMatches(t)' /\ ResultHolds(t)'
    BY <2>1, <2>2 DEF CallMatches, ResultHolds
  <2>4. InHand(t)'
    BY <1>1, <1>2, <2>1, <2>2 DEF ThreadInv, InHand, Synchronized
  <2>5. FramesCover(t)'
    BY <1>1, <2>1 DEF ThreadInv, FramesCover
  <2> QED BY <2>3, <2>4, <2>5 DEF ThreadInv
<1> QED BY <1>1, <1>3, <1>5, <1>6, <1>7, <1>8, RubyStepInv
        DEF VInv, RegisteredAreBuilt, TypesCompiled

\* A file that the engine took is registered, and covers those below it.
LEMMA AddedInv ==
  ASSUME VInv, NEW t \in Threads, Added(t)
  PROVE  VInv'
<1> DEFINE s == frames[t]
<1>1. /\ At(t, "added") /\ s # <<>> /\ s \in Seq(Activations)
      /\ ret' = [ret EXCEPT ![t] = "none"]
      /\ UNCHANGED <<pool, lock, at, arg, message, types>>
  BY DEF Added, At, Discard, VInv, RubyTypes, ThreadInv, InHand
<1>2. EngineInv'
  BY <1>1, DiscardInv DEF Added, At, VInv
<1>3. CASE Finish(t, "argument_error") /\ UNCHANGED registered
  BY <1>1, <1>2, <1>3, AtPlace, FinishInv
<1>4. CASE /\ ret[t] = "ok"
           /\ registered' = registered \cup {NameOf[Top(t).file]}
           /\ frames' = [frames EXCEPT ![t] = Below(t)]
           /\ pc' = [pc EXCEPT ![t] = "files"]
           /\ UNCHANGED <<owner, asked, rest, snapshot, outcome>>
  <2>1. /\ Top(t) = s[1] /\ Top(t) \in Activations
        /\ Below(t) = Tail(s) /\ Below(t) \in Seq(Activations)
    BY <1>1, HeadTail DEF Top, Below
  <2>2. NameOf[Top(t).file] \in FileNames \cap BuiltNames
    BY <1>1, <1>4, <2>1, AtPlace, SchemaAssumption
    DEF ThreadInv, ResultHolds, Activations
  <2>3. RubyTypes'
    BY <1>1, <1>4, <2>1, <2>2, AtPlace DEF RubyTypes, RubyPlaces, Synchronized
  <2>4. MutexInBlock'
    BY <1>1, <1>4 DEF At, VInv, RubyTypes, MutexInBlock, Synchronized
  <2>5. \A u \in Threads \ {t} : Untouched(u)
    BY <1>1, <1>4 DEF VInv, EngineInv, EngineTypeOK, RubyTypes, Untouched
  <2>6. /\ pc'[t] = "files" /\ at'[t] = "ruby" /\ frames'[t] = Tail(s)
        /\ ret'[t] = "none"
    BY <1>1, <1>4, <2>1, AtPlace DEF RubyTypes, VInv, EngineInv, EngineTypeOK
  <2>7. InHand(t)'
    BY <1>1, <1>4, <2>6, AtPlace DEF ThreadInv, InHand, Class, Synchronized
  <2>8. FramesCover(t)'
    <3>1. /\ Len(s) \in Nat \ {0} /\ Len(Tail(s)) = Len(s) - 1
          /\ \A i \in 1 .. Len(s) - 1 : Tail(s)[i] = s[i + 1]
      BY <1>1
    <3>2. \A i \in 1 .. Len(s) :
            ImportNames(s[i].file) \subseteq
              registered \cup Range(s[i].imports) \cup {NameOf[s[j].file] : j \in 1 .. i - 1}
      BY <1>1, AtPlace DEF ThreadInv, FramesCover
    <3> DEFINE q == Tail(s)
    <3> HIDE DEF q
    <3> SUFFICES ASSUME NEW i \in 1 .. Len(q)
                 PROVE  ImportNames(q[i].file) \subseteq
                          registered' \cup Range(q[i].imports)
                          \cup {NameOf[q[j].file] : j \in 1 .. i - 1}
      <4>1. frames'[t] = q
        BY <2>6 DEF q
      <4> QED BY <4>1 DEF FramesCover
    <3>3. i + 1 \in 1 .. Len(s) /\ q[i] = s[i + 1]
      BY <3>1 DEF q
    <3>4. {NameOf[s[j].file] : j \in 1 .. (i + 1) - 1}
            \subseteq registered' \cup {NameOf[q[j].file] : j \in 1 .. i - 1}
      <4> SUFFICES ASSUME NEW j \in 1 .. (i + 1) - 1,
                          NameOf[s[j].file] \notin registered'
                   PROVE  \E k \in 1 .. i - 1 : NameOf[s[j].file] = NameOf[q[k].file]
        OBVIOUS
      <4>1. j # 1
        BY <1>4, <2>1
      <4>2. j - 1 \in 1 .. i - 1 /\ q[j - 1] = s[j]
        BY <3>1, <3>3, <4>1 DEF q
      <4> QED BY <4>2
    <3> QED BY <1>4, <3>2, <3>3, <3>4
  <2>9. ThreadInv(t)'
    BY <2>6, <2>7, <2>8 DEF ThreadInv, CallMatches, ResultHolds
  <2> QED BY <1>1, <1>2, <1>4, <2>2, <2>3, <2>4, <2>5, <2>9, AtPlace, RubyStepInv
<1> QED BY <1>3, <1>4 DEF Added, Goto

LEMMA SkipUnknownInv ==
  ASSUME VInv, NEW t \in Threads, SkipUnknown(t)
  PROVE  VInv'
<1>1. /\ At(t, "known") /\ Resolved(t) /\ Discard(t)
      /\ UNCHANGED <<types, registered>>
  BY DEF SkipUnknown
<1>2. /\ EngineInv' /\ UNCHANGED <<pool, at, arg>>
      /\ ret' = [ret EXCEPT ![t] = "none"]
  BY <1>1, DiscardInv DEF At, VInv, Discard
<1>3. asked[t].op # "validate"
  BY <1>1, AtPlace DEF ThreadInv, InHand, SkipsUnknown
<1>4. /\ HasGVL(t) /\ pc[t] # "idle" /\ types' \subseteq MessageClasses
      /\ \A c \in types' : CompiledName(TypeName[Descriptor[c]])
  BY <1>1, AtPlace DEF RubyTypes
<1> QED BY <1>1, <1>2, <1>3, <1>4, ResolvedInv

LEMMA DupInv ==
  ASSUME VInv, NEW t \in Threads, Dup(t)
  PROVE  VInv'
<1>1. /\ At(t, "compiled") /\ Discard(t) /\ UNCHANGED <<types, registered>>
  BY DEF Dup
<1>2. /\ EngineInv' /\ UNCHANGED <<pool, at, arg>>
      /\ ret' = [ret EXCEPT ![t] = "none"]
  BY <1>1, DiscardInv DEF At, VInv, Discard
<1>3. CASE \E o : Finish(t, o)
  BY <1>1, <1>2, <1>3, AtPlace, FinishInv
<1>4. CASE /\ ret[t] = "ok"
           /\ snapshot' = [snapshot EXCEPT ![t] = types]
           /\ pc' = [pc EXCEPT ![t] = "publish"]
           /\ UNCHANGED <<owner, asked, rest, frames, outcome>>
  <2>1. RubyTypes'
    BY <1>1, <1>4, AtPlace DEF RubyTypes, RubyPlaces, Synchronized
  <2>2. MutexInBlock'
    BY <1>1, <1>4 DEF At, VInv, RubyTypes, MutexInBlock, Synchronized
  <2>3. \A u \in Threads \ {t} : Untouched(u)
    BY <1>2, <1>4 DEF VInv, EngineInv, EngineTypeOK, RubyTypes, Untouched
  <2>4. ThreadInv(t)'
    <3>1. /\ pc'[t] = "publish" /\ at'[t] = "ruby" /\ snapshot'[t] = types'
          /\ ret'[t] = "none" /\ frames'[t] = <<>>
      <4>1. pc[t] = "compiled" /\ at[t] = "ruby" /\ frames[t] = <<>>
        BY <1>1, AtPlace DEF ThreadInv, InHand
      <4> QED BY <1>1, <1>2, <1>4, <4>1 DEF VInv, EngineInv, EngineTypeOK, RubyTypes
    <3>2. CompiledName(NameOfClass(t))'
      BY <1>1, <1>2, <1>4, AtPlace
      DEF ThreadInv, ResultHolds, CompiledName, Find, NameOfClass, Class, pool
    <3>3. InHand(t)'
      BY <1>1, <1>4, <3>1, <3>2, AtPlace DEF ThreadInv, InHand, Class, Synchronized
    <3> QED BY <3>1, <3>3 DEF ThreadInv, CallMatches, ResultHolds, FramesCover
  <2> QED BY <1>1, <1>2, <2>1, <2>2, <2>3, <2>4, AtPlace, RubyStepInv
<1> QED BY <1>3, <1>4 DEF Dup, Goto

\* The copy that is published has all that was published before.
LEMMA PublishInv ==
  ASSUME VInv, NEW t \in Threads, Publish(t)
  PROVE  VInv' /\ types \subseteq types'
<1>1. /\ At(t, "publish") /\ Resolved(t)
      /\ types' = snapshot[t] \cup {Class(t)}
      /\ UNCHANGED <<pool, at, arg, ret, registered>>
  BY DEF Publish, engineVars, call
<1>2. EngineInv'
  BY EngineStutterInv DEF Publish, VInv
<1>3. /\ snapshot[t] = types /\ CompiledName(NameOfClass(t))
      /\ Class(t) \in MessageClasses /\ owner = t
  BY <1>1, AtPlace DEF ThreadInv, InHand, VInv, MutexInBlock, Synchronized
<1> QED BY <1>1, <1>2, <1>3, AtPlace, ResolvedInv DEF RubyTypes, NameOfClass

LEMMA ValidatedInv ==
  ASSUME VInv, NEW t \in Threads, Validated(t) \/ Interrupt(t)
  PROVE  VInv'
<1>1. /\ HasGVL(t) /\ Discard(t) /\ UNCHANGED <<types, registered>>
      /\ \E o : Finish(t, o)
  BY DEF Validated, Interrupt, At
<1>2. /\ EngineInv' /\ UNCHANGED <<pool, at, arg>>
      /\ ret' = [ret EXCEPT ![t] = "none"]
  BY <1>1, DiscardInv DEF VInv, Discard
<1> QED BY <1>1, <1>2, FinishInv

-----------------------------------------------------------------------------
(* The theorems.                                                           *)

LEMMA InitInv == Init => VInv
<1> SUFFICES ASSUME Init PROVE VInv
  OBVIOUS
<1>1. EngineInv
  BY EngineInitInv DEF Init
<1>2. NamesUnique
  BY SchemaAssumption DEF Init, EngineInit, NamesUnique
<1>3. RubyTypes
  BY DEF Init, RubyTypes, RubyPlaces
<1>4. MutexInBlock /\ RegisteredAreBuilt /\ TypesCompiled
  BY ThreadAssumption
  DEF Init, MutexInBlock, Synchronized, RegisteredAreBuilt, TypesCompiled
<1>5. \A t \in Threads : ThreadInv(t)
  BY DEF Init, EngineInit, ThreadInv, CallMatches, InHand, ResultHolds, FramesCover,
         Synchronized
<1> QED BY <1>1, <1>2, <1>3, <1>4, <1>5 DEF VInv

LEMMA NextInv == VInv /\ [Next]_vars => VInv'
<1> SUFFICES ASSUME VInv, [Next]_vars PROVE VInv'
  OBVIOUS
<1>1. ASSUME NEW t \in Threads, Call(t) \/ Step(t) \/ Interrupt(t)
      PROVE  VInv'
  BY <1>1, CallStepInv, AllRegisteredInv, FastPathInv, SlowPathInv, AcquireInv,
     RecheckInv, ImportInv, AddInv, AddedInv, AskKnownInv, SkipUnknownInv,
     CompileTypeInv, DupInv, PublishInv, ValidateInv, ValidatedInv, NativeInv
  DEF Step
<1>2. CASE UNCHANGED vars
  <2>1. EngineInv'
    BY <1>2, EngineStutterInv DEF VInv, vars
  <2> QED BY <1>2, <2>1
          DEF VInv, vars, engineVars, pool, call, rubyShared, rubyLocal, NamesUnique,
              RubyTypes, MutexInBlock, RegisteredAreBuilt, TypesCompiled, CompiledName,
              Find, BuiltNames, Names, ThreadInv, CallMatches, InHand, ResultHolds,
              FramesCover, Top, Class, NameOfClass, SkipsUnknown
<1> QED BY <1>1, <1>2 DEF Next

LEMMA ValidatorInvariance == Spec => []VInv
  BY InitInv, NextInv, PTL DEF Spec

\* The mutex is held by the one thread inside `synchronize`, and only that thread
\* adds files and compiles, whoever is interrupted.
THEOREM OneRegistrarAtATime == Spec => []OneRegistrar
<1>1. VInv => OneRegistrar
  BY DEF VInv, MutexInBlock, ThreadInv, CallMatches, OneRegistrar, Synchronized
<1> QED BY <1>1, ValidatorInvariance, PTL

\* A file in @registered_files is in the engine's pool.
THEOREM RegisteredFilesAreBuilt == Spec => []RegisteredAreBuilt
  BY ValidatorInvariance, PTL DEF VInv

\* A file is handed to BuildFile after all the files it imports.
THEOREM FilesFollowImports == Spec => []ImportsComeFirst
<1>1. VInv => ImportsComeFirst
  <2> SUFFICES ASSUME VInv, NEW t \in Threads, at[t] = "add_file"
               PROVE  ImportNames(arg[t]) \subseteq BuiltNames
    BY DEF ImportsComeFirst
  <2>1. /\ arg[t] = Top(t).file /\ frames[t] # <<>> /\ Top(t).imports = <<>>
        /\ frames[t] \in Seq(Activations)
    BY DEF VInv, RubyTypes, ThreadInv, CallMatches, InHand
  <2>2. 1 \in 1 .. Len(frames[t]) /\ Top(t) = frames[t][1]
    BY <2>1 DEF Top
  <2>3. ImportNames(arg[t]) \subseteq registered \cup Range(Top(t).imports)
    BY <2>1, <2>2 DEF VInv, ThreadInv, FramesCover
  <2> QED BY <2>1, <2>3 DEF VInv, RegisteredAreBuilt, Range
<1> QED BY <1>1, ValidatorInvariance, PTL

\* What a lock-free reader finds in @types is compiled, and so is what validate
\* is called for.
THEOREM PublishedTypesAreCompiled == Spec => []PublishedAreCompiled
<1>1. VInv => PublishedAreCompiled
  BY DEF VInv, TypesCompiled, CompiledName, ThreadInv, CallMatches, InHand,
         PublishedAreCompiled, NameOfClass
<1> QED BY <1>1, ValidatorInvariance, PTL

\* No registration is lost.
THEOREM RegistrationsNeverLost == Spec => RegistrationsStay
<1>1. VInv /\ [Next]_vars => [types \subseteq types']_vars
  <2> SUFFICES ASSUME VInv, [Next]_vars PROVE types \subseteq types'
    OBVIOUS
  <2>1. ASSUME NEW t \in Threads, Call(t) \/ Step(t) \/ Interrupt(t)
        PROVE  types \subseteq types'
    <3>1. CASE Publish(t)
      BY <3>1, PublishInv
    <3>2. CASE ~Publish(t)
      BY <2>1, <3>2
      DEF Step, Call, AllRegistered, FastPath, SlowPath, Acquire, Recheck, Import, Add,
          Added, AskKnown, SkipUnknown, CompileType, Dup, Validate, Validated, Native,
          Interrupt, rubyShared
    <3> QED BY <3>1, <3>2
  <2>2. CASE UNCHANGED vars
    BY <2>2 DEF vars, rubyShared
  <2> QED BY <2>1, <2>2 DEF Next
<1> QED BY <1>1, ValidatorInvariance, PTL DEF Spec, RegistrationsStay

\* The guards and the GVL, in the whole of the system.
THEOREM ValidatorGuards == Spec => []GuardsInSection
  BY ValidatorInvariance, PTL DEF VInv, EngineInv

-----------------------------------------------------------------------------
(* Messages without Anys.                                                  *)

NothingPacked == \A t \in Threads : message[t].packed = {}

LEMMA NothingPackedInv ==
  ASSUME \A m \in Payloads : m.packed = {}
  PROVE  Spec => []NothingPacked
<1>1. Init => NothingPacked
  BY DEF Init, EngineInit, NoMessage, NothingPacked
<1>2. VInv /\ NothingPacked /\ [Next]_vars => NothingPacked'
  <2> SUFFICES ASSUME VInv, NothingPacked, [Next]_vars PROVE NothingPacked'
    OBVIOUS
  <2>1. message \in [Threads -> [packed : SUBSET Types, result : Verdicts]]
    BY DEF VInv, EngineInv, EngineTypeOK
  <2>2. ASSUME NEW t \in Threads, Validate(t)
        PROVE  NothingPacked'
    <3>1. asked[t] \in Calls
      BY <2>2 DEF Validate, At, VInv, RubyTypes, ThreadInv, InHand
    <3>2. asked[t].payload.packed = {}
      BY <3>1, CatalogAssumption
    <3> QED BY <2>1, <2>2, <3>2 DEF Validate, CallValidate, NothingPacked
  <2>3. ASSUME NEW t \in Threads, EngineStep(t)
        PROVE  NothingPacked'
    <3>1. ~Unpack(t)
      BY DEF Unpack, NothingPacked
    <3>2. UNCHANGED message \/ message' = [message EXCEPT ![t] = NoMessage]
      BY <2>3, <3>1
      DEF EngineStep, AddFile, MessageType, LockCompile, Compile, LockValidate, Ensure,
          Evaluate, Reacquire, Return, Leave
    <3> QED BY <2>1, <3>2 DEF NothingPacked, NoMessage
  <2>4. ASSUME NEW t \in Threads, Call(t) \/ Step(t) \/ Interrupt(t),
               ~Validate(t), ~EngineStep(t)
        PROVE  UNCHANGED message
    BY <2>4
    DEF Step, Call, AllRegistered, FastPath, SlowPath, Acquire, Recheck, Import, Add,
        Added, AskKnown, SkipUnknown, CompileType, Dup, Publish, Validated, Native,
        Interrupt, CallAddFile, CallMessageType, CallCompile, Discard, engineVars, call
  <2> QED BY <2>2, <2>3, <2>4 DEF Next, NothingPacked, vars, engineVars, call
<1> QED BY <1>1, <1>2, ValidatorInvariance, PTL DEF Spec

\* As long as no message carries an Any, no thread changes the factory's map of
\* rules while another one evaluates: compile has the write lock, and what
\* validate makes sure of has been compiled before.
THEOREM RulesRestWhileHeld ==
  ASSUME \A m \in Payloads : m.packed = {}
  PROVE  Spec => RulesStillWhileHeld
<1>1. VInv /\ NothingPacked /\ [Next]_vars =>
        [\A t \in Threads :
           at[t] = "evaluating" /\ UNCHANGED <<at[t], message[t]>> => ruled' = ruled]_vars
  <2> SUFFICES ASSUME VInv, NothingPacked, [Next]_vars,
                      NEW u \in Threads, at[u] = "evaluating"
               PROVE  ruled' = ruled
    OBVIOUS
  <2>1. /\ u \in readers /\ writer = NoThread
        /\ \A t \in Threads : at[t] # "compiling"
    BY ThreadAssumption DEF VInv, EngineInv, GuardsInSection
  <2>2. ASSUME NEW t \in Threads, Ensure(t)
        PROVE  ruled' = ruled
    <3>1. \A d \in Find(arg[t]) : d \in compiled /\ RulesOk(d)
      BY <2>2 DEF Ensure, VInv, TypesCompiled, CompiledName, ThreadInv, CallMatches,
                  InHand, NameOfClass, EngineInv, PoolComplete
    <3> QED BY <2>2, <3>1 DEF Ensure, EnsureOk, EnsureFails
  <2>3. ASSUME NEW t \in Threads, EngineStep(t)
        PROVE  ruled' = ruled
    BY <2>1, <2>2, <2>3
    DEF EngineStep, AddFile, MessageType, LockCompile, Compile, LockValidate, Unpack,
        Evaluate, Reacquire, NothingPacked, pool
  <2>4. ASSUME NEW t \in Threads, Call(t) \/ Step(t) \/ Interrupt(t), ~EngineStep(t)
        PROVE  ruled' = ruled
    BY <2>4
    DEF Step, Call, AllRegistered, FastPath, SlowPath, Acquire, Recheck, Import, Add,
        Added, AskKnown, SkipUnknown, CompileType, Dup, Publish, Validate, Validated,
        Native, Interrupt, CallAddFile, CallMessageType, CallCompile, CallValidate,
        Discard, engineVars, pool
  <2> QED BY <2>3, <2>4 DEF Next, vars, engineVars, pool
<1> QED BY <1>1, NothingPackedInv, ValidatorInvariance, PTL DEF Spec, RulesStillWhileHeld
=============================================================================
