----------------------------- MODULE NativeEngine ----------------------------
(***************************************************************************)
(* Protovalidate::Native::Engine: the descriptor pool and rule factory of  *)
(* shim/pv_shim.cc behind the RwLock of ext/protovalidate/src/lib.rs, as   *)
(* Ruby threads use it.                                                    *)
(*                                                                         *)
(* add_file and message_type? wait for the RwLock with the GVL held;       *)
(* compile and validate release the GVL first, take and drop the lock      *)
(* inside that section, and need the GVL again to return.                  *)
(*                                                                         *)
(* EnsureCompiled is one step here: RuleWalk, its detailed form, answers   *)
(* as the schema alone decides.                                            *)
(***************************************************************************)
EXTENDS Schema

CONSTANTS
  Threads, NoThread,
  WriterPreference   \* whether the RwLock lets no reader in while a writer waits

ASSUME ThreadAssumption ==
  /\ NoThread \notin Threads
  /\ WriterPreference \in BOOLEAN

VARIABLES
  built,      \* files in the engine's descriptor pool
  ruled,      \* types the ValidatorFactory has rules (or an error) for
  compiled,   \* pv_engine::compiled
  gvl,        \* the thread that waits in native code with the GVL, or NoThread
  readers,    \* threads with a read guard of Engine::inner
  writer,     \* the thread with its write guard, or NoThread
  at,         \* at[t]: where t is in the native code, "ruby" when it is not
  arg,        \* arg[t]: the argument of t's native call
  message,    \* message[t]: the payload t validates, the types in it still to do
  ret         \* ret[t]: what t's native call returned, "none" before it did

lock == <<gvl, readers, writer>>
pool == <<built, ruled, compiled>>
call == <<at, arg, message, ret>>
engineVars == <<pool, lock, call>>

Results == Verdicts \cup {"none", "yes", "no", "compilation"}

NoMessage == [packed |-> {}, result |-> "ok"]

EngineInit ==
  /\ built = Linked
  /\ ruled = {}
  /\ compiled = {}
  /\ gvl = NoThread
  /\ readers = {}
  /\ writer = NoThread
  /\ at = [t \in Threads |-> "ruby"]
  /\ arg = [t \in Threads |-> <<>>]
  /\ message = [t \in Threads |-> NoMessage]
  /\ ret = [t \in Threads |-> "none"]

\* Ruby code runs between any two steps, unless a thread sits on the GVL.
HasGVL(t) == gvl = NoThread /\ at[t] = "ruby"

CanRead ==
  /\ writer = NoThread
  /\ WriterPreference => \A t \in Threads : at[t] \notin {"add_file", "compile"}
CanWrite == writer = NoThread /\ readers = {}

\* DescriptorPool::FindMessageTypeByName: at most one descriptor.
Find(n) == {d \in Types : TypeName[d] = n /\ Home[d] \in built}

BuiltNames == Names(built)

-----------------------------------------------------------------------------
(* Calls and returns.                                                      *)

Enter(t, place, a) ==
  /\ at' = [at EXCEPT ![t] = place]
  /\ arg' = [arg EXCEPT ![t] = a]
  /\ ret' = [ret EXCEPT ![t] = "none"]

Return(t, r) ==
  /\ at' = [at EXCEPT ![t] = "ruby"]
  /\ arg' = [arg EXCEPT ![t] = <<>>]
  /\ message' = [message EXCEPT ![t] = NoMessage]
  /\ ret' = [ret EXCEPT ![t] = r]

\* Ruby code has looked at what a call returned, or has dropped it.
Discard(t) ==
  /\ ret' = [ret EXCEPT ![t] = "none"]
  /\ UNCHANGED <<pool, lock, at, arg, message>>

\* Mutation: the closure's result is not kept.
LeaveWithoutResult(t, r) ==
  /\ at' = [at EXCEPT ![t] = "returning"]
  /\ UNCHANGED <<arg, message, ret>>

\* The end of a section without the GVL.
Leave(t, r) ==
  /\ at' = [at EXCEPT ![t] = "returning"]
  /\ ret' = [ret EXCEPT ![t] = r]
  /\ UNCHANGED <<arg, message>>

\* rb_thread_call_without_gvl takes the GVL back.
Reacquire(t) ==
  /\ at[t] = "returning"
  /\ gvl = NoThread
  /\ Return(t, ret[t])
  /\ UNCHANGED <<pool, lock>>

-----------------------------------------------------------------------------
(* add_file and message_type?                                              *)

CallAddFile(t, f) ==
  /\ HasGVL(t)
  /\ Enter(t, "add_file", f)
  /\ gvl' = t
  /\ UNCHANGED <<pool, readers, writer, message>>

\* BuildFile resolves imports now, and refuses a name defined elsewhere.
Builds(f) ==
  /\ f \notin BadFiles
  /\ Range(Imports[f]) \subseteq BuiltNames
  /\ \A d, e \in Types :
       Home[d] = f /\ Home[e] \in built => TypeName[d] # TypeName[e]

AddFile(t) ==
  /\ at[t] = "add_file"
  /\ CanWrite
  /\ LET f == arg[t] IN
     \/ /\ NameOf[f] \in BuiltNames
        /\ Return(t, "ok")
        /\ UNCHANGED built
     \/ /\ NameOf[f] \notin BuiltNames /\ Builds(f)
        /\ built' = built \cup {f}
        /\ Return(t, "ok")
     \/ /\ NameOf[f] \notin BuiltNames /\ ~Builds(f)
        /\ Return(t, "argument")
        /\ UNCHANGED built
  /\ gvl' = NoThread
  /\ UNCHANGED <<ruled, compiled, readers, writer>>

CallMessageType(t, n) ==
  /\ HasGVL(t)
  /\ Enter(t, "message_type", n)
  /\ gvl' = t
  /\ UNCHANGED <<pool, readers, writer, message>>

MessageType(t) ==
  /\ at[t] = "message_type"
  /\ CanRead
  /\ Return(t, IF Find(arg[t]) # {} THEN "yes" ELSE "no")
  /\ gvl' = NoThread
  /\ UNCHANGED <<pool, readers, writer>>

-----------------------------------------------------------------------------
(* EnsureCompiled, as CompileOracle states it.  A failed walk leaves the   *)
(* factory with the types it got to.                                       *)

EnsureOk(d) ==
  /\ RulesOk(d)
  /\ compiled' = compiled \cup {d}
  /\ ruled' = IF d \in compiled THEN ruled ELSE ruled \cup Reach[d]

\* Mutation: a type that failed marked like the others.
EnsureFailsMarks(d) ==
  /\ ~RulesOk(d)
  /\ \E S \in SUBSET Reach[d] : d \in S /\ ruled' = ruled \cup S
  /\ compiled' = compiled \cup {d}

EnsureFails(d) ==
  /\ ~RulesOk(d)
  /\ \E S \in SUBSET Reach[d] : d \in S /\ ruled' = ruled \cup S
  /\ UNCHANGED compiled

-----------------------------------------------------------------------------
(* compile                                                                 *)

CallCompile(t, n) ==
  /\ HasGVL(t)
  /\ Enter(t, "compile", n)
  /\ UNCHANGED <<pool, lock, message>>

\* Mutation: compile under the shared read lock.
LockCompileShared(t) ==
  /\ at[t] = "compile"
  /\ writer = NoThread
  /\ at' = [at EXCEPT ![t] = "compiling"]
  /\ UNCHANGED <<pool, lock, arg, message, ret>>

LockCompile(t) ==
  /\ at[t] = "compile"
  /\ CanWrite
  /\ writer' = t
  /\ at' = [at EXCEPT ![t] = "compiling"]
  /\ UNCHANGED <<pool, gvl, readers, arg, message, ret>>

Compile(t) ==
  /\ at[t] = "compiling"
  /\ \/ /\ Find(arg[t]) = {}
        /\ Leave(t, "argument")
        /\ UNCHANGED <<ruled, compiled>>
     \/ \E d \in Find(arg[t]) :
          \/ EnsureOk(d) /\ Leave(t, "ok")
          \/ EnsureFails(d) /\ Leave(t, "compilation")
  /\ writer' = NoThread
  /\ UNCHANGED <<built, gvl, readers>>

-----------------------------------------------------------------------------
(* validate                                                                *)

CallValidate(t, n, m) ==
  /\ HasGVL(t)
  /\ Enter(t, "validate", n)
  /\ message' = [message EXCEPT ![t] = m]
  /\ UNCHANGED <<pool, lock>>

\* Mutation: validate takes no notice of the writer.
LockValidateBarges(t) ==
  /\ at[t] = "validate"
  /\ readers' = readers \cup {t}
  /\ at' = [at EXCEPT ![t] = "ensuring"]
  /\ UNCHANGED <<pool, gvl, writer, arg, message, ret>>

\* Mutation: validate takes the write lock.
LockValidateAlone(t) ==
  /\ at[t] = "validate"
  /\ CanWrite
  /\ readers' = readers \cup {t}
  /\ at' = [at EXCEPT ![t] = "ensuring"]
  /\ UNCHANGED <<pool, gvl, writer, arg, message, ret>>

LockValidate(t) ==
  /\ at[t] = "validate"
  /\ CanRead
  /\ readers' = readers \cup {t}
  /\ at' = [at EXCEPT ![t] = "ensuring"]
  /\ UNCHANGED <<pool, gvl, writer, arg, message, ret>>

\* From here to the end of the evaluation Validate holds pointers into the
\* factory's rules.
Ensure(t) ==
  /\ at[t] = "ensuring"
  /\ \/ /\ Find(arg[t]) = {}
        /\ Leave(t, "argument")
        /\ readers' = readers \ {t}
        /\ UNCHANGED <<ruled, compiled>>
     \/ \E d \in Find(arg[t]) :
          \/ /\ EnsureOk(d)
             /\ at' = [at EXCEPT ![t] = "evaluating"]
             /\ UNCHANGED <<readers, arg, message, ret>>
          \/ /\ EnsureFails(d)
             /\ Leave(t, "compilation")
             /\ readers' = readers \ {t}
  /\ UNCHANGED <<built, gvl, writer>>

\* ClassifyStatus, for the rules of a type: not all that fail to compile are
\* told apart from rules that fail when evaluated.
StatusOf(d) == IF d \in Mismatched THEN "runtime" ELSE "compilation"

\* A message unpacked out of an Any is of a type EnsureCompiled did not walk:
\* its rules are compiled on the spot when the factory has none.  A type that is
\* not in the pool is passed over.
Unpack(t) ==
  /\ at[t] = "evaluating"
  /\ \E d \in message[t].packed :
       /\ IF d \in ruled \/ Home[d] \notin built
          THEN UNCHANGED ruled
          ELSE \E S \in SUBSET Reach[d] : d \in S /\ ruled' = ruled \cup S
       /\ \/ /\ d \in Good \/ Home[d] \notin built
             /\ message' = [message EXCEPT ![t].packed = @ \ {d}]
             /\ UNCHANGED <<at, arg, ret, readers>>
          \/ /\ Home[d] \in built
             /\ \E u \in (IF d \in ruled THEN {d} ELSE Reach[d]) \ Good :
                  Leave(t, StatusOf(u))
             /\ readers' = readers \ {t}
  /\ UNCHANGED <<built, compiled, gvl, writer>>

\* The evaluation is over, or an error ends it early.
Evaluate(t) ==
  /\ at[t] = "evaluating"
  /\ message[t].result = "ok" => message[t].packed = {}
  /\ Leave(t, message[t].result)
  /\ readers' = readers \ {t}
  /\ UNCHANGED <<pool, gvl, writer>>

-----------------------------------------------------------------------------

\* What goes on in native code until a call is back in Ruby.
EngineStep(t) ==
  \/ AddFile(t) \/ MessageType(t)
  \/ LockCompile(t) \/ Compile(t)
  \/ LockValidate(t) \/ Ensure(t) \/ Unpack(t) \/ Evaluate(t)
  \/ Reacquire(t)

EngineCall(t) ==
  \/ \E f \in Files : CallAddFile(t, f)
  \/ \E n \in TypeNames : CallMessageType(t, n) \/ CallCompile(t, n)
  \/ \E n \in TypeNames, m \in Payloads : CallValidate(t, n, m)

\* An engine used directly, by threads that call anything at any time.
EngineNext == \E t \in Threads : EngineStep(t) \/ EngineCall(t)

EngineSpec == EngineInit /\ [][EngineNext]_engineVars

-----------------------------------------------------------------------------
(* Properties.                                                             *)

\* The variables have their types, and a call on its way back has a result.
EngineTypeOK ==
  /\ built \subseteq Files /\ ruled \subseteq Types /\ compiled \subseteq Types
  /\ gvl \in Threads \cup {NoThread}
  /\ readers \subseteq Threads
  /\ writer \in Threads \cup {NoThread}
  /\ at \in [Threads -> {"ruby", "add_file", "message_type", "compile",
                         "compiling", "validate", "ensuring", "evaluating",
                         "returning"}]
  /\ message \in [Threads -> [packed : SUBSET Types, result : Verdicts]]
  /\ ret \in [Threads -> Results]
  /\ \A t \in Threads : at[t] = "returning" => ret[t] # "none"

\* The guards are held exactly inside the sections the code takes them for: a
\* thread that waits for the GVL holds no guard, and a thread that waits for a
\* guard with the GVL waits for threads that do not need the GVL to go on.
GuardsInSection ==
  /\ \A t \in Threads :
       /\ t \in readers <=> at[t] \in {"ensuring", "evaluating"}
       /\ writer = t <=> at[t] = "compiling"
       /\ gvl = t <=> at[t] \in {"add_file", "message_type"}
  /\ writer # NoThread => readers = {}

\* A file is in the pool only with the files it imports, so the descriptors a
\* rule refers to are there when it is compiled; and a type is marked compiled
\* only when it is in the pool and the factory has all its rules.
PoolComplete ==
  /\ \A f \in built : Range(Imports[f]) \subseteq BuiltNames
  /\ \A d \in compiled :
       Home[d] \in built /\ Reach[d] \subseteq ruled /\ RulesOk(d)

\* pv_shim.h: files may reference imports that have not been added yet.  Then a
\* file that is fit to be built is accepted whenever it is added.
FilesNeedNoOrder ==
  \A t \in Threads :
    at[t] = "add_file" /\ arg[t] \notin BadFiles
      => NameOf[arg[t]] \in BuiltNames \/ Builds(arg[t])

\* pv_shim.cc, ClassifyStatus: a runtime error means that a rule failed while it
\* was evaluated.
RuntimeMeansEvaluated ==
  \A t \in Threads :
    at[t] = "returning" /\ ret[t] = "runtime" => message[t].result = "runtime"
=============================================================================
