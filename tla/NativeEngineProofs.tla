-------------------------- MODULE NativeEngineProofs -------------------------
(***************************************************************************)
(* For every schema, any number of threads and either policy of the        *)
(* RwLock: NativeEngine keeps its types, its guards and its pool.  The     *)
(* lemmas are about single steps, so that a module which makes the calls   *)
(* from somewhere else can use them too.                                   *)
(***************************************************************************)
EXTENDS NativeEngine, TLAPS

Places ==
  {"ruby", "add_file", "message_type", "compile", "compiling", "validate",
   "ensuring", "evaluating", "returning"}

\* What EngineTypeOK leaves open: a call's argument is of the call's kind.
ArgOK ==
  /\ arg \in [Threads -> Files \cup TypeNames \cup {<<>>}]
  /\ \A t \in Threads : at[t] = "add_file" => arg[t] \in Files

\* The inductive invariant.
EngineInv == EngineTypeOK /\ ArgOK /\ GuardsInSection /\ PoolComplete

-----------------------------------------------------------------------------

LEMMA ReachTypes == \A d \in Types : d \in Reach[d] /\ Reach[d] \subseteq Types
  BY DEF Reach

LEMMA NoMessageType == NoMessage \in [packed : SUBSET Types, result : Verdicts]
  BY DEF NoMessage, Verdicts

\* The factory and the marks after EnsureCompiled, whatever it answered.
LEMMA EnsureEffect ==
  ASSUME EngineTypeOK, PoolComplete, NEW n, NEW d \in Find(n),
         EnsureOk(d) \/ EnsureFails(d), UNCHANGED built
  PROVE  /\ ruled' \subseteq Types /\ compiled' \subseteq Types
         /\ ruled \subseteq ruled' /\ compiled \subseteq compiled'
         /\ PoolComplete'
<1>1. d \in Types /\ Home[d] \in built
  BY DEF Find
<1>2. CASE EnsureOk(d)
  <2>1. Reach[d] \subseteq ruled'
    BY <1>2 DEF EnsureOk, PoolComplete
  <2> QED
    BY <1>1, <1>2, <2>1, ReachTypes
    DEF EnsureOk, PoolComplete, EngineTypeOK, BuiltNames, Names, RulesOk
<1>3. CASE EnsureFails(d)
  BY <1>1, <1>3, ReachTypes
  DEF EnsureFails, PoolComplete, EngineTypeOK, BuiltNames, Names, RulesOk
<1> QED BY <1>2, <1>3

\* Nothing of the pool is lost when rules are added and files are not.
LEMMA MoreRules ==
  ASSUME PoolComplete, ruled \subseteq ruled', UNCHANGED <<built, compiled>>
  PROVE  PoolComplete'
  BY DEF PoolComplete, BuiltNames, Names, RulesOk

LEMMA EngineInitInv == EngineInit => EngineInv
<1> SUFFICES ASSUME EngineInit PROVE EngineInv
  OBVIOUS
<1>1. EngineTypeOK
  BY SchemaAssumption, NoMessageType DEF EngineInit, EngineTypeOK, Results, Verdicts
<1>2. ArgOK
  BY DEF EngineInit, ArgOK
<1>3. GuardsInSection
  BY ThreadAssumption DEF EngineInit, GuardsInSection
<1>4. PoolComplete
  BY SchemaAssumption DEF EngineInit, PoolComplete, BuiltNames, ImportNames
<1> QED BY <1>1, <1>2, <1>3, <1>4 DEF EngineInv

-----------------------------------------------------------------------------
(* Calls and returns.                                                      *)

LEMMA CallInv ==
  ASSUME EngineInv, NEW t \in Threads,
         \/ \E f \in Files : CallAddFile(t, f)
         \/ \E n \in TypeNames :
              \/ CallMessageType(t, n) \/ CallCompile(t, n)
              \/ \E m \in Payloads : CallValidate(t, n, m)
  PROVE  EngineInv'
<1> USE DEF HasGVL, Enter, pool, lock
<1>1. PoolComplete'
  BY DEF EngineInv, PoolComplete, BuiltNames, Names, RulesOk, CallAddFile,
     CallMessageType, CallCompile, CallValidate
<1>2. ASSUME NEW f \in Files, CallAddFile(t, f) PROVE EngineInv'
  <2>1. EngineTypeOK'
    BY <1>2 DEF EngineInv, EngineTypeOK, CallAddFile, Results
  <2>2. ArgOK' /\ GuardsInSection'
    BY <1>2, ThreadAssumption
    DEF EngineInv, EngineTypeOK, ArgOK, GuardsInSection, CallAddFile
  <2> QED BY <1>1, <2>1, <2>2 DEF EngineInv
<1>3. ASSUME NEW n \in TypeNames, CallMessageType(t, n) PROVE EngineInv'
  <2>1. EngineTypeOK'
    BY <1>3 DEF EngineInv, EngineTypeOK, CallMessageType, Results
  <2>2. ArgOK' /\ GuardsInSection'
    BY <1>3, ThreadAssumption
    DEF EngineInv, EngineTypeOK, ArgOK, GuardsInSection, CallMessageType
  <2> QED BY <1>1, <2>1, <2>2 DEF EngineInv
<1>4. ASSUME NEW n \in TypeNames, CallCompile(t, n) PROVE EngineInv'
  <2>1. EngineTypeOK'
    BY <1>4 DEF EngineInv, EngineTypeOK, CallCompile, Results
  <2>2. ArgOK' /\ GuardsInSection'
    BY <1>4, ThreadAssumption
    DEF EngineInv, EngineTypeOK, ArgOK, GuardsInSection, CallCompile
  <2> QED BY <1>1, <2>1, <2>2 DEF EngineInv
<1>5. ASSUME NEW n \in TypeNames, NEW m \in Payloads, CallValidate(t, n, m)
      PROVE  EngineInv'
  <2>1. EngineTypeOK'
    BY <1>5, SchemaAssumption DEF EngineInv, EngineTypeOK, CallValidate, Results
  <2>2. ArgOK' /\ GuardsInSection'
    BY <1>5, ThreadAssumption
    DEF EngineInv, EngineTypeOK, ArgOK, GuardsInSection, CallValidate
  <2> QED BY <1>1, <2>1, <2>2 DEF EngineInv
<1> QED BY <1>2, <1>3, <1>4, <1>5

LEMMA DiscardInv ==
  ASSUME EngineInv, NEW t \in Threads, HasGVL(t), Discard(t)
  PROVE  EngineInv'
<1> USE DEF EngineInv, HasGVL, Discard, pool, lock
<1>1. EngineTypeOK'
  BY DEF EngineTypeOK, Results
<1>2. ArgOK' /\ GuardsInSection'
  BY DEF ArgOK, GuardsInSection
<1>3. PoolComplete'
  BY DEF PoolComplete, BuiltNames, Names, RulesOk
<1> QED BY <1>1, <1>2, <1>3

LEMMA ReacquireInv ==
  ASSUME EngineInv, NEW t \in Threads, Reacquire(t)
  PROVE  EngineInv'
<1> USE DEF EngineInv, Reacquire, Return, pool, lock
<1>1. EngineTypeOK'
  BY NoMessageType DEF EngineTypeOK, Results
<1>2. ArgOK' /\ GuardsInSection'
  BY DEF EngineTypeOK, ArgOK, GuardsInSection
<1>3. PoolComplete'
  BY DEF PoolComplete, BuiltNames, Names, RulesOk
<1> QED BY <1>1, <1>2, <1>3

-----------------------------------------------------------------------------
(* The operations.                                                         *)

\* What BuildFile accepts brings no hole into the pool.
LEMMA AddFileInv ==
  ASSUME EngineInv, NEW t \in Threads, AddFile(t)
  PROVE  EngineInv' /\ built \subseteq built'
<1> DEFINE f == arg[t]
<1>1. f \in Files
  BY DEF EngineInv, ArgOK, AddFile
<1>2. PICK r \in {"ok", "argument"} : Return(t, r)
  BY DEF AddFile
<1>3. UNCHANGED built \/ (built' = built \cup {f} /\ Builds(f))
  BY DEF AddFile
<1>4. UNCHANGED <<ruled, compiled, readers, writer>> /\ gvl' = NoThread
  BY DEF AddFile
<1>5. at[t] = "add_file"
  BY DEF AddFile
<1> HIDE DEF f
<1>6. EngineTypeOK'
  BY <1>1, <1>2, <1>3, <1>4, NoMessageType
  DEF EngineInv, EngineTypeOK, Return, Results, Verdicts
<1>7. ArgOK' /\ GuardsInSection'
  BY <1>2, <1>4, <1>5, ThreadAssumption
  DEF EngineInv, EngineTypeOK, ArgOK, GuardsInSection, Return
<1>8. PoolComplete'
  BY <1>3, <1>4 DEF EngineInv, PoolComplete, Builds, BuiltNames, Names, RulesOk
<1> QED BY <1>3, <1>6, <1>7, <1>8 DEF EngineInv

LEMMA MessageTypeInv ==
  ASSUME EngineInv, NEW t \in Threads, MessageType(t)
  PROVE  EngineInv'
<1> USE DEF EngineInv, MessageType, pool
<1>1. PICK r \in {"yes", "no"} : Return(t, r)
  OBVIOUS
<1>2. EngineTypeOK'
  BY <1>1, NoMessageType DEF EngineTypeOK, Return, Results, Verdicts
<1>3. ArgOK' /\ GuardsInSection'
  BY <1>1, ThreadAssumption DEF EngineTypeOK, ArgOK, GuardsInSection, Return
<1>4. PoolComplete'
  BY DEF PoolComplete, BuiltNames, Names, RulesOk
<1> QED BY <1>2, <1>3, <1>4

LEMMA LockCompileInv ==
  ASSUME EngineInv, NEW t \in Threads, LockCompile(t)
  PROVE  EngineInv'
<1> USE DEF EngineInv, LockCompile, CanWrite, pool
<1>1. EngineTypeOK'
  BY DEF EngineTypeOK
<1>2. ArgOK' /\ GuardsInSection'
  BY ThreadAssumption DEF EngineTypeOK, ArgOK, GuardsInSection
<1>3. PoolComplete'
  BY DEF PoolComplete, BuiltNames, Names, RulesOk
<1> QED BY <1>1, <1>2, <1>3

LEMMA CompileInv ==
  ASSUME EngineInv, NEW t \in Threads, Compile(t)
  PROVE  EngineInv'
<1>1. PICK r \in {"argument", "ok", "compilation"} : Leave(t, r)
  BY DEF Compile
<1>2. /\ ruled' \subseteq Types /\ compiled' \subseteq Types
      /\ PoolComplete'
  <2>1. CASE UNCHANGED <<ruled, compiled>>
    BY <2>1 DEF Compile, EngineInv, EngineTypeOK, PoolComplete, BuiltNames, Names,
       RulesOk
  <2>2. CASE \E d \in Find(arg[t]) : EnsureOk(d) \/ EnsureFails(d)
    BY <2>2, EnsureEffect DEF Compile, EngineInv
  <2> QED BY <2>1, <2>2 DEF Compile
<1>3. EngineTypeOK'
  BY <1>1, <1>2 DEF Compile, Leave, EngineInv, EngineTypeOK, Results, Verdicts
<1>4. ArgOK' /\ GuardsInSection'
  BY <1>1, ThreadAssumption
  DEF Compile, Leave, EngineInv, EngineTypeOK, ArgOK, GuardsInSection
<1> QED BY <1>2, <1>3, <1>4 DEF EngineInv

LEMMA LockValidateInv ==
  ASSUME EngineInv, NEW t \in Threads, LockValidate(t)
  PROVE  EngineInv'
<1> USE DEF EngineInv, LockValidate, CanRead, pool
<1>1. EngineTypeOK'
  BY DEF EngineTypeOK
<1>2. ArgOK' /\ GuardsInSection'
  BY ThreadAssumption DEF EngineTypeOK, ArgOK, GuardsInSection
<1>3. PoolComplete'
  BY DEF PoolComplete, BuiltNames, Names, RulesOk
<1> QED BY <1>1, <1>2, <1>3

LEMMA EnsureInv ==
  ASSUME EngineInv, NEW t \in Threads, Ensure(t)
  PROVE  EngineInv'
<1>1. \/ /\ at' = [at EXCEPT ![t] = "evaluating"]
         /\ UNCHANGED <<readers, arg, message, ret>>
      \/ /\ Leave(t, "argument") \/ Leave(t, "compilation")
         /\ readers' = readers \ {t}
  BY DEF Ensure
<1>2. /\ ruled' \subseteq Types /\ compiled' \subseteq Types
      /\ PoolComplete'
  <2>1. CASE UNCHANGED <<ruled, compiled>>
    BY <2>1 DEF Ensure, EngineInv, EngineTypeOK, PoolComplete, BuiltNames, Names,
       RulesOk
  <2>2. CASE \E d \in Find(arg[t]) : EnsureOk(d) \/ EnsureFails(d)
    BY <2>2, EnsureEffect DEF Ensure, EngineInv
  <2> QED BY <2>1, <2>2 DEF Ensure
<1>3. at[t] = "ensuring" /\ UNCHANGED <<built, gvl, writer>>
  BY DEF Ensure
<1>4. EngineTypeOK'
  BY <1>1, <1>2, <1>3 DEF Leave, EngineInv, EngineTypeOK, Results, Verdicts
<1>5. ArgOK' /\ GuardsInSection'
  BY <1>1, <1>3, ThreadAssumption
  DEF Leave, EngineInv, EngineTypeOK, ArgOK, GuardsInSection
<1> QED BY <1>2, <1>4, <1>5 DEF EngineInv

LEMMA UnpackInv ==
  ASSUME EngineInv, NEW t \in Threads, Unpack(t)
  PROVE  EngineInv'
<1>1. at[t] = "evaluating" /\ UNCHANGED <<built, compiled, gvl, writer>>
  BY DEF Unpack
<1>2. ruled \subseteq ruled' /\ ruled' \subseteq Types
  BY ReachTypes DEF Unpack, EngineInv, EngineTypeOK
<1>3. \/ /\ \E d \in Types : message' = [message EXCEPT ![t].packed = @ \ {d}]
         /\ UNCHANGED <<at, arg, ret, readers>>
      \/ /\ Leave(t, "runtime") \/ Leave(t, "compilation")
         /\ readers' = readers \ {t}
  BY DEF Unpack, StatusOf, EngineInv, EngineTypeOK
<1>4. message' \in [Threads -> [packed : SUBSET Types, result : Verdicts]]
  <2>1. message[t] \in [packed : SUBSET Types, result : Verdicts]
    BY DEF EngineInv, EngineTypeOK
  <2>2. ASSUME NEW d \in Types
        PROVE  [message[t] EXCEPT !.packed = @ \ {d}]
                 \in [packed : SUBSET Types, result : Verdicts]
    BY <2>1
  <2> QED BY <1>3, <2>2 DEF Leave, EngineInv, EngineTypeOK
<1>5. EngineTypeOK'
  BY <1>1, <1>2, <1>3, <1>4 DEF Leave, EngineInv, EngineTypeOK, Results, Verdicts
<1>6. ArgOK' /\ GuardsInSection'
  BY <1>1, <1>3, ThreadAssumption
  DEF Leave, EngineInv, EngineTypeOK, ArgOK, GuardsInSection
<1> QED BY <1>1, <1>2, <1>5, <1>6, MoreRules DEF EngineInv

LEMMA EvaluateInv ==
  ASSUME EngineInv, NEW t \in Threads, Evaluate(t)
  PROVE  EngineInv'
<1> USE DEF EngineInv, Evaluate, Leave, pool
<1>1. message[t].result \in Verdicts
  BY DEF EngineTypeOK
<1>2. EngineTypeOK'
  BY <1>1 DEF EngineTypeOK, Results, Verdicts
<1>3. ArgOK' /\ GuardsInSection'
  BY ThreadAssumption DEF EngineTypeOK, ArgOK, GuardsInSection
<1>4. PoolComplete'
  BY DEF PoolComplete, BuiltNames, Names, RulesOk
<1> QED BY <1>2, <1>3, <1>4

-----------------------------------------------------------------------------

\* A step of the engine keeps the invariant, whoever made the call.
LEMMA EngineStepInv ==
  ASSUME EngineInv, NEW t \in Threads, EngineStep(t)
  PROVE  EngineInv'
  BY AddFileInv, MessageTypeInv, LockCompileInv, CompileInv, LockValidateInv,
     EnsureInv, UnpackInv, EvaluateInv, ReacquireInv
  DEF EngineStep

LEMMA EngineStutterInv ==
  ASSUME EngineInv, UNCHANGED engineVars
  PROVE  EngineInv'
  BY DEF EngineInv, EngineTypeOK, ArgOK, GuardsInSection, PoolComplete, BuiltNames,
     Names, RulesOk, engineVars, pool, lock, call

LEMMA EngineInvariance == EngineSpec => []EngineInv
<1>1. EngineInv /\ [EngineNext]_engineVars => EngineInv'
  BY EngineStepInv, CallInv, EngineStutterInv DEF EngineNext, EngineCall
<1> QED BY <1>1, EngineInitInv, PTL DEF EngineSpec

\* The variables of the engine have their types, and no call comes back without
\* a result.
THEOREM EngineTypeCorrect == EngineSpec => []EngineTypeOK
  BY EngineInvariance, PTL DEF EngineInv

\* The read guards, the write guard and the blocked GVL are held exactly inside
\* the sections the code takes them for, and a writer is alone.
THEOREM GuardsHeldInSections == EngineSpec => []GuardsInSection
  BY EngineInvariance, PTL DEF EngineInv

\* The pool stays closed under imports, and a mark in `compiled` stands for rules
\* that the factory has.
THEOREM PoolStaysComplete == EngineSpec => []PoolComplete
  BY EngineInvariance, PTL DEF EngineInv

-----------------------------------------------------------------------------
(* What a runtime error means.                                             *)

\* The types in a message that is being validated have rules of their fields' types,
\* and so have the types below.
PackedMatch ==
  \A t \in Threads : \A d \in message[t].packed : Reach[d] \cap Mismatched = {}

RuntimeInv == PackedMatch /\ RuntimeMeansEvaluated

LEMMA RuntimeByCall ==
  ASSUME \A m \in Payloads : \A d \in m.packed : Reach[d] \cap Mismatched = {},
         EngineInv, RuntimeInv, NEW t \in Threads, EngineCall(t)
  PROVE  RuntimeInv'
<1> USE DEF EngineInv, EngineTypeOK, RuntimeInv, PackedMatch, RuntimeMeansEvaluated, Enter
<1>1. CASE \E f \in Files : CallAddFile(t, f)
  BY <1>1 DEF CallAddFile
<1>2. CASE \E n \in TypeNames : CallMessageType(t, n) \/ CallCompile(t, n)
  BY <1>2 DEF CallMessageType, CallCompile
<1>3. CASE \E n \in TypeNames, m \in Payloads : CallValidate(t, n, m)
  BY <1>3 DEF CallValidate
<1> QED BY <1>1, <1>2, <1>3 DEF EngineCall

\* A type unpacked out of an Any is the one thing whose rules ClassifyStatus may
\* take for rules that failed when evaluated.
LEMMA RuntimeByUnpack ==
  ASSUME EngineInv, RuntimeInv, NEW t \in Threads, Unpack(t)
  PROVE  RuntimeInv'
<1> USE DEF EngineInv, EngineTypeOK
<1>1. at[t] = "evaluating" /\ message[t] \in [packed : SUBSET Types, result : Verdicts]
  BY DEF Unpack
<1>2. PICK d \in message[t].packed :
        \/ /\ message' = [message EXCEPT ![t].packed = @ \ {d}]
           /\ UNCHANGED <<at, ret>>
        \/ \E u \in (IF d \in ruled THEN {d} ELSE Reach[d]) : Leave(t, StatusOf(u))
  BY DEF Unpack
<1>3. CASE message' = [message EXCEPT ![t].packed = @ \ {d}] /\ UNCHANGED <<at, ret>>
  <2>1. /\ message'[t].packed = message[t].packed \ {d}
        /\ message'[t].result = message[t].result
        /\ \A u \in Threads \ {t} : message'[u] = message[u]
    BY <1>1, <1>3
  <2> QED BY <1>3, <2>1 DEF RuntimeInv, PackedMatch, RuntimeMeansEvaluated
<1>4. ASSUME NEW u \in (IF d \in ruled THEN {d} ELSE Reach[d]), Leave(t, StatusOf(u))
      PROVE  RuntimeInv'
  <2>1. d \in Types /\ u \in Reach[d] /\ Reach[d] \cap Mismatched = {}
    BY <1>1, ReachTypes DEF RuntimeInv, PackedMatch
  <2>2. StatusOf(u) = "compilation"
    BY <2>1 DEF StatusOf
  <2> QED BY <1>4, <2>2 DEF Leave, RuntimeInv, PackedMatch, RuntimeMeansEvaluated
<1> QED BY <1>2, <1>3, <1>4

LEMMA RuntimeByStep ==
  ASSUME EngineInv, RuntimeInv, NEW t \in Threads, EngineStep(t)
  PROVE  RuntimeInv'
<1> USE DEF EngineInv, EngineTypeOK, RuntimeInv, PackedMatch, RuntimeMeansEvaluated
<1>1. CASE AddFile(t) \/ MessageType(t) \/ Reacquire(t)
  BY <1>1 DEF AddFile, MessageType, Reacquire, Return, NoMessage
<1>2. CASE LockCompile(t) \/ LockValidate(t)
  BY <1>2 DEF LockCompile, LockValidate
<1>3. CASE Compile(t) \/ Ensure(t)
  BY <1>3 DEF Compile, Ensure, Leave
<1>4. CASE Evaluate(t)
  BY <1>4 DEF Evaluate, Leave
<1> HIDE DEF RuntimeInv
<1> QED BY <1>1, <1>2, <1>3, <1>4, RuntimeByUnpack DEF EngineStep

\* ClassifyStatus is right about runtime errors as far as Anys do not carry types
\* whose rules do not match their fields, for any threads and calls: only a rule
\* that failed when it was evaluated is reported as one.
THEOREM RuntimeIsEvaluated ==
  ASSUME \A m \in Payloads : \A d \in m.packed : Reach[d] \cap Mismatched = {}
  PROVE  EngineSpec => []RuntimeMeansEvaluated
<1>1. EngineInit => RuntimeInv
  BY DEF EngineInit, NoMessage, RuntimeInv, PackedMatch, RuntimeMeansEvaluated
<1>2. EngineInv /\ RuntimeInv /\ [EngineNext]_engineVars => RuntimeInv'
  <2> SUFFICES ASSUME EngineInv, RuntimeInv, [EngineNext]_engineVars PROVE RuntimeInv'
    OBVIOUS
  <2>1. CASE EngineNext
    BY <2>1, RuntimeByCall, RuntimeByStep DEF EngineNext
  <2>2. CASE UNCHANGED engineVars
    BY <2>2 DEF engineVars, call, RuntimeInv, PackedMatch, RuntimeMeansEvaluated
  <2> QED BY <2>1, <2>2
<1>3. RuntimeInv => RuntimeMeansEvaluated
  BY DEF RuntimeInv
<1> QED BY <1>1, <1>2, <1>3, EngineInvariance, PTL DEF EngineSpec
=============================================================================
