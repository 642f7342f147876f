------------------------ MODULE CollectViolationsProofs ------------------------
(***************************************************************************)
(* Three parts.  The C boundary, for any threads, memory and results,      *)
(* malloc failing anywhere and interrupts wherever they are delivered: no  *)
(* pointer outlives its block, no block is forgotten but those an          *)
(* interrupt takes the owner of, and Ruby is told what became of its own   *)
(* call.  The walk along a path, for any messages of any schema, by        *)
(* induction on the length of the path.  And Validator#collect_violations, *)
(* which has both: a violation is given to the caller whose message it is  *)
(* about, and field_value finds the value there.                           *)
(***************************************************************************)
EXTENDS CollectViolations, WellFoundedInduction, TLAPS

(* Part 1: the C boundary.                                                 *)

Written == Results \cup {Valid}

\* The buffer of a call that was given one.
Filled(t) == Buffer(t, IF pc[t] = "serializing" THEN Raw ELSE verdict[t])

\* t's pointers lead to blocks of its own.
Owns(t) ==
  /\ error[t] # Null => heap[error[t]] = Error(t, verdict[t])
  /\ out[t] # Null => heap[out[t]] = Filled(t)
  /\ engine[t] # Null => heap[engine[t]] = Engine
  /\ engine[t] # Null => (op[t] # "new" <=> engine[t] \in objects)

\* What a call has in hand at each place.
InHand(t) ==
  /\ pc[t] \in {"idle", "releasing", "shim", "failing", "writing"}
       => error[t] = Null /\ out[t] = Null
  /\ pc[t] = "idle" => engine[t] = Null /\ op[t] = "none"
  /\ out[t] # Null => op[t] = "validate"
  /\ pc[t] \notin {"idle", "returned", "copied", "result"} => engine[t] # Null
  /\ pc[t] = "releasing" => op[t] \in {"compile", "validate"}
  /\ pc[t] \in {"failing", "copied"} => verdict[t] \in Failures
  /\ pc[t] = "copied" => out[t] = Null
  /\ pc[t] \in {"writing", "serializing", "delivered"}
       => verdict[t] \in Written /\ op[t] = "validate"
  /\ pc[t] \in {"serializing", "delivered"} => out[t] # Null /\ error[t] = Null
  /\ pc[t] = "returned" /\ code[t] # "PV_OK"
       => verdict[t] \in Failures /\ code[t] = Status(verdict[t]) /\ out[t] = Null
  /\ pc[t] = "returned" /\ code[t] = "PV_OK"
       => error[t] = Null /\ verdict[t] \in Written \cup {"accepted"}
          /\ (out[t] # Null <=> verdict[t] \in Written)
  /\ pc[t] = "result"
       => error[t] = Null /\ (out[t] # Null => verdict[t] \in Results)
  /\ pc[t] = "delivered" => verdict[t] \in Results

\* Engines in the making have one maker each, and Ruby objects own engines.
OneMaker ==
  /\ \A t, u \in Threads :
       op[t] = "new" /\ op[u] = "new" /\ engine[t] = engine[u] /\ engine[t] # Null
         => t = u
  /\ \A e \in objects : heap[e] = Engine

\* The answer is that of the failure.
Fails(t) ==
  /\ answer[t].text \in {verdict[t], Unknown}
  /\ answer[t].class = CASE verdict[t] \in Argument    -> "ArgumentError"
                         [] verdict[t] \in Compilation -> "CompilationError"
                         [] verdict[t] \in Evaluation  -> "EvaluationError"
                         [] OTHER                      -> "Error"

\* AnswersTrue of one thread, and of the moment before the string is freed.
Told(t) ==
  /\ pc[t] = "copied" => Fails(t)
  /\ pc[t] = "delivered" \/ (pc[t] = "result" /\ out[t] = Null) =>
       IF verdict[t] \in Failures THEN Fails(t)
       ELSE answer[t] = [class |-> "ok", text |-> verdict[t]]

IInv ==
  /\ TypeOK
  /\ \A t \in Threads : Owns(t) /\ InHand(t) /\ Told(t)
  /\ OneMaker
  /\ NothingForgotten

-----------------------------------------------------------------------------
(* What one thread's step does to the others.                              *)

LEMMA BlocksDiffer ==
  /\ Free # Engine
  /\ \A t, v : Error(t, v) # Free /\ Error(t, v) # Engine
  /\ \A t, v : Buffer(t, v) # Free /\ Buffer(t, v) # Engine
  /\ \A t, u, v, w : Error(t, v) # Buffer(u, w)
  /\ \A t, u, v, w : Error(t, v) = Error(u, w) => t = u
  /\ \A t, u, v, w : Buffer(t, v) = Buffer(u, w) => t = u
  BY DEF Free, Engine, Error, Buffer

\* Blocks only t may free: the shim's that it points to, the engine it makes.
Own(t) == {a \in Addrs : a \in Pointers(t) \/ (op[t] = "new" /\ engine[t] = a)}

SameFor(u) ==
  /\ pc'[u] = pc[u] /\ op'[u] = op[u] /\ engine'[u] = engine[u]
  /\ verdict'[u] = verdict[u] /\ code'[u] = code[u]
  /\ error'[u] = error[u] /\ out'[u] = out[u] /\ answer'[u] = answer[u]

\* A step of t: memory that was free or its own changes, and nobody else's.
StepOf(t) ==
  /\ \A u \in Threads \ {t} : SameFor(u)
  /\ \A a \in Addrs : heap'[a] = heap[a] \/ heap[a] = Free \/ a \in Own(t)
  /\ objects \subseteq objects'
  /\ \A a \in objects' \ objects : op[t] = "new" /\ engine[t] = a /\ heap'[a] = heap[a]
  /\ lost \subseteq lost'
  /\ \A a \in Addrs \ lost' :
       heap'[a] # Free /\ (heap[a] = Free \/ a \in Own(t)) => a \in objects' \cup Own(t)'

LEMMA OwnBlocks ==
  ASSUME IInv, NEW t \in Threads, NEW u \in Threads, t # u
  PROVE  /\ \A a \in Own(t) : heap[a] # Free
         /\ Own(t) \cap Own(u) = {}
         /\ Own(t) \cap objects = {}
         /\ engine[u] # Null => engine[u] \notin Own(t)
<1> USE BlocksDiffer, CallAssumption
<1>1. \A a \in Own(t) :
        \/ \E v : heap[a] = Error(t, v)
        \/ \E v : heap[a] = Buffer(t, v)
        \/ heap[a] = Engine /\ op[t] = "new" /\ engine[t] = a /\ a \notin objects
  BY DEF IInv, Own, Owns, Pointers, Filled
<1>2. \A a \in Own(u) :
        \/ \E v : heap[a] = Error(u, v)
        \/ \E v : heap[a] = Buffer(u, v)
        \/ heap[a] = Engine /\ op[u] = "new" /\ engine[u] = a /\ a \notin objects
  BY DEF IInv, Own, Owns, Pointers, Filled
<1>3. \A a \in objects : heap[a] = Engine
  BY DEF IInv, OneMaker
<1>4. engine[u] # Null => heap[engine[u]] = Engine
                          /\ (op[u] # "new" <=> engine[u] \in objects)
  BY DEF IInv, Owns
<1>5. op[t] = "new" /\ op[u] = "new" /\ engine[t] = engine[u] => engine[t] = Null
  BY DEF IInv, OneMaker
<1>6. Null \notin Own(t)
  BY DEF Own
<1> QED BY <1>1, <1>2, <1>3, <1>4, <1>5, <1>6

\* What the others have is theirs after the step.
LEMMA OthersKeep ==
  ASSUME IInv, TypeOK', NEW t \in Threads, NEW u \in Threads, t # u, StepOf(t)
  PROVE  Owns(u)' /\ InHand(u)' /\ Told(u)' /\ Own(u)' = Own(u)
<1> USE CallAssumption
<1>1. Owns(u) /\ InHand(u) /\ Told(u) /\ SameFor(u)
  BY DEF IInv, StepOf
<1>2. \A a \in Own(u) : heap'[a] = heap[a]
  <2>1. Own(t) \cap Own(u) = {} /\ \A a \in Own(u) : heap[a] # Free
    BY OwnBlocks
  <2>2. Own(u) \subseteq Addrs
    BY DEF Own
  <2> QED BY <2>1, <2>2 DEF StepOf
<1>3. engine[u] # Null => heap'[engine[u]] = heap[engine[u]]
  BY <1>1, OwnBlocks, BlocksDiffer DEF StepOf, Owns, IInv, TypeOK
<1>4. /\ error[u] # Null => error[u] \in Own(u)
      /\ out[u] # Null => out[u] \in Own(u)
  BY DEF Own, Pointers, IInv, TypeOK
<1>5. engine[u] # Null => (engine[u] \in objects <=> engine[u] \in objects')
  BY OwnBlocks DEF StepOf, Own, IInv, TypeOK
<1>6. Owns(u)'
  BY <1>1, <1>2, <1>3, <1>4, <1>5 DEF Owns, SameFor, Filled
<1>7. InHand(u)'
  BY <1>1 DEF InHand, SameFor
<1>8. Told(u)'
  BY <1>1 DEF Told, Fails, SameFor
<1>9. Own(u)' = Own(u)
  BY <1>1 DEF Own, Pointers, SameFor
<1> QED BY <1>6, <1>7, <1>8, <1>9

\* A step of t keeps the invariant if it keeps t's part of it.
LEMMA StepKeeps ==
  ASSUME IInv, NEW t \in Threads, StepOf(t), TypeOK', Owns(t)', InHand(t)', Told(t)',
         op'[t] = "new" /\ engine'[t] # Null => engine'[t] \in Own(t) \/ heap[engine'[t]] = Free
  PROVE  IInv'
<1> USE CallAssumption
<1>1. \A u \in Threads : Owns(u)' /\ InHand(u)' /\ Told(u)'
  BY OthersKeep
<1>2. OneMaker'
  <2>1. ASSUME NEW u \in Threads, u # t, op'[u] = "new", op'[t] = "new",
               engine'[t] = engine'[u], engine'[t] # Null
        PROVE  FALSE
    <3>1. SameFor(u) /\ engine[u] \in Own(u) /\ heap[engine[u]] = Engine
      BY <2>1 DEF StepOf, SameFor, Own, IInv, TypeOK, Owns
    <3>2. engine[u] \in Own(t)
      BY <2>1, <3>1, BlocksDiffer DEF SameFor
    <3> QED BY <2>1, <3>1, <3>2, OwnBlocks
  <2>2. ASSUME NEW u \in Threads \ {t}, NEW v \in Threads \ {t}, op'[u] = "new",
               op'[v] = "new", engine'[u] = engine'[v], engine'[u] # Null
        PROVE  u = v
    BY <2>2 DEF StepOf, SameFor, IInv, OneMaker
  <2>3. ASSUME NEW e \in objects' PROVE heap'[e] = Engine
    <3>1. CASE e \in objects
      <4>1. heap[e] = Engine /\ e \in Addrs /\ e \notin Own(t)
        BY <3>1, BlocksDiffer DEF IInv, OneMaker, TypeOK, Own, Owns, Pointers, Filled
      <4> QED BY <4>1, BlocksDiffer DEF StepOf
    <3>2. CASE e \notin objects
      <4>1. engine[t] = e /\ heap'[e] = heap[e] /\ e \in Addrs
        BY <3>2 DEF StepOf, TypeOK
      <4> QED BY <4>1 DEF IInv, Owns
    <3> QED BY <3>1, <3>2
  <2> QED BY <2>1, <2>2, <2>3 DEF OneMaker
<1>3. NothingForgotten'
  <2>1. \A u \in Threads \ {t} : Own(u)' = Own(u)
    BY OthersKeep
  <2>2. ASSUME NEW a \in Addrs \ lost', heap'[a] # Free
        PROVE  a \in objects' \/ \E u \in Threads : a \in Own(u)'
    <3>1. CASE heap[a] = Free \/ a \in Own(t)
      BY <2>2, <3>1 DEF StepOf
    <3>2. CASE heap[a] # Free /\ a \notin Own(t)
      <4>1. a \in objects \/ \E u \in Threads : a \in Own(u)
        BY <3>2 DEF IInv, NothingForgotten, Own, StepOf
      <4> QED BY <2>1, <3>2, <4>1 DEF StepOf
    <3> QED BY <3>1, <3>2
  <2> QED BY <2>2 DEF NothingForgotten, Own
<1> QED BY <1>1, <1>2, <1>3 DEF IInv

-----------------------------------------------------------------------------
(* The steps.                                                              *)

LEMMA InitHolds == Init => IInv
  BY CallAssumption DEF Init, IInv, TypeOK, Owns, InHand, Told, OneMaker,
     NothingForgotten, Free, NoAnswer, Failures, Argument, Compilation, Evaluation, Unexpected

LEMMA ShimKeeps ==
  ASSUME IInv, NEW t \in Threads,
         \/ \E v \in Verdicts(op[t]) : Decide(t, v)
         \/ SetError(t) \/ AllocateOutput(t) \/ Serialize(t) \/ SerializeFails(t)
  PROVE  IInv'
<1> USE CallAssumption, ResultAssumption, BlocksDiffer
<1> USE DEF Goto, frame
<1>0. TypeOK /\ Owns(t) /\ InHand(t) /\ Told(t)
  BY DEF IInv
<1>1. ASSUME NEW v \in Verdicts(op[t]), Decide(t, v) PROVE IInv'
  <2>1. v \in Failures \cup Written \cup {"accepted"} /\ (v \in Written => op[t] = "validate")
    <3> HIDE CallAssumption, BlocksDiffer
    <3>1. op[t] = "validate" => v \in Failures \cup Written
      BY <1>1 DEF Verdicts, Failures, Argument, Compilation, Evaluation, Unexpected, Written
    <3>2. op[t] # "validate" => v \in Failures \cup {"accepted"}
      BY <1>1 DEF Verdicts, Failures, Argument, Compilation, Evaluation, Unexpected
    <3> QED BY <3>1, <3>2 DEF Written
  <2>2. TypeOK'
    BY <1>0, <1>1, <2>1 DEF Decide, TypeOK, Written
  <2>3. StepOf(t)
    BY <1>0, <1>1 DEF Decide, TypeOK, StepOf, SameFor, Own, Pointers
  <2>4. Owns(t)'
    BY <1>0, <1>1 DEF Decide, TypeOK, Owns, InHand
  <2>5. InHand(t)'
    BY <1>0, <1>1, <2>1 DEF Decide, TypeOK, InHand, Written
  <2>6. Told(t)'
    BY <1>0, <1>1 DEF Decide, TypeOK, Told
  <2>7. op'[t] = "new" /\ engine'[t] # Null => engine'[t] \in Own(t)
    BY <1>0, <1>1 DEF Decide, TypeOK, Own
  <2> QED BY <2>2, <2>3, <2>4, <2>5, <2>6, <2>7, StepKeeps
<1>2. ASSUME SetError(t) PROVE IInv'
  <2>1. Status(verdict[t]) \in {"none", "PV_ERR_COMPILATION", "PV_ERR_RUNTIME",
                                "PV_ERR_ARGUMENT", "PV_ERR_UNEXPECTED"}
    BY <1>0, <1>2 DEF SetError, InHand, Status, ClassifyStatus, Failures, Argument,
                      Compilation, Evaluation, Unexpected
  <2>2. PICK p \in Available \cup {Null} :
          /\ error' = [error EXCEPT ![t] = p]
          /\ heap' = [a \in Addrs |->
                        IF a = p THEN Error(t, verdict[t])
                        ELSE IF op[t] = "new" /\ a = engine[t] THEN Free ELSE heap[a]]
    BY <1>2 DEF SetError
  <2>3. TypeOK'
    BY <1>0, <1>2, <2>1, <2>2 DEF SetError, TypeOK, Available, InHand
  <2>4. StepOf(t)
    BY <1>0, <1>2, <2>2 DEF SetError, TypeOK, Available, StepOf, SameFor, Own, Pointers,
                            InHand
  <2>5. Owns(t)'
    BY <1>0, <1>2, <2>2 DEF SetError, TypeOK, Available, Owns, InHand
  <2>6. InHand(t)'
    BY <1>0, <1>2, <2>1, <2>2 DEF SetError, TypeOK, InHand
  <2>7. Told(t)'
    BY <1>0, <1>2 DEF SetError, TypeOK, Told
  <2>8. op'[t] = "new" /\ engine'[t] # Null => engine'[t] \in Own(t)
    BY <1>0, <1>2 DEF SetError, TypeOK, Own
  <2> QED BY <2>3, <2>4, <2>5, <2>6, <2>7, <2>8, StepKeeps
<1>3. ASSUME AllocateOutput(t) PROVE IInv'
  <2>1. TypeOK'
    BY <1>0, <1>3 DEF AllocateOutput, TypeOK, Available, Failures, Evaluation
  <2>2. StepOf(t)
    BY <1>0, <1>3 DEF AllocateOutput, TypeOK, Available, StepOf, SameFor, Own, Pointers,
                      InHand
  <2>3. Owns(t)'
    BY <1>0, <1>3 DEF AllocateOutput, TypeOK, Available, Owns, InHand, Filled
  <2>4. InHand(t)'
    BY <1>0, <1>3 DEF AllocateOutput, TypeOK, InHand, Available, Failures, Evaluation
  <2>5. Told(t)'
    BY <1>0, <1>3 DEF AllocateOutput, TypeOK, Told
  <2>6. op'[t] = "new" /\ engine'[t] # Null => engine'[t] \in Own(t)
    BY <1>0, <1>3 DEF AllocateOutput, TypeOK, Own
  <2> QED BY <2>1, <2>2, <2>3, <2>4, <2>5, <2>6, StepKeeps
<1>4. ASSUME Serialize(t) PROVE IInv'
  <2>0. out[t] \in Addrs /\ verdict[t] \in Written
    BY <1>0, <1>4 DEF Serialize, TypeOK, InHand
  <2>1. TypeOK'
    BY <1>0, <1>4, <2>0 DEF Serialize, TypeOK, Written
  <2>2. StepOf(t)
    BY <1>0, <1>4, <2>0 DEF Serialize, TypeOK, StepOf, SameFor, Own, Pointers
  <2>3. Owns(t)'
    BY <1>0, <1>4, <2>0 DEF Serialize, TypeOK, Owns, InHand, Filled
  <2>4. InHand(t)'
    BY <1>0, <1>4, <2>0 DEF Serialize, TypeOK, InHand
  <2>5. Told(t)'
    BY <1>0, <1>4 DEF Serialize, TypeOK, Told
  <2>6. op'[t] = "new" /\ engine'[t] # Null => engine'[t] \in Own(t)
    BY <1>0, <1>4 DEF Serialize, TypeOK, Own
  <2> QED BY <2>1, <2>2, <2>3, <2>4, <2>5, <2>6, StepKeeps
<1>5. ASSUME SerializeFails(t) PROVE IInv'
  <2>1. TypeOK'
    BY <1>0, <1>5 DEF SerializeFails, Without, TypeOK, Failures, Evaluation
  <2>2. StepOf(t)
    BY <1>0, <1>5 DEF SerializeFails, Without, TypeOK, StepOf, SameFor, Own, Pointers, InHand
  <2>3. Owns(t)'
    BY <1>0, <1>5 DEF SerializeFails, Without, TypeOK, Owns, InHand, Filled
  <2>4. InHand(t)'
    BY <1>0, <1>5 DEF SerializeFails, TypeOK, InHand, Failures, Evaluation
  <2>5. Told(t)'
    BY <1>0, <1>5 DEF SerializeFails, TypeOK, Told
  <2>6. op'[t] = "new" /\ engine'[t] # Null => engine'[t] \in Own(t)
    BY <1>0, <1>5 DEF SerializeFails, TypeOK, Own
  <2> QED BY <2>1, <2>2, <2>3, <2>4, <2>5, <2>6, StepKeeps
<1> QED BY <1>1, <1>2, <1>3, <1>4, <1>5

LEMMA ClassOfFailure ==
  ASSUME NEW v \in Failures
  PROVE  ErrorClass(Status(v)) = CASE v \in Argument    -> "ArgumentError"
                                   [] v \in Compilation -> "CompilationError"
                                   [] v \in Evaluation  -> "EvaluationError"
                                   [] OTHER             -> "Error"
<1>1. CASE v \in Argument
  BY <1>1 DEF Argument, Compilation, Evaluation, Status, ErrorClass
<1>2. CASE v = "bad_rules"
  BY <1>2 DEF Argument, Compilation, Evaluation, Status, ErrorClass
<1>3. CASE v = "bad_rules_in_any"
  BY <1>3 DEF Argument, Compilation, Evaluation, Status, ClassifyStatus, ErrorClass
<1>4. CASE v = "rule_fails"
  BY <1>4 DEF Argument, Compilation, Evaluation, Status, ClassifyStatus, ErrorClass
<1>5. CASE v \in {"out_of_memory", "unserializable"}
  BY <1>5 DEF Argument, Compilation, Evaluation, Status, ErrorClass
<1>6. CASE v = "other_status"
  BY <1>6 DEF Argument, Compilation, Evaluation, Status, ClassifyStatus, ErrorClass
<1>7. CASE v = "no_factory"
  BY <1>7 DEF Argument, Compilation, Evaluation, Status, ErrorClass
<1> QED BY <1>1, <1>2, <1>3, <1>4, <1>5, <1>6, <1>7
        DEF Failures, Compilation, Evaluation, Unexpected

LEMMA RustKeeps ==
  ASSUME IInv, NEW t \in Threads,
         \/ New(t)
         \/ \E o \in {"add_file", "compile", "validate"} : Call(t, o)
         \/ ReleaseGVL(t) \/ TakeError(t) \/ FreeError(t) \/ Succeed(t)
         \/ Deliver(t) \/ DropBuffer(t) \/ Interrupt(t)
  PROVE  IInv'
<1> USE CallAssumption, BlocksDiffer
<1> USE DEF Goto, frame
<1>0. TypeOK /\ Owns(t) /\ InHand(t) /\ Told(t)
  BY DEF IInv
<1>1. ASSUME New(t) PROVE IInv'
  <2>1. PICK a \in Available : /\ heap' = [heap EXCEPT ![a] = Engine]
                               /\ engine' = [engine EXCEPT ![t] = a]
    BY <1>1 DEF New
  <2>2. TypeOK'
    BY <1>0, <1>1, <2>1 DEF New, TypeOK, Available
  <2>3. StepOf(t)
    BY <1>0, <1>1, <2>1 DEF New, TypeOK, Available, StepOf, SameFor, Own, Pointers, InHand
  <2>4. Owns(t)'
    <3>1. a \notin objects
      BY <2>1 DEF IInv, OneMaker, Available
    <3> QED BY <1>0, <1>1, <2>1, <3>1 DEF New, TypeOK, Available, Owns, InHand
  <2>5. InHand(t)'
    BY <1>0, <1>1, <2>1 DEF New, TypeOK, Available, InHand
  <2>6. Told(t)'
    BY <1>0, <1>1 DEF New, TypeOK, Told
  <2>7. heap[engine'[t]] = Free
    BY <1>0, <2>1 DEF TypeOK, Available
  <2> QED BY <2>2, <2>3, <2>4, <2>5, <2>6, <2>7, StepKeeps
<1>2. ASSUME NEW o \in {"add_file", "compile", "validate"}, Call(t, o) PROVE IInv'
  <2>1. PICK e \in objects : engine' = [engine EXCEPT ![t] = e]
    BY <1>2 DEF Call
  <2>2. TypeOK'
    BY <1>0, <1>2, <2>1 DEF Call, TypeOK
  <2>3. StepOf(t)
    BY <1>0, <1>2 DEF Call, TypeOK, StepOf, SameFor, Own, Pointers, InHand
  <2>4. Owns(t)'
    BY <1>0, <1>2, <2>1 DEF Call, TypeOK, IInv, OneMaker, Owns, InHand
  <2>5. InHand(t)'
    BY <1>0, <1>2, <2>1 DEF Call, TypeOK, InHand
  <2>6. Told(t)'
    BY <1>0, <1>2 DEF Call, TypeOK, Told
  <2>7. op'[t] # "new"
    BY <1>0, <1>2 DEF Call, TypeOK
  <2> QED BY <2>2, <2>3, <2>4, <2>5, <2>6, <2>7, StepKeeps
<1>3. ASSUME ReleaseGVL(t) PROVE IInv'
  <2>1. TypeOK'
    BY <1>0, <1>3 DEF ReleaseGVL, TypeOK
  <2>2. StepOf(t)
    BY <1>0, <1>3 DEF ReleaseGVL, TypeOK, StepOf, SameFor, Own, Pointers
  <2>3. Owns(t)'
    BY <1>0, <1>3 DEF ReleaseGVL, TypeOK, Owns, InHand
  <2>4. InHand(t)'
    BY <1>0, <1>3 DEF ReleaseGVL, TypeOK, InHand
  <2>5. Told(t)'
    BY <1>0, <1>3 DEF ReleaseGVL, TypeOK, Told
  <2>6. op'[t] # "new"
    BY <1>0, <1>3 DEF ReleaseGVL, TypeOK, InHand
  <2> QED BY <2>1, <2>2, <2>3, <2>4, <2>5, <2>6, StepKeeps
<1>4. ASSUME TakeError(t) PROVE IInv'
  <2>1. TypeOK'
    BY <1>0, <1>4 DEF TakeError, Answer, TypeOK
  <2>2. StepOf(t)
    BY <1>0, <1>4 DEF TakeError, Answer, NoAnswer, TypeOK, StepOf, SameFor, Own, Pointers
  <2>3. Owns(t)'
    BY <1>0, <1>4 DEF TakeError, TypeOK, Owns, InHand
  <2>4. InHand(t)'
    BY <1>0, <1>4 DEF TakeError, TypeOK, InHand
  <2>5. Told(t)'
    <3>1. verdict[t] \in Failures /\ code[t] = Status(verdict[t])
      BY <1>0, <1>4 DEF TakeError, InHand
    <3>2. error[t] # Null => heap[error[t]].text = verdict[t]
      BY <1>0 DEF Owns, Error
    <3> QED BY <1>0, <1>4, <3>1, <3>2, ClassOfFailure
            DEF TakeError, Answer, TypeOK, Told, Fails
  <2>6. op'[t] = "new" /\ engine'[t] # Null => engine'[t] \in Own(t)
    BY <1>0, <1>4 DEF TakeError, TypeOK, Own
  <2> QED BY <2>1, <2>2, <2>3, <2>4, <2>5, <2>6, StepKeeps
<1>5. ASSUME FreeError(t) PROVE IInv'
  <2>1. TypeOK'
    BY <1>0, <1>5 DEF FreeError, Without, TypeOK
  <2>2. StepOf(t)
    BY <1>0, <1>5 DEF FreeError, Without, TypeOK, StepOf, SameFor, Own, Pointers, Owns
  <2>3. Owns(t)'
    BY <1>0, <1>5 DEF FreeError, Without, TypeOK, Owns, InHand
  <2>4. InHand(t)'
    BY <1>0, <1>5 DEF FreeError, TypeOK, InHand
  <2>5. Told(t)'
    BY <1>0, <1>5 DEF FreeError, TypeOK, Told, Fails, InHand
  <2>6. op'[t] = "new" /\ engine'[t] # Null => engine'[t] \in Own(t)
    BY <1>0, <1>5 DEF FreeError, TypeOK, Own
  <2> QED BY <2>1, <2>2, <2>3, <2>4, <2>5, <2>6, StepKeeps
<1>6. ASSUME Succeed(t) PROVE IInv'
  <2>1. out[t] # Null => heap[out[t]].bytes = verdict[t] /\ verdict[t] \in Written
                         /\ out[t] \in Addrs
    BY <1>0, <1>6 DEF Succeed, Owns, Filled, Buffer, InHand, TypeOK
  <2>2. TypeOK'
    BY <1>0, <1>6 DEF Succeed, Answer, Without, TypeOK
  <2>3. StepOf(t)
    BY <1>0, <1>6 DEF Succeed, Answer, Without, TypeOK, StepOf, SameFor, Own, Pointers
  <2>4. Owns(t)'
    BY <1>0, <1>6 DEF Succeed, Without, TypeOK, Owns, InHand, Filled
  <2>5. InHand(t)'
    BY <1>0, <1>6, <2>1 DEF Succeed, TypeOK, InHand, Written
  <2>6. Told(t)'
    <3>1. verdict[t] \notin Failures /\ Valid \notin Failures
      BY <1>0, <1>6, ResultAssumption
         DEF Succeed, InHand, Written, Failures, Argument, Compilation, Evaluation, Unexpected
    <3> QED BY <1>0, <1>6, <2>1, <3>1 DEF Succeed, Answer, TypeOK, Told, InHand, Written
  <2>7. op'[t] = "new" /\ engine'[t] # Null => engine'[t] \in Own(t)
    BY <1>0, <1>6 DEF Succeed, TypeOK, Own
  <2> QED BY <2>2, <2>3, <2>4, <2>5, <2>6, <2>7, StepKeeps
<1>7. ASSUME Deliver(t) PROVE IInv'
  <2>1. CASE out[t] = Null
    <3>1. TypeOK'
      BY <1>0, <1>7, <2>1 DEF Deliver, Leave, TypeOK
    <3>2. StepOf(t)
      BY <1>0, <1>7, <2>1 DEF Deliver, Leave, TypeOK, StepOf, SameFor, Own, Pointers, InHand
    <3>3. Owns(t)'
      BY <1>0, <1>7, <2>1 DEF Deliver, Leave, TypeOK, Owns, InHand
    <3>4. InHand(t)'
      BY <1>0, <1>7, <2>1 DEF Deliver, Leave, TypeOK, InHand
    <3>5. Told(t)'
      BY <1>0, <1>7, <2>1 DEF Deliver, Leave, TypeOK, Told
    <3>6. op'[t] # "new"
      BY <1>0, <1>7, <2>1 DEF Deliver, Leave, TypeOK
    <3> QED BY <3>1, <3>2, <3>3, <3>4, <3>5, <3>6, StepKeeps
  <2>2. CASE out[t] # Null
    <3>0. op[t] = "validate" /\ verdict[t] \in Results /\ heap[out[t]].bytes = verdict[t]
          /\ engine[t] # Null /\ objects' = objects
      BY <1>0, <1>7, <2>2 DEF Deliver, InHand, Owns, Filled, Buffer, TypeOK
    <3>1. TypeOK'
      BY <1>0, <1>7, <2>2, <3>0 DEF Deliver, Answer, TypeOK
    <3>2. StepOf(t)
      BY <1>0, <1>7, <2>2, <3>0 DEF Deliver, Answer, TypeOK, StepOf, SameFor, Own, Pointers
    <3>3. Owns(t)'
      BY <1>0, <1>7, <2>2, <3>0 DEF Deliver, TypeOK, Owns, InHand, Filled
    <3>4. InHand(t)'
      BY <1>0, <1>7, <2>2, <3>0 DEF Deliver, TypeOK, InHand, Written
    <3>5. Told(t)'
      BY <1>0, <1>7, <2>2, <3>0, ResultAssumption DEF Deliver, Answer, TypeOK, Told
    <3>6. op'[t] # "new"
      BY <1>0, <1>7, <2>2, <3>0 DEF Deliver
    <3> QED BY <3>1, <3>2, <3>3, <3>4, <3>5, <3>6, StepKeeps
  <2> QED BY <2>1, <2>2
<1>8. ASSUME DropBuffer(t) PROVE IInv'
  <2>1. TypeOK'
    BY <1>0, <1>8 DEF DropBuffer, Leave, Without, TypeOK
  <2>2. StepOf(t)
    BY <1>0, <1>8 DEF DropBuffer, Leave, Without, TypeOK, StepOf, SameFor, Own, Pointers,
                      InHand
  <2>3. Owns(t)'
    BY <1>0, <1>8 DEF DropBuffer, Leave, TypeOK, Owns, InHand
  <2>4. InHand(t)'
    BY <1>0, <1>8 DEF DropBuffer, Leave, TypeOK, InHand
  <2>5. Told(t)'
    BY <1>0, <1>8 DEF DropBuffer, Leave, TypeOK, Told
  <2>6. op'[t] # "new"
    BY <1>0, <1>8 DEF DropBuffer, Leave, TypeOK
  <2> QED BY <2>1, <2>2, <2>3, <2>4, <2>5, <2>6, StepKeeps
<1>9. ASSUME Interrupt(t) PROVE IInv'
  <2>1. TypeOK'
    BY <1>0, <1>9 DEF Interrupt, Leave, Answer, TypeOK
  <2>2. StepOf(t)
    BY <1>0, <1>9 DEF Interrupt, Leave, Answer, TypeOK, StepOf, SameFor, Own, Pointers,
                      InHand
  <2>3. Owns(t)'
    BY <1>0, <1>9 DEF Interrupt, Leave, TypeOK, Owns, InHand
  <2>4. InHand(t)'
    BY <1>0, <1>9 DEF Interrupt, Leave, TypeOK, InHand
  <2>5. Told(t)'
    BY <1>0, <1>9 DEF Interrupt, Leave, TypeOK, Told
  <2>6. op'[t] # "new"
    BY <1>0, <1>9 DEF Interrupt, Leave, TypeOK
  <2> QED BY <2>1, <2>2, <2>3, <2>4, <2>5, <2>6, StepKeeps
<1> QED BY <1>1, <1>2, <1>3, <1>4, <1>5, <1>6, <1>7, <1>8, <1>9

\* Ruby frees an engine that no call uses.
LEMMA SweepKeeps ==
  ASSUME IInv, NEW e \in objects, Sweep(e)
  PROVE  IInv'
<1> USE CallAssumption, BlocksDiffer
<1> USE DEF frame
<1>1. heap[e] = Engine /\ e \in Addrs
  BY DEF IInv, OneMaker, TypeOK
<1>2. TypeOK'
  BY <1>1 DEF Sweep, Without, IInv, TypeOK
<1>3. ASSUME NEW t \in Threads PROVE Owns(t)' /\ InHand(t)' /\ Told(t)'
  <2>1. Owns(t) /\ InHand(t) /\ Told(t)
    BY DEF IInv
  <2>2. engine[t] # e /\ error[t] # e /\ out[t] # e
    BY <1>1, <2>1 DEF Sweep, Owns, Filled
  <2>3. Owns(t)'
    BY <1>1, <2>1, <2>2 DEF Sweep, Without, IInv, TypeOK, Owns, Filled
  <2> QED BY <2>1, <2>3 DEF Sweep, InHand, Told, Fails
<1>4. OneMaker'
  BY <1>1 DEF Sweep, Without, IInv, TypeOK, OneMaker
<1>5. NothingForgotten'
  BY <1>1 DEF Sweep, Without, IInv, TypeOK, NothingForgotten, Pointers
<1> QED BY <1>2, <1>3, <1>4, <1>5 DEF IInv

LEMMA NextKeeps == IInv /\ [Next]_vars => IInv'
<1> SUFFICES ASSUME IInv, [Next]_vars PROVE IInv'
  OBVIOUS
<1>1. CASE Next
  BY <1>1, ShimKeeps, RustKeeps, SweepKeeps DEF Next, Step
<1>2. CASE UNCHANGED vars
  BY <1>2 DEF vars, frame, IInv, TypeOK, Owns, Filled, InHand, Told, Fails, OneMaker,
              NothingForgotten, Pointers
<1> QED BY <1>1, <1>2

LEMMA Invariance == Spec => []IInv
  BY InitHolds, NextKeeps, PTL DEF Spec

-----------------------------------------------------------------------------
(* The theorems.                                                           *)

\* The heap and the pointers of the calls keep their types.
THEOREM TypeCorrect == Spec => []TypeOK
  BY Invariance, PTL DEF IInv

\* Whatever malloc hands out again, a call reads and frees blocks of its own and
\* runs on an engine that is there.
THEOREM PointersHold == Spec => []NothingDangles
<1>1. IInv => NothingDangles
  <2> SUFFICES ASSUME IInv PROVE NothingDangles
    OBVIOUS
  <2>1. ASSUME NEW t \in Threads, out[t] # Null
        PROVE  \E b \in Results \cup {Valid, Raw} : heap[out[t]] = Buffer(t, b)
    <3>1. verdict[t] \in Written
      BY <2>1 DEF IInv, InHand, TypeOK, Written
    <3> QED BY <2>1, <3>1 DEF IInv, Owns, Filled, Written
  <2> QED BY <2>1, CallAssumption DEF IInv, TypeOK, Owns, OneMaker, NothingDangles
<1> QED BY <1>1, Invariance, PTL

\* Every path out of the shim frees what it allocated, or leaves a frame behind
\* that will; interrupts alone take blocks away.
THEOREM BlocksAccountedFor == Spec => []NothingForgotten
  BY Invariance, PTL DEF IInv

\* Every call tells Ruby what became of it, with the class of the phase that
\* failed and the message of this failure.
THEOREM AnswersAreTrue == Spec => []AnswersTrue
<1>1. IInv => AnswersTrue
  BY DEF IInv, Told, Fails, AnswersTrue
<1> QED BY <1>1, Invariance, PTL

-----------------------------------------------------------------------------
(* Part 2: the walk along a path.                                          *)

LEMMA Induction ==
  ASSUME NEW S \in SUBSET Nat, 0 \in S, \A n \in Nat : n \in S => n + 1 \in S
  PROVE  S = Nat
<1> SUFFICES ASSUME S # Nat PROVE FALSE
  OBVIOUS
<1>1. PICK n \in Nat \ S : \A m \in Nat \ S : ~ (<<m, n>> \in OpToRel(<, Nat))
  BY NatLessThanWellFounded, WFMin
<1>2. \A m \in Nat \ S : ~ (m < n)
  BY <1>1 DEF OpToRel
<1>3. n # 0 /\ n - 1 \in Nat
  OBVIOUS
<1>4. n - 1 \in S
  BY <1>2, <1>3
<1> QED BY <1>3, <1>4

LEMMA SpotsDefined ==
  ASSUME NEW source
  PROVE  /\ Spots(source)[0] = {[path |-> <<>>, value |-> source]}
         /\ \A n \in 0 .. MaxDepth : n > 0 =>
              Spots(source)[n] = Below(Spots(source)[n - 1])
<1> DEFINE F(f, n) == IF n = 0 THEN {[path |-> <<>>, value |-> source]} ELSE Below(f[n - 1])
           S == {k \in Nat : \E f : f = [n \in 0 .. k |-> F(f, n)]}
<1>1. 0 \in S
  <2> DEFINE f == [n \in 0 .. 0 |-> {[path |-> <<>>, value |-> source]}]
  <2>1. f = [n \in 0 .. 0 |-> F(f, n)]
    OBVIOUS
  <2> QED BY <2>1
<1>2. ASSUME NEW k \in Nat, k \in S PROVE k + 1 \in S
  <2>1. PICK f : f = [n \in 0 .. k |-> F(f, n)]
    BY <1>2
  <2> DEFINE g == [n \in 0 .. k + 1 |-> IF n = k + 1 THEN Below(f[k]) ELSE f[n]]
  <2>2. ASSUME NEW n \in 0 .. k + 1 PROVE g[n] = F(g, n)
    <3>1. CASE n = k + 1
      BY <3>1
    <3>2. CASE n # k + 1
      <4>1. n \in 0 .. k /\ (n > 0 => n - 1 \in 0 .. k)
        BY <3>2
      <4>2. f[n] = F(f, n)
        BY <2>1, <4>1
      <4> QED BY <3>2, <4>1, <4>2
    <3> QED BY <3>1, <3>2
  <2>3. g = [n \in 0 .. k + 1 |-> F(g, n)]
    BY <2>2
  <2> HIDE DEF g
  <2> QED BY <2>3
<1>3. \E f : f = [n \in 0 .. MaxDepth |-> F(f, n)]
  <2>1. S = Nat
    <3>1. S \in SUBSET Nat
      OBVIOUS
    <3> HIDE DEF S
    <3> QED BY <3>1, <1>1, <1>2, Induction
  <2> QED BY <2>1, FieldAssumption
<1>4. Spots(source) = [n \in 0 .. MaxDepth |-> F(Spots(source), n)]
  BY <1>3 DEF Spots
<1>5. \A n \in 0 .. MaxDepth : Spots(source)[n] = F(Spots(source), n)
  BY <1>4
<1> QED BY <1>5, FieldAssumption

LEMMA AlongDefined ==
  ASSUME NEW path, Len(path) \in Nat, NEW source
  PROVE  /\ Along(path, source)[0] = source
         /\ \A i \in 1 .. Len(path) :
              Along(path, source)[i] = Into(Along(path, source)[i - 1], path[i])
<1> DEFINE F(f, i) == IF i = 0 THEN source ELSE Into(f[i - 1], path[i])
           S == {k \in Nat : \E f : f = [i \in 0 .. k |-> F(f, i)]}
<1>1. 0 \in S
  <2> DEFINE f == [n \in 0 .. 0 |-> source]
  <2>1. f = [n \in 0 .. 0 |-> F(f, n)]
    OBVIOUS
  <2> QED BY <2>1
<1>2. ASSUME NEW k \in Nat, k \in S PROVE k + 1 \in S
  <2>1. PICK f : f = [n \in 0 .. k |-> F(f, n)]
    BY <1>2
  <2> DEFINE g == [n \in 0 .. k + 1 |-> IF n = k + 1 THEN Into(f[k], path[k + 1]) ELSE f[n]]
  <2>2. ASSUME NEW n \in 0 .. k + 1 PROVE g[n] = F(g, n)
    <3>1. CASE n = k + 1
      BY <3>1
    <3>2. CASE n # k + 1
      <4>1. n \in 0 .. k /\ (n > 0 => n - 1 \in 0 .. k)
        BY <3>2
      <4>2. f[n] = F(f, n)
        BY <2>1, <4>1
      <4> QED BY <3>2, <4>1, <4>2
    <3> QED BY <3>1, <3>2
  <2>3. g = [n \in 0 .. k + 1 |-> F(g, n)]
    BY <2>2
  <2> HIDE DEF g
  <2> QED BY <2>3
<1>3. \E f : f = [i \in 0 .. Len(path) |-> F(f, i)]
  <2>1. S = Nat
    <3>1. S \in SUBSET Nat
      OBVIOUS
    <3> HIDE DEF S
    <3> QED BY <3>1, <1>1, <1>2, Induction
  <2> QED BY <2>1
<1>4. Along(path, source) = [i \in 0 .. Len(path) |-> F(Along(path, source), i)]
  BY <1>3 DEF Along
<1> QED BY <1>4

-----------------------------------------------------------------------------
\* Parts and Typed, field by field.
LEMMA PartsAre ==
  ASSUME NEW value, value.kind = "message", NEW part
  PROVE  part \in Parts(value) <=>
           \/ \E f \in DOMAIN value.fields :
                part = Part(value, f, NoSubscript, value.fields[f])
           \/ \E f \in Holding(value, "list") : \E i \in DOMAIN value.fields[f].items :
                part = Part(value, f, Index(i - 1), value.fields[f].items[i])
           \/ \E f \in Holding(value, "map") : \E k \in DOMAIN value.fields[f].entries :
                part = Part(value, f, Key(k), value.fields[f].entries[k])
           \/ \E o \in Oneofs[value.type] :
                part = [element |-> Element(0, o, NoSubscript), value |-> Nil]
<1> DEFINE Whole == {Part(value, f, NoSubscript, value.fields[f]) : f \in DOMAIN value.fields}
           Items(f) == {Part(value, f, Index(i - 1), value.fields[f].items[i]) :
                          i \in DOMAIN value.fields[f].items}
           Entries(f) == {Part(value, f, Key(k), value.fields[f].entries[k]) :
                            k \in DOMAIN value.fields[f].entries}
           Unset == {[element |-> Element(0, o, NoSubscript), value |-> Nil] :
                       o \in Oneofs[value.type]}
           AllItems == UNION {Items(f) : f \in Holding(value, "list")}
           AllEntries == UNION {Entries(f) : f \in Holding(value, "map")}
<1>1. Parts(value) = Whole \cup AllItems \cup AllEntries \cup Unset
  BY DEF Parts
<1>2. part \in Whole <=> \E f \in DOMAIN value.fields :
                           part = Part(value, f, NoSubscript, value.fields[f])
  OBVIOUS
<1>3. \A f : part \in Items(f) <=> \E i \in DOMAIN value.fields[f].items :
               part = Part(value, f, Index(i - 1), value.fields[f].items[i])
  OBVIOUS
<1>4. \A f : part \in Entries(f) <=> \E k \in DOMAIN value.fields[f].entries :
               part = Part(value, f, Key(k), value.fields[f].entries[k])
  OBVIOUS
<1>5. part \in Unset <=> \E o \in Oneofs[value.type] :
                           part = [element |-> Element(0, o, NoSubscript), value |-> Nil]
  OBVIOUS
<1> HIDE DEF Whole, Items, Entries, Unset
<1>6. part \in AllItems <=> \E f \in Holding(value, "list") : part \in Items(f)
  BY Zenon
<1>7. part \in AllEntries <=> \E f \in Holding(value, "map") : part \in Entries(f)
  BY Zenon
<1> HIDE DEF AllItems, AllEntries
<1> QED BY <1>1, <1>2, <1>3, <1>4, <1>5, <1>6, <1>7

LEMMA TypedField ==
  ASSUME NEW source, Typed(source), NEW f \in DOMAIN source.fields
  PROVE  LET value == source.fields[f]
             declared == Fields[source.type][f]
         IN  /\ source.type \in DOMAIN Fields
             /\ f \in DOMAIN Fields[source.type]
             /\ \/ declared.label = "optional" /\ Fits(value, declared.type)
                \/ /\ declared.label = "repeated" /\ value.kind = "list"
                   /\ \A i \in DOMAIN value.items :
                        i \in Nat /\ Fits(value.items[i], declared.type)
                \/ /\ declared.label = "map" /\ value.kind = "map"
                   /\ \A k \in DOMAIN value.entries : Fits(value.entries[k], declared.type)
<1> DEFINE value == source.fields[f]
           declared == Fields[source.type][f]
<1>1. /\ source.type \in DOMAIN Fields
      /\ f \in DOMAIN Fields[source.type]
      /\ declared.label \in {"optional", "repeated", "map"}
  BY FieldAssumption DEF Typed
<1>2. CASE declared.label = "optional"
  BY <1>1, <1>2 DEF Typed
<1>3. CASE declared.label = "repeated"
  BY <1>1, <1>3 DEF Typed
<1>4. CASE declared.label = "map"
  BY <1>1, <1>4 DEF Typed
<1> QED BY <1>1, <1>2, <1>3, <1>4

\* One element of a path leads to the part it was made up for,
LEMMA PartReached ==
  ASSUME NEW value, value.kind = "message", Typed(value), NEW part \in Parts(value)
  PROVE  Into(value, part.element) = part.value
<1> DEFINE T == value.type
           e == part.element
<1>0. T \in DOMAIN Fields /\ DOMAIN value.fields = DOMAIN Fields[T]
  BY DEF Typed
<1>1. ASSUME NEW f \in DOMAIN value.fields, e.field_number = Fields[T][f].number
      PROVE  Into(value, e) = Subscripted(value.fields[f], e.subscript)
  <2>1. FieldsOf(value, e) = {f}
    BY <1>0, <1>1, FieldAssumption DEF FieldsOf
  <2> QED BY <2>1 DEF Into
<1>2. ASSUME NEW f \in DOMAIN value.fields, part = Part(value, f, NoSubscript, value.fields[f])
      PROVE  Into(value, e) = part.value
  BY <1>1, <1>2 DEF Part, Element, NoSubscript, Subscripted
<1>3. ASSUME NEW f \in Holding(value, "list"), NEW i \in DOMAIN value.fields[f].items,
             part = Part(value, f, Index(i - 1), value.fields[f].items[i])
      PROVE  Into(value, e) = part.value
  <2>1. i \in Nat
    BY <1>0, TypedField DEF Holding, Fits
  <2> QED BY <1>1, <1>3, <2>1 DEF Part, Element, Index, Subscripted, Holding
<1>4. ASSUME NEW f \in Holding(value, "map"), NEW k \in DOMAIN value.fields[f].entries,
             part = Part(value, f, Key(k), value.fields[f].entries[k])
      PROVE  Into(value, e) = part.value
  BY <1>1, <1>4 DEF Part, Element, Key, Subscripted, Holding
<1>5. ASSUME NEW o \in Oneofs[T],
             part = [element |-> Element(0, o, NoSubscript), value |-> Nil]
      PROVE  Into(value, e) = part.value
  <2>1. FieldsOf(value, e) = {}
    BY <1>0, <1>5, FieldAssumption DEF FieldsOf, Element
  <2> QED BY <1>5, <2>1 DEF Into
<1> QED BY <1>2, <1>3, <1>4, <1>5, PartsAre

SameType(v, w) == v.kind = "message" /\ w.kind = "message" => v.type = w.type

\* and in another value of that type to the same part of it, if there is one.
LEMMA PartElsewhere ==
  ASSUME NEW value, value.kind = "message" => Typed(value),
         NEW other, other.kind = "message" => Typed(other),
         SameType(value, other), NEW part \in Parts(other)
  PROVE  \/ \E p \in Parts(value) : p.element = part.element /\ SameType(p.value, part.value)
         \/ Into(value, part.element) = Nil
<1> DEFINE T == value.type
           e == part.element
<1> SUFFICES ASSUME value.kind = "message"
             PROVE  \/ \E p \in Parts(value) : p.element = e /\ SameType(p.value, part.value)
                    \/ Into(value, e) = Nil
  BY DEF Into, FieldsOf
<1>0. /\ Typed(value) /\ Typed(other) /\ other.type = T /\ other.kind = "message"
      /\ T \in DOMAIN Fields /\ DOMAIN value.fields = DOMAIN Fields[T]
      /\ DOMAIN other.fields = DOMAIN Fields[T]
  BY DEF Typed, SameType, Parts
<1>1. ASSUME NEW f \in DOMAIN value.fields, e.field_number = Fields[T][f].number
      PROVE  Into(value, e) = Subscripted(value.fields[f], e.subscript)
  <2>1. FieldsOf(value, e) = {f}
    BY <1>0, <1>1, FieldAssumption DEF FieldsOf
  <2> QED BY <2>1 DEF Into
<1>2. ASSUME NEW f \in DOMAIN other.fields, part = Part(other, f, NoSubscript, other.fields[f])
      PROVE  \E p \in Parts(value) : p.element = e /\ SameType(p.value, part.value)
  <2>1. Part(value, f, NoSubscript, value.fields[f]) \in Parts(value)
    BY <1>0, PartsAre
  <2>2. SameType(value.fields[f], other.fields[f])
    BY <1>0, TypedField DEF Fits, SameType
  <2> QED BY <1>0, <1>2, <2>1, <2>2 DEF Part
<1>3. ASSUME NEW f \in Holding(other, "list"), NEW i \in DOMAIN other.fields[f].items,
             part = Part(other, f, Index(i - 1), other.fields[f].items[i])
      PROVE  \/ \E p \in Parts(value) : p.element = e /\ SameType(p.value, part.value)
             \/ Into(value, e) = Nil
  <2>1. /\ Fields[T][f].label = "repeated"
        /\ f \in DOMAIN value.fields /\ f \in DOMAIN other.fields
    BY <1>0, TypedField DEF Holding, Fits
  <2>2. i \in Nat /\ value.fields[f].kind = "list"
    BY <1>0, <2>1, TypedField
  <2>3. CASE i \in DOMAIN value.fields[f].items
    <3>1. Part(value, f, Index(i - 1), value.fields[f].items[i]) \in Parts(value)
      BY <2>1, <2>2, <2>3, PartsAre DEF Holding
    <3>2. SameType(value.fields[f].items[i], other.fields[f].items[i])
      BY <1>0, <2>1, <2>3, TypedField DEF Fits, SameType
    <3> QED BY <1>0, <1>3, <3>1, <3>2 DEF Part
  <2>4. CASE i \notin DOMAIN value.fields[f].items
    BY <1>0, <1>1, <1>3, <2>1, <2>2, <2>4 DEF Part, Element, Index, Subscripted
  <2> QED BY <2>3, <2>4
<1>4. ASSUME NEW f \in Holding(other, "map"), NEW k \in DOMAIN other.fields[f].entries,
             part = Part(other, f, Key(k), other.fields[f].entries[k])
      PROVE  \/ \E p \in Parts(value) : p.element = e /\ SameType(p.value, part.value)
             \/ Into(value, e) = Nil
  <2>1. /\ Fields[T][f].label = "map"
        /\ f \in DOMAIN value.fields /\ f \in DOMAIN other.fields
    BY <1>0, TypedField DEF Holding, Fits
  <2>2. value.fields[f].kind = "map"
    BY <1>0, <2>1, TypedField
  <2>3. CASE k \in DOMAIN value.fields[f].entries
    <3>1. Part(value, f, Key(k), value.fields[f].entries[k]) \in Parts(value)
      BY <2>1, <2>2, <2>3, PartsAre DEF Holding
    <3>2. SameType(value.fields[f].entries[k], other.fields[f].entries[k])
      BY <1>0, <2>1, <2>3, TypedField DEF Fits, SameType
    <3> QED BY <1>0, <1>4, <3>1, <3>2 DEF Part
  <2>4. CASE k \notin DOMAIN value.fields[f].entries
    BY <1>0, <1>1, <1>4, <2>1, <2>2, <2>4 DEF Part, Element, Key, Subscripted
  <2> QED BY <2>3, <2>4
<1>5. ASSUME NEW o \in Oneofs[T],
             part = [element |-> Element(0, o, NoSubscript), value |-> Nil]
      PROVE  \E p \in Parts(value) : p.element = e /\ SameType(p.value, part.value)
  BY <1>0, <1>5, PartsAre DEF SameType, Nil
<1> QED BY <1>0, <1>2, <1>3, <1>4, <1>5, PartsAre

-----------------------------------------------------------------------------
\* A spot is one part further than a spot one shorter.
LEMMA SpotSteps ==
  ASSUME NEW source, NEW n \in 1 .. MaxDepth, NEW s \in Spots(source)[n]
  PROVE  \E q \in Spots(source)[n - 1] : \E part \in Parts(q.value) : s = Onward(q, part)
<1>1. Spots(source)[n] = Below(Spots(source)[n - 1])
  BY SpotsDefined
<1> DEFINE Onto(q) == {Onward(q, p) : p \in Parts(q.value)}
<1>2. Below(Spots(source)[n - 1]) = UNION {Onto(q) : q \in Spots(source)[n - 1]}
  BY DEF Below
<1>3. PICK q \in Spots(source)[n - 1] : s \in Onto(q)
  <2> HIDE DEF Onto
  <2> QED BY <1>1, <1>2
<1> QED BY <1>3

LEMMA SpotsStep ==
  ASSUME NEW source, NEW n \in 1 .. MaxDepth, NEW q \in Spots(source)[n - 1],
         NEW part \in Parts(q.value)
  PROVE  Onward(q, part) \in Spots(source)[n]
<1>1. Spots(source)[n] = Below(Spots(source)[n - 1])
  BY SpotsDefined
<1> DEFINE Onto(r) == {Onward(r, p) : p \in Parts(r.value)}
<1>2. Below(Spots(source)[n - 1]) = UNION {Onto(r) : r \in Spots(source)[n - 1]}
  BY DEF Below
<1>3. Onward(q, part) \in Onto(q)
  OBVIOUS
<1> HIDE DEF Onto
<1> QED BY <1>1, <1>2, <1>3

IsPath(path, n) == Len(path) = n /\ \E S : path \in Seq(S)

LEMMA Longer ==
  ASSUME NEW q, NEW part, NEW n \in Nat, IsPath(q.path, n)
  PROVE  /\ IsPath(Onward(q, part).path, n + 1)
         /\ Onward(q, part).path[n + 1] = part.element
         /\ \A i \in 1 .. n : Onward(q, part).path[i] = q.path[i]
<1> DEFINE e == part.element
<1>1. PICK S : q.path \in Seq(S)
  BY DEF IsPath
<1>2. q.path \in Seq(S \cup {e}) /\ Len(q.path) = n
  BY <1>1 DEF IsPath
<1>3. /\ Append(q.path, e) \in Seq(S \cup {e})
      /\ Len(Append(q.path, e)) = n + 1
      /\ Append(q.path, e)[n + 1] = e
      /\ \A i \in 1 .. n : Append(q.path, e)[i] = q.path[i]
  BY <1>2
<1> QED BY <1>3 DEF Onward, IsPath

LEMMA SpotPaths ==
  ASSUME NEW source, NEW n \in 0 .. MaxDepth, NEW s \in Spots(source)[n]
  PROVE  IsPath(s.path, n)
<1> DEFINE S == {k \in Nat : k <= MaxDepth => \A q \in Spots(source)[k] : IsPath(q.path, k)}
<1>1. 0 \in S
  <2>1. IsPath(<<>>, 0)
    <3>1. <<>> \in Seq({}) /\ Len(<<>>) = 0
      OBVIOUS
    <3> QED BY <3>1 DEF IsPath
  <2> QED BY <2>1, SpotsDefined
<1>2. ASSUME NEW k \in Nat, k \in S PROVE k + 1 \in S
  <2> SUFFICES ASSUME k + 1 <= MaxDepth, NEW q \in Spots(source)[k + 1]
               PROVE  IsPath(q.path, k + 1)
    OBVIOUS
  <2>1. k + 1 \in 1 .. MaxDepth /\ (k + 1) - 1 = k
    BY FieldAssumption
  <2>2. PICK r \in Spots(source)[k] : \E part \in Parts(r.value) : q = Onward(r, part)
    BY <2>1, SpotSteps
  <2>3. IsPath(r.path, k)
    BY <1>2, <2>1, <2>2, FieldAssumption
  <2> QED BY <2>2, <2>3, Longer
<1>3. S = Nat
  <2>1. S \in SUBSET Nat
    OBVIOUS
  <2> HIDE DEF S
  <2> QED BY <1>1, <1>2, <2>1, Induction
<1> QED BY <1>3, FieldAssumption

Begins(path, s, n) == n <= Len(path) /\ \A i \in 1 .. n : path[i] = s.path[i]

\* The walk along a path of the message arrives where the path was made up for.
LEMMA SpotReached ==
  ASSUME NEW source, WellTyped(source), NEW path, Len(path) \in Nat,
         NEW n \in 0 .. MaxDepth, NEW s \in Spots(source)[n], Begins(path, s, n)
  PROVE  Along(path, source)[n] = s.value
<1> DEFINE S == {k \in Nat : k <= MaxDepth =>
                  \A q \in Spots(source)[k] :
                    Begins(path, q, k) => Along(path, source)[k] = q.value}
<1>1. 0 \in S
  BY SpotsDefined, AlongDefined
<1>2. ASSUME NEW k \in Nat, k \in S PROVE k + 1 \in S
  <2> SUFFICES ASSUME k + 1 <= MaxDepth, NEW q \in Spots(source)[k + 1],
                      Begins(path, q, k + 1)
               PROVE  Along(path, source)[k + 1] = q.value
    OBVIOUS
  <2>1. k + 1 \in 1 .. MaxDepth /\ (k + 1) - 1 = k /\ k \in 0 .. MaxDepth
    BY FieldAssumption
  <2>2. PICK r \in Spots(source)[k] : \E part \in Parts(r.value) : q = Onward(r, part)
    BY <2>1, SpotSteps
  <2>3. PICK part \in Parts(r.value) : q = Onward(r, part)
    BY <2>2
  <2>4. /\ q.path[k + 1] = part.element /\ q.value = part.value
        /\ \A i \in 1 .. k : q.path[i] = r.path[i]
    <3>1. IsPath(r.path, k)
      BY <2>1, SpotPaths
    <3>2. q.value = part.value
      BY <2>3 DEF Onward
    <3> QED BY <2>3, <3>1, <3>2, Longer
  <2>5. Begins(path, r, k) /\ path[k + 1] = part.element /\ k + 1 \in 1 .. Len(path)
    BY <2>4 DEF Begins
  <2>6. Along(path, source)[k] = r.value
    BY <1>2, <2>1, <2>5
  <2>7. Along(path, source)[k + 1] = Into(r.value, part.element)
    BY <2>1, <2>5, <2>6, AlongDefined
  <2>8. r.value.kind = "message" /\ Typed(r.value)
    BY <2>1 DEF Parts, WellTyped
  <2> QED BY <2>4, <2>7, <2>8, PartReached
<1>3. S = Nat
  <2>1. S \in SUBSET Nat
    OBVIOUS
  <2> HIDE DEF S
  <2> QED BY <1>1, <1>2, <2>1, Induction
<1> QED BY <1>3, FieldAssumption

\* Along a path of another message of its type it arrives at what the path leads to
\* there, or at nil.
LEMMA SpotElsewhere ==
  ASSUME NEW source, WellTyped(source), NEW other, WellTyped(other),
         source.type = other.type, NEW path, Len(path) \in Nat,
         NEW n \in 0 .. MaxDepth, NEW s \in Spots(other)[n], Begins(path, s, n)
  PROVE  \/ \E q \in Spots(source)[n] : q.path = s.path /\ SameType(q.value, s.value)
         \/ Along(path, source)[n] = Nil
<1> DEFINE Found(k, r) ==
             \E q \in Spots(source)[k] : q.path = r.path /\ SameType(q.value, r.value)
           S == {k \in Nat : k <= MaxDepth =>
                  \A r \in Spots(other)[k] :
                    Begins(path, r, k) => Found(k, r) \/ Along(path, source)[k] = Nil}
<1>1. 0 \in S
  <2>1. ASSUME NEW r \in Spots(other)[0] PROVE Found(0, r)
    <3>1. r = [path |-> <<>>, value |-> other]
      BY SpotsDefined
    <3>2. [path |-> <<>>, value |-> source] \in Spots(source)[0]
      BY SpotsDefined
    <3>3. SameType(source, other)
      BY DEF SameType
    <3> QED BY <3>1, <3>2, <3>3
  <2> QED BY <2>1
<1>2. ASSUME NEW k \in Nat, k \in S PROVE k + 1 \in S
  <2> SUFFICES ASSUME k + 1 <= MaxDepth, NEW r \in Spots(other)[k + 1],
                      Begins(path, r, k + 1)
               PROVE  Found(k + 1, r) \/ Along(path, source)[k + 1] = Nil
    OBVIOUS
  <2>1. k + 1 \in 1 .. MaxDepth /\ (k + 1) - 1 = k /\ k \in 0 .. MaxDepth
    BY FieldAssumption
  <2>2. PICK u \in Spots(other)[k] : \E part \in Parts(u.value) : r = Onward(u, part)
    BY <2>1, SpotSteps
  <2>3. PICK part \in Parts(u.value) : r = Onward(u, part)
    BY <2>2
  <2>4. /\ r.path[k + 1] = part.element /\ r.value = part.value
        /\ \A i \in 1 .. k : r.path[i] = u.path[i]
    <3>1. IsPath(u.path, k)
      BY <2>1, SpotPaths
    <3>2. r.value = part.value
      BY <2>3 DEF Onward
    <3> QED BY <2>3, <3>1, <3>2, Longer
  <2>5. Begins(path, u, k) /\ path[k + 1] = part.element /\ k + 1 \in 1 .. Len(path)
    BY <2>4 DEF Begins
  <2>6. Along(path, source)[k + 1] = Into(Along(path, source)[k], part.element)
    BY <2>1, <2>5, AlongDefined
  <2>7. CASE Along(path, source)[k] = Nil
    BY <2>6, <2>7 DEF Into, FieldsOf, Nil
  <2>8. CASE Found(k, u)
    <3>1. PICK q \in Spots(source)[k] : q.path = u.path /\ SameType(q.value, u.value)
      BY <2>8
    <3>2. Along(path, source)[k] = q.value
      <4>1. Begins(path, q, k)
        BY <2>5, <3>1 DEF Begins
      <4> QED BY <2>1, <4>1, SpotReached
    <3>3. /\ q.value.kind = "message" => Typed(q.value)
          /\ u.value.kind = "message" => Typed(u.value)
      BY <2>1 DEF WellTyped
    <3>4. CASE Into(q.value, part.element) = Nil
      BY <2>6, <3>2, <3>4
    <3>5. CASE \E p \in Parts(q.value) :
                 p.element = part.element /\ SameType(p.value, part.value)
      <4>1. PICK p \in Parts(q.value) :
                   p.element = part.element /\ SameType(p.value, part.value)
        BY <3>5
      <4>2. Onward(q, p) \in Spots(source)[k + 1]
        BY <2>1, SpotsStep
      <4>3. Onward(q, p).path = r.path /\ SameType(Onward(q, p).value, r.value)
        BY <2>3, <3>1, <4>1 DEF Onward
      <4> QED BY <4>2, <4>3
    <3> QED BY <3>1, <3>3, <3>4, <3>5, PartElsewhere
  <2> QED BY <1>2, <2>1, <2>5, <2>7, <2>8
<1>3. S = Nat
  <2>1. S \in SUBSET Nat
    OBVIOUS
  <2> HIDE DEF S
  <2> QED BY <1>1, <1>2, <2>1, Induction
<1> QED BY <1>3, FieldAssumption

-----------------------------------------------------------------------------
LEMMA ViolableAre ==
  ASSUME NEW source, NEW place
  PROVE  place \in Violable(source) <=>
           \/ \E n \in 1 .. MaxDepth : \E s \in Spots(source)[n] : place = Place(s, FALSE)
           \/ \E n \in 0 .. MaxDepth - 1 : \E s \in Spots(source)[n] :
                \E k \in Keys(s.value) : place = Place(Onward(s, k), TRUE)
           \/ place = [field |-> NoField, for_key |-> FALSE, value |-> Nil]
<1> DEFINE Within == UNION {Spots(source)[n] : n \in 1 .. MaxDepth}
           Inner == UNION {Spots(source)[n] : n \in 0 .. MaxDepth - 1}
           OfKeys(s) == {Place(Onward(s, k), TRUE) : k \in Keys(s.value)}
           Places == {Place(s, FALSE) : s \in Within}
           KeyPlaces == UNION {OfKeys(s) : s \in Inner}
<1>1. Violable(source) =
        Places \cup KeyPlaces \cup {[field |-> NoField, for_key |-> FALSE, value |-> Nil]}
  BY DEF Violable
<1>2. \A s : s \in Within <=> \E n \in 1 .. MaxDepth : s \in Spots(source)[n]
  OBVIOUS
<1>3. \A s : s \in Inner <=> \E n \in 0 .. MaxDepth - 1 : s \in Spots(source)[n]
  OBVIOUS
<1>4. place \in Places <=> \E s \in Within : place = Place(s, FALSE)
  OBVIOUS
<1>5. \A s : place \in OfKeys(s) <=>
               \E k \in Keys(s.value) : place = Place(Onward(s, k), TRUE)
  OBVIOUS
<1> HIDE DEF Within, Inner, OfKeys, Places
<1>6. place \in KeyPlaces <=> \E s \in Inner : place \in OfKeys(s)
  BY Zenon
<1> HIDE DEF KeyPlaces
<1> QED BY <1>1, <1>2, <1>3, <1>4, <1>5, <1>6

LEMMA KeysAre ==
  ASSUME NEW value, NEW part
  PROVE  part \in Keys(value) <=>
           /\ value.kind = "message"
           /\ \E f \in Holding(value, "map") : \E k \in DOMAIN value.fields[f].entries :
                part = Part(value, f, Key(k), Scalar(k))
<1> DEFINE Of(f) == {Part(value, f, Key(k), Scalar(k)) : k \in DOMAIN value.fields[f].entries}
           All == UNION {Of(f) : f \in Holding(value, "map")}
<1>1. value.kind = "message" => Keys(value) = All
  BY DEF Keys
<1>2. value.kind # "message" => Keys(value) = {}
  BY DEF Keys
<1>3. \A f : part \in Of(f) <=> \E k \in DOMAIN value.fields[f].entries :
                                  part = Part(value, f, Key(k), Scalar(k))
  OBVIOUS
<1> HIDE DEF Of
<1>4. part \in All <=> \E f \in Holding(value, "map") : part \in Of(f)
  BY Zenon
<1> HIDE DEF All
<1> QED BY <1>1, <1>2, <1>3, <1>4

\* A path with an element the engine made up is a path.
LEMMA PathIsField ==
  ASSUME NEW path, NEW n \in Nat \ {0}, IsPath(path, n),
         NEW number, NEW name, NEW subscript, path[n] = Element(number, name, subscript)
  PROVE  path # NoField
<1>1. ASSUME path = NoField PROVE FALSE
  <2>1. Len(NoField) = 1 /\ NoField[1] = [by |-> "no field"]
    BY DEF NoField
  <2>2. [by |-> "no field"] = Element(number, name, subscript)
    BY <1>1, <2>1 DEF IsPath
  <2>3. DOMAIN [by |-> "no field"] = DOMAIN Element(number, name, subscript)
    BY <2>2
  <2>4. "field_name" \in DOMAIN Element(number, name, subscript)
    BY DEF Element
  <2>5. "field_name" \notin DOMAIN [by |-> "no field"]
    OBVIOUS
  <2> QED BY <2>3, <2>4, <2>5
<1> QED BY <1>1

LEMMA SpotIsField ==
  ASSUME NEW source, NEW n \in 1 .. MaxDepth, NEW s \in Spots(source)[n]
  PROVE  IsPath(s.path, n) /\ s.path # NoField
<1>1. PICK q \in Spots(source)[n - 1] : \E part \in Parts(q.value) : s = Onward(q, part)
  BY SpotSteps
<1>2. PICK part \in Parts(q.value) : s = Onward(q, part)
  BY <1>1
<1>3. IsPath(s.path, n) /\ s.path[n] = part.element
  BY <1>2, FieldAssumption, SpotPaths, Longer
<1>4. q.value.kind = "message"
  BY DEF Parts
<1>5. \E number, name, subscript : part.element = Element(number, name, subscript)
  BY <1>4, PartsAre DEF Part
<1> QED BY <1>3, <1>5, PathIsField

LEMMA KeyIsField ==
  ASSUME NEW source, NEW n \in 0 .. MaxDepth - 1, NEW s \in Spots(source)[n],
         NEW k \in Keys(s.value)
  PROVE  LET path == Onward(s, k).path
         IN  /\ IsPath(path, n + 1) /\ path # NoField /\ Begins(path, s, n)
             /\ path[n + 1] = k.element
             /\ k.element.subscript.by # "none"
             /\ k.value = Scalar(k.element.subscript.at)
<1> DEFINE path == Onward(s, k).path
<1>0. n \in Nat /\ n \in 0 .. MaxDepth
  BY FieldAssumption
<1>1. /\ IsPath(path, n + 1) /\ path[n + 1] = k.element
      /\ \A i \in 1 .. n : path[i] = s.path[i]
  BY <1>0, SpotPaths, Longer
<1>2. PICK f, key : k = Part(s.value, f, Key(key), Scalar(key))
  BY KeysAre
<1>3. path # NoField
  BY <1>0, <1>1, <1>2, PathIsField DEF Part
<1>4. k.element.subscript.by # "none" /\ k.value = Scalar(k.element.subscript.at)
  BY <1>2 DEF Part, Element, Key
<1>5. Begins(path, s, n)
  BY <1>0, <1>1 DEF Begins, IsPath
<1> QED BY <1>1, <1>3, <1>4, <1>5

\* The element of a map's entry means the field.
LEMMA KeyOfField ==
  ASSUME NEW value, value.kind = "message" => Typed(value), NEW k \in Keys(value)
  PROVE  FieldsOf(value, k.element) # {}
<1>1. PICK f \in Holding(value, "map") : \E key : k = Part(value, f, Key(key), Scalar(key))
  BY KeysAre
<1>2. value.kind = "message" /\ f \in DOMAIN value.fields
  BY <1>1, KeysAre DEF Holding
<1>3. k.element.field_number = Fields[value.type][f].number
  BY <1>1 DEF Part, Element
<1> QED BY <1>2, <1>3 DEF FieldsOf

\* The value of a violation of the message that it is asked of.
THEOREM FieldValueIsOffending ==
  ASSUME NEW source, WellTyped(source), NEW place \in Violable(source)
  PROVE  FieldValue(AsViolation(place), source) = place.value
<1>1. CASE \E n \in 1 .. MaxDepth : \E s \in Spots(source)[n] : place = Place(s, FALSE)
  <2>1. PICK n \in 1 .. MaxDepth : \E s \in Spots(source)[n] : place = Place(s, FALSE)
    BY <1>1
  <2>2. PICK s \in Spots(source)[n] : place = Place(s, FALSE)
    BY <2>1
  <2>3. Len(s.path) = n /\ s.path # NoField /\ n \in 0 .. MaxDepth /\ n \in Nat
    BY SpotIsField, FieldAssumption DEF IsPath
  <2>4. Along(s.path, source)[n] = s.value
    BY <2>3, SpotReached DEF Begins
  <2> QED BY <2>2, <2>3, <2>4 DEF FieldValue, AsViolation, Place
<1>2. CASE \E n \in 0 .. MaxDepth - 1 : \E s \in Spots(source)[n] :
             \E k \in Keys(s.value) : place = Place(Onward(s, k), TRUE)
  <2>1. PICK n \in 0 .. MaxDepth - 1 : \E s \in Spots(source)[n] :
               \E k \in Keys(s.value) : place = Place(Onward(s, k), TRUE)
    BY <1>2
  <2>2. PICK s \in Spots(source)[n] : \E k \in Keys(s.value) : place = Place(Onward(s, k), TRUE)
    BY <2>1
  <2>3. PICK k \in Keys(s.value) : place = Place(Onward(s, k), TRUE)
    BY <2>2
  <2> DEFINE path == Onward(s, k).path
  <2>4. /\ Len(path) = n + 1 /\ path # NoField /\ Begins(path, s, n)
        /\ path[n + 1] = k.element
        /\ k.element.subscript.by # "none"
        /\ k.value = Scalar(k.element.subscript.at)
        /\ n \in 0 .. MaxDepth /\ n \in Nat
    BY KeyIsField, FieldAssumption DEF IsPath
  <2>5. Along(path, source)[n] = s.value
    BY <2>4, SpotReached
  <2>6. FieldsOf(s.value, k.element) # {}
    BY <2>4, KeyOfField DEF WellTyped
  <2>7. (n + 1) - 1 = n /\ place.value = k.value /\ AsViolation(place).field = path
        /\ AsViolation(place).for_key
    BY <2>3, <2>4 DEF Place, Onward, AsViolation
  <2> HIDE DEF path
  <2> QED BY <2>4, <2>5, <2>6, <2>7 DEF FieldValue
<1>3. CASE place = [field |-> NoField, for_key |-> FALSE, value |-> Nil]
  BY <1>3 DEF FieldValue, AsViolation
<1> QED BY <1>1, <1>2, <1>3, ViolableAre

\* The value of a violation of another message: what its path means there, nil if it
\* leads nowhere, or the map key that it names.
THEOREM FieldValueIsAtPath ==
  ASSUME NEW source, WellTyped(source), NEW other, WellTyped(other),
         source.type = other.type, NEW place \in Violable(other)
  PROVE  LET violation == AsViolation(place)
             now == FieldValue(violation, source)
         IN  \/ \E q \in Violable(source) : AsViolation(q) = violation /\ now = q.value
             \/ now = Nil /\ ~ \E q \in Violable(source) : AsViolation(q) = violation
             \/ violation.for_key /\ now = place.value
<1> DEFINE violation == AsViolation(place)
           now == FieldValue(violation, source)
<1>1. ASSUME NEW q \in Violable(source), AsViolation(q) = violation
      PROVE  now = q.value
  BY <1>1, FieldValueIsOffending
<1> SUFFICES ASSUME ~ \E q \in Violable(source) : AsViolation(q) = violation
             PROVE  now = Nil \/ (violation.for_key /\ now = place.value)
  BY <1>1
<1>2. CASE \E n \in 1 .. MaxDepth : \E s \in Spots(other)[n] : place = Place(s, FALSE)
  <2>1. PICK n \in 1 .. MaxDepth : \E s \in Spots(other)[n] : place = Place(s, FALSE)
    BY <1>2
  <2>2. PICK s \in Spots(other)[n] : place = Place(s, FALSE)
    BY <2>1
  <2>3. /\ Len(s.path) = n /\ s.path # NoField /\ n \in 0 .. MaxDepth /\ n \in Nat
        /\ Begins(s.path, s, n)
    BY SpotIsField, FieldAssumption DEF IsPath, Begins
  <2>4. ~ \E q \in Spots(source)[n] : q.path = s.path
    <3>1. ASSUME NEW q \in Spots(source)[n], q.path = s.path PROVE FALSE
      <4>1. Place(q, FALSE) \in Violable(source)
        BY ViolableAre
      <4>2. AsViolation(Place(q, FALSE)) = violation
        BY <2>2, <3>1 DEF AsViolation, Place
      <4> QED BY <4>1, <4>2
    <3> QED BY <3>1
  <2>5. Along(s.path, source)[n] = Nil
    BY <2>3, <2>4, SpotElsewhere
  <2> QED BY <2>2, <2>3, <2>5 DEF FieldValue, AsViolation, Place
<1>3. CASE \E n \in 0 .. MaxDepth - 1 : \E s \in Spots(other)[n] :
             \E k \in Keys(s.value) : place = Place(Onward(s, k), TRUE)
  <2>1. PICK n \in 0 .. MaxDepth - 1 : \E s \in Spots(other)[n] :
               \E k \in Keys(s.value) : place = Place(Onward(s, k), TRUE)
    BY <1>3
  <2>2. PICK s \in Spots(other)[n] : \E k \in Keys(s.value) : place = Place(Onward(s, k), TRUE)
    BY <2>1
  <2>3. PICK k \in Keys(s.value) : place = Place(Onward(s, k), TRUE)
    BY <2>2
  <2> DEFINE path == Onward(s, k).path
  <2>4. /\ Len(path) = n + 1 /\ path # NoField
        /\ path[n + 1] = k.element
        /\ k.element.subscript.by # "none"
        /\ k.value = Scalar(k.element.subscript.at)
        /\ (n + 1) - 1 = n
    BY KeyIsField, FieldAssumption DEF IsPath
  <2>5. place.value = k.value /\ violation.field = path /\ violation.for_key
    BY <2>3 DEF Place, Onward, AsViolation
  <2> HIDE DEF path, violation
  <2> QED BY <2>4, <2>5 DEF FieldValue
<1>4. CASE place = [field |-> NoField, for_key |-> FALSE, value |-> Nil]
  BY <1>4 DEF FieldValue, AsViolation
<1> HIDE DEF violation, now
<1> QED BY <1>2, <1>3, <1>4, ViolableAre

-----------------------------------------------------------------------------
(* Part 3: collect_violations.                                             *)

\* What is known of a caller: its message and what was found in it, how far the
\* finding has come, and that it is what the caller is given.
Follows(t) ==
  /\ found[t] # "none" => Decoded[found[t]] \in {AsViolation(p) : p \in Faults[sent[t]]}
  /\ verdict[t] \in Results /\ pc[t] \notin {"idle", "releasing", "shim"} =>
       found[t] = verdict[t]
  /\ pc[t] # "idle" => collected[t] = "none"
  /\ collected[t] # "none" => collected[t] = found[t]
  /\ t \notin touched => message = sent[t]

CInv ==
  /\ IInv
  /\ message \in Messages
  /\ sent \in [Callers -> Messages]
  /\ DOMAIN found = Callers
  /\ DOMAIN collected = Callers
  /\ \A t \in Callers : Follows(t)

\* A call from Ruby is a call of NativeCall.
LEMMA CollectSteps == CollectNext => [Next]_vars
<1> SUFFICES ASSUME CollectNext PROVE [Next]_vars
  OBVIOUS
<1>1. ASSUME NEW t \in Callers, Collect(t) \/ Evaluate(t) \/ Wrap(t) PROVE Next
  <2>1. t \in Threads
    BY CollectAssumption
  <2>2. CASE Collect(t)
    BY <2>1, <2>2 DEF Collect, Next
  <2>3. CASE Evaluate(t)
    <3>1. PICK v : Decide(t, v)
      BY <2>3 DEF Evaluate
    <3>2. v \in Verdicts(op[t])
      BY <3>1 DEF Decide
    <3> QED BY <2>1, <3>1, <3>2 DEF Next
  <2>4. CASE Wrap(t)
    BY <2>1, <2>4 DEF Wrap, Next, Step
  <2> QED BY <1>1, <2>2, <2>3, <2>4
<1>2. CASE Change
  BY <1>2 DEF Change
<1>3. CASE Elsewhere
  BY <1>3, CollectAssumption DEF Elsewhere, Next
<1> QED BY <1>1, <1>2, <1>3 DEF CollectNext

\* A step that leaves a caller alone, or takes its call on.
LEMMA RestFollows ==
  ASSUME CInv, NEW t \in Callers,
         UNCHANGED <<message, touched>>, sent'[t] = sent[t], found'[t] = found[t],
         collected'[t] = collected[t],
         pc'[t] # "idle" => pc[t] # "idle",
         \/ pc'[t] = pc[t] /\ verdict'[t] = verdict[t]
         \/ verdict'[t] \notin Results
         \/ pc'[t] \in {"idle", "releasing", "shim"}
         \/ pc[t] \notin {"idle", "releasing", "shim"} /\ verdict'[t] = verdict[t]
  PROVE  Follows(t)'
  BY DEF CInv, Follows

\* A step of another thread leaves a caller alone.
LEMMA OthersCalls ==
  ASSUME TypeOK, NEW t \in Threads, NEW u \in Threads \ {t},
         \/ New(t) \/ Step(t) \/ Interrupt(t)
         \/ \E o \in {"add_file", "compile", "validate"} : Call(t, o)
         \/ \E v : Decide(t, v)
  PROVE  pc'[u] = pc[u] /\ verdict'[u] = verdict[u]
<1> USE DEF TypeOK, Goto
<1>1. CASE New(t) \/ (\E o \in {"add_file", "compile", "validate"} : Call(t, o))
  BY <1>1 DEF New, Call
<1>2. CASE Interrupt(t) \/ DropBuffer(t)
  BY <1>2 DEF Interrupt, DropBuffer, Leave
<1>3. CASE \E v : Decide(t, v)
  BY <1>3 DEF Decide
<1>4. CASE ReleaseGVL(t) \/ SetError(t) \/ Serialize(t) \/ TakeError(t) \/ FreeError(t)
           \/ Succeed(t)
  BY <1>4 DEF ReleaseGVL, SetError, Serialize, TakeError, FreeError, Succeed
<1>5. CASE AllocateOutput(t)
  BY <1>5 DEF AllocateOutput
<1>6. CASE SerializeFails(t)
  BY <1>6 DEF SerializeFails
<1>7. CASE Deliver(t)
  BY <1>7 DEF Deliver, Leave
<1> QED BY <1>1, <1>2, <1>3, <1>4, <1>5, <1>6, <1>7 DEF Step

\* The rest of a caller's call keeps to what it is about.
LEMMA OwnCall ==
  ASSUME CInv, NEW t \in Callers, pc[t] # "delivered", Step(t) \/ Interrupt(t), UNCHANGED rubyVars
  PROVE  Follows(t)'
<1> USE CollectAssumption DEF Goto, rubyVars
<1>0. TypeOK /\ t \in Threads
  BY DEF CInv, IInv
<1>1. CASE Interrupt(t)
  <2>1. pc'[t] = "idle"
    BY <1>0, <1>1 DEF Interrupt, Leave, TypeOK
  <2> QED BY <2>1, RestFollows
<1>2. CASE ReleaseGVL(t)
  <2>1. pc[t] = "releasing" /\ pc'[t] = "shim"
    BY <1>0, <1>2 DEF ReleaseGVL, TypeOK
  <2> QED BY <2>1, RestFollows
<1>3. CASE SetError(t) \/ Serialize(t) \/ TakeError(t) \/ FreeError(t) \/ Succeed(t)
  <2>1. pc[t] \in {"failing", "serializing", "returned", "copied"} /\ verdict' = verdict
    BY <1>3 DEF SetError, Serialize, TakeError, FreeError, Succeed
  <2> QED BY <2>1, RestFollows
<1>4. CASE AllocateOutput(t)
  <2>1. /\ pc[t] = "writing"
        /\ verdict'[t] = verdict[t] \/ verdict'[t] = "out_of_memory"
    BY <1>0, <1>4 DEF AllocateOutput, TypeOK
  <2> QED BY <2>1, ResultAssumption, RestFollows DEF Failures, Evaluation
<1>5. CASE SerializeFails(t)
  <2>1. pc[t] = "serializing" /\ verdict'[t] = "unserializable"
    BY <1>0, <1>5 DEF SerializeFails, TypeOK
  <2> QED BY <2>1, ResultAssumption, RestFollows DEF Failures, Evaluation
<1>6. CASE Deliver(t)
  <2>1. /\ pc[t] = "result"
        /\ pc'[t] = "idle" \/ verdict'[t] = verdict[t]
    BY <1>0, <1>6 DEF Deliver, Leave, TypeOK
  <2> QED BY <2>1, RestFollows
<1>7. CASE DropBuffer(t)
  BY <1>7 DEF DropBuffer
<1> QED BY <1>1, <1>2, <1>3, <1>4, <1>5, <1>6, <1>7 DEF Step

LEMMA CollectKeeps == CInv /\ [CollectNext]_collectVars => CInv'
<1> SUFFICES ASSUME CInv, [CollectNext]_collectVars PROVE CInv'
  OBVIOUS
<1> USE CollectAssumption
<1>0. IInv /\ TypeOK
  BY DEF CInv, IInv
<1>1. IInv'
  BY <1>0, CollectSteps, NextKeeps DEF collectVars
<1>2. ASSUME NEW t \in Callers, Collect(t) PROVE CInv'
  <2>1. ASSUME NEW u \in Callers \ {t} PROVE Follows(u)'
    <3>1. pc'[u] = pc[u] /\ verdict'[u] = verdict[u]
      BY <1>0, <1>2, OthersCalls DEF Collect
    <3> QED BY <1>2, <3>1 DEF Collect, CInv, Follows
  <2>2. Follows(t)'
    <3>1. pc'[t] = "releasing"
      BY <1>0, <1>2 DEF Collect, Call, Goto, TypeOK
    <3>2. /\ found'[t] = "none" /\ collected'[t] = "none"
          /\ sent'[t] = message /\ message' = message
      BY <1>2 DEF Collect, CInv
    <3> QED BY <3>1, <3>2 DEF Follows
  <2> QED BY <1>1, <1>2, <2>1, <2>2 DEF Collect, CInv
<1>3. ASSUME NEW t \in Callers, Evaluate(t) PROVE CInv'
  <2>1. PICK v : Decide(t, v)
    BY <1>3 DEF Evaluate
  <2>2. ASSUME NEW u \in Callers \ {t} PROVE Follows(u)'
    <3>1. found'[u] = found[u] /\ UNCHANGED <<message, sent, collected, touched>>
      BY <1>3 DEF Evaluate, CInv
    <3>2. pc'[u] = pc[u] /\ verdict'[u] = verdict[u]
      BY <1>0, <2>1, OthersCalls
    <3> QED BY <3>1, <3>2, RestFollows
  <2>3. Follows(t)'
    <3>0. pc[t] # "idle" /\ UNCHANGED <<message, sent, collected, touched>>
      BY <1>3 DEF Evaluate
    <3>1. CASE \E r \in Results :
                 /\ Decoded[r] \in {AsViolation(p) : p \in Faults[sent[t]]}
                 /\ Decide(t, r)
                 /\ found' = [found EXCEPT ![t] = r]
      <4>1. PICK r \in Results :
                 /\ Decoded[r] \in {AsViolation(p) : p \in Faults[sent[t]]}
                 /\ Decide(t, r)
                 /\ found' = [found EXCEPT ![t] = r]
        BY <3>1
      <4>2. verdict'[t] = r /\ found'[t] = r
        BY <1>0, <4>1 DEF Decide, TypeOK, CInv
      <4> QED BY <3>0, <4>1, <4>2 DEF CInv, Follows
    <3>2. CASE \E w \in Verdicts("validate") \ Results : Decide(t, w) /\ UNCHANGED found
      <4>1. verdict'[t] \notin Results
        BY <1>0, <3>2 DEF Decide, TypeOK
      <4> QED BY <3>0, <3>2, <4>1, RestFollows
    <3> QED BY <1>3, <3>1, <3>2 DEF Evaluate
  <2> QED BY <1>1, <1>3, <2>2, <2>3 DEF Evaluate, CInv
<1>4. ASSUME NEW t \in Callers, Wrap(t) PROVE CInv'
  <2>1. ASSUME NEW u \in Callers \ {t} PROVE Follows(u)'
    <3>1. pc'[u] = pc[u] /\ verdict'[u] = verdict[u]
      BY <1>0, <1>4, OthersCalls DEF Wrap, Step
    <3>2. collected'[u] = collected[u] /\ UNCHANGED <<message, sent, found, touched>>
      BY <1>4 DEF Wrap, CInv
    <3> QED BY <3>1, <3>2, RestFollows
  <2>2. pc[t] = "delivered" /\ pc'[t] = "idle"
    BY <1>0, <1>4 DEF Wrap, DropBuffer, Leave, Goto, TypeOK
  <2>3. verdict[t] \in Results /\ answer[t].text = verdict[t]
    <3>1. InHand(t) /\ Told(t)
      BY <1>0 DEF IInv
    <3>2. verdict[t] \in Results /\ verdict[t] \notin Failures
      BY <2>2, <3>1, ResultAssumption DEF InHand
    <3> QED BY <2>2, <3>1, <3>2 DEF Told
  <2>4. collected'[t] = found[t]
    BY <1>4, <2>2, <2>3 DEF Wrap, CInv, Follows
  <2>5. Follows(t)'
    BY <1>4, <2>2, <2>4 DEF Wrap, CInv, Follows
  <2> QED BY <1>1, <1>4, <2>1, <2>5 DEF Wrap, CInv
<1>5. CASE Change
  BY <1>1, <1>5 DEF Change, vars, CInv, Follows
<1>6. CASE Elsewhere
  <2>1. UNCHANGED rubyVars
    BY <1>6 DEF Elsewhere
  <2>2. ASSUME NEW u \in Callers PROVE Follows(u)'
    <3>1. CASE pc'[u] = pc[u] /\ verdict'[u] = verdict[u]
      BY <2>1, <3>1, RestFollows DEF rubyVars
    <3>2. CASE pc[u] # "delivered" /\ (Step(u) \/ Interrupt(u))
      BY <2>1, <3>2, OwnCall
    <3>3. ASSUME NEW t \in Threads, t # u,
                 \/ New(t) \/ Step(t) \/ Interrupt(t)
                 \/ \E o \in {"add_file", "compile", "validate"} : Call(t, o)
                 \/ \E v : Decide(t, v)
          PROVE  Follows(u)'
      BY <1>0, <3>1, <3>3, OthersCalls
    <3>4. CASE \E e \in objects : Sweep(e)
      BY <3>1, <3>4 DEF Sweep
    <3> QED BY <1>6, <3>2, <3>3, <3>4 DEF Elsewhere
  <2> QED BY <1>1, <2>1, <2>2 DEF rubyVars, CInv
<1>7. CASE UNCHANGED collectVars
  BY <1>1, <1>7 DEF collectVars, rubyVars, vars, CInv, Follows
<1> QED BY <1>2, <1>3, <1>4, <1>5, <1>6, <1>7 DEF CollectNext

LEMMA CollectStarts == CollectInit => CInv
  BY InitHolds, CollectAssumption DEF CollectInit, Init, CInv, Follows

LEMMA CollectInvariance == CollectSpec => []CInv
  BY CollectStarts, CollectKeeps, PTL DEF CollectSpec

-----------------------------------------------------------------------------
(* The theorems.                                                           *)

\* Whatever Ruby does around them, native calls are those of NativeCall, so all that is
\* proved of these holds below collect_violations.
THEOREM CollectIsNative == CollectSpec => Spec
<1>1. CollectInit => Init
  BY DEF CollectInit
<1>2. [CollectNext]_collectVars => [Next]_vars
  BY CollectSteps DEF collectVars
<1> QED BY <1>1, <1>2, PTL DEF CollectSpec, Spec

\* As long as nobody has changed the message, field_value is the value that violated the
\* rule, whatever other calls do with the same memory.
THEOREM ValuesAreOffending == CollectSpec => []ValueIsOffending
<1>1. CInv => ValueIsOffending
  <2> SUFFICES ASSUME CInv, NEW t \in Callers, collected[t] # "none", t \notin touched
               PROVE  FieldValue(Decoded[collected[t]], Content[message])
                        \in ValuesAt(Decoded[found[t]], sent[t])
    BY DEF ValueIsOffending
  <2>1. /\ collected[t] = found[t] /\ message = sent[t] /\ message \in Messages
        /\ Decoded[found[t]] \in {AsViolation(p) : p \in Faults[message]}
    BY DEF CInv, Follows
  <2>2. PICK p \in Violable(Content[message]) : Decoded[found[t]] = AsViolation(p)
    BY <2>1 DEF Faults
  <2>3. FieldValue(AsViolation(p), Content[message]) = p.value
    BY <2>1, CollectAssumption, FieldValueIsOffending
  <2> QED BY <2>1, <2>2, <2>3 DEF ValuesAt, Faults
<1> QED BY <1>1, CollectInvariance, PTL

\* Of a message that has changed it is what the path means there, nil if it leads
\* nowhere, or the map's key.
THEOREM ValuesAreAtPath == CollectSpec => []ValueIsAtPath
<1>1. CInv => ValueIsAtPath
  <2> SUFFICES ASSUME CInv, NEW t \in Callers, collected[t] # "none"
               PROVE  LET v == Decoded[collected[t]]
                          now == FieldValue(v, Content[message])
                      IN  \/ now \in ValuesAt(v, message)
                          \/ ValuesAt(v, message) = {} /\ now = Nil
                          \/ v.for_key /\ now \in ValuesAt(v, sent[t])
    BY DEF ValueIsAtPath
  <2> DEFINE v == Decoded[collected[t]]
             now == FieldValue(v, Content[message])
  <2>1. /\ collected[t] = found[t] /\ message \in Messages /\ sent[t] \in Messages
        /\ Decoded[found[t]] \in {AsViolation(p) : p \in Faults[sent[t]]}
    BY DEF CInv, Follows
  <2>2. PICK p \in Violable(Content[sent[t]]) : v = AsViolation(p)
    BY <2>1 DEF Faults
  <2>3. \/ \E q \in Violable(Content[message]) : AsViolation(q) = v /\ now = q.value
        \/ now = Nil /\ ~ \E q \in Violable(Content[message]) : AsViolation(q) = v
        \/ v.for_key /\ now = p.value
    BY <2>1, <2>2, CollectAssumption, FieldValueIsAtPath
  <2>4. p.value \in ValuesAt(v, sent[t])
    BY <2>1, <2>2 DEF ValuesAt, Faults
  <2> DEFINE alike == {q \in Violable(Content[message]) : AsViolation(q) = v}
  <2>5. ValuesAt(v, message) = {q.value : q \in alike}
    BY <2>1 DEF ValuesAt, Faults
  <2> SUFFICES \/ now \in ValuesAt(v, message)
               \/ ValuesAt(v, message) = {} /\ now = Nil
               \/ v.for_key /\ now \in ValuesAt(v, sent[t])
    OBVIOUS
  <2> HIDE DEF v, now
  <2>6. CASE \E q \in Violable(Content[message]) : AsViolation(q) = v /\ now = q.value
    <3>1. \E q \in alike : now = q.value
      BY <2>6
    <3> HIDE DEF alike
    <3> QED BY <2>5, <3>1
  <2>7. CASE now = Nil /\ ~ \E q \in Violable(Content[message]) : AsViolation(q) = v
    <3>1. alike = {}
      BY <2>7
    <3>2. ValuesAt(v, message) = {}
      BY <2>5, <3>1
    <3> QED BY <2>7, <3>2
  <2>8. CASE v.for_key /\ now = p.value
    BY <2>4, <2>8
  <2> QED BY <2>3, <2>6, <2>7, <2>8
<1> QED BY <1>1, CollectInvariance, PTL
=============================================================================
