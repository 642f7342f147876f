----------------------------- MODULE NativeCall -----------------------------
(***************************************************************************)
(* Who owns what the shim allocates: the native engine, the error strings  *)
(* and the buffers that pv_engine_* hand to Rust, which reads them, makes  *)
(* its own of them and gives them back to pv_free.  malloc may fail at any *)
(* time, and a freed address may be another call's the next moment.        *)
(*                                                                         *)
(* Locks are left out: they keep no call out of the heap.  (NativeEngine   *)
(* has them, and what an engine makes of a call.)  message_type? allocates *)
(* nothing.  What Rust allocates for itself is left to its compiler.       *)
(***************************************************************************)
EXTENDS FiniteSets, Naturals

CONSTANTS
  Threads,
  Addrs, Null,        \* what malloc can return
  Results, Valid,     \* serialized Violations: those with some in, the empty one
  MaxLost             \* bound: interrupts take at most this many blocks away

ASSUME CallAssumption ==
  /\ Null \notin Addrs
  /\ Valid \notin Results
  /\ MaxLost \in Nat

Argument    == {"unparsable_file", "unbuildable_file", "unknown_type", "unparsable_payload"}
Compilation == {"bad_rules", "bad_rules_in_any"}
Evaluation  == {"rule_fails", "out_of_memory", "unserializable"}
Unexpected  == {"no_factory", "other_status"}

Failures == Argument \cup Compilation \cup Evaluation \cup Unexpected

ASSUME ResultAssumption == (Results \cup {Valid}) \cap (Failures \cup {"accepted"}) = {}

VARIABLES
  heap,      \* heap[a]: the block at a, Free if there is none
  objects,   \* the engines that Ruby objects own
  pc, op,    \* where t is in its call, and which
  engine,    \* engine[t]: the engine of t's call; of `new`, the one it makes
  verdict,   \* what became of t's call, in the shim
  code,      \* the status it returned with
  error, out, \* t's pointers to blocks of the shim
  answer,    \* what t's last call gave to Ruby
  lost       \* blocks of frames that a longjmp has jumped over

frame == <<error, out>>
vars == <<heap, objects, pc, op, engine, verdict, code, error, out, answer, lost>>

Free == [role |-> "free"]
Engine == [role |-> "engine"]
Error(t, text) == [role |-> "error", of |-> t, text |-> text]
Buffer(t, bytes) == [role |-> "buffer", of |-> t, bytes |-> bytes]
Raw == "uninitialized"

NoAnswer == [class |-> "none", text |-> "none"]

Init ==
  /\ heap = [a \in Addrs |-> Free]
  /\ objects = {}
  /\ pc = [t \in Threads |-> "idle"]
  /\ op = [t \in Threads |-> "none"]
  /\ engine = [t \in Threads |-> Null]
  /\ verdict = [t \in Threads |-> "none"]
  /\ code = [t \in Threads |-> "none"]
  /\ error = [t \in Threads |-> Null]
  /\ out = [t \in Threads |-> Null]
  /\ answer = [t \in Threads |-> NoAnswer]
  /\ lost = {}

Goto(t, place) == pc' = [pc EXCEPT ![t] = place]

Available == {a \in Addrs : heap[a] = Free}

\* free: nothing happens for NULL.
Without(p) == [a \in Addrs |-> IF a = p THEN Free ELSE heap[a]]

-----------------------------------------------------------------------------
(* The calls.                                                              *)

\* Engine::new; pv_engine_new allocates the engine before all else.
New(t) ==
  /\ pc[t] = "idle"
  /\ \E a \in Available :
       /\ heap' = [heap EXCEPT ![a] = Engine]
       /\ engine' = [engine EXCEPT ![t] = a]
  /\ op' = [op EXCEPT ![t] = "new"]
  /\ answer' = [answer EXCEPT ![t] = NoAnswer]
  /\ Goto(t, "shim")
  /\ UNCHANGED <<objects, verdict, code, frame, lost>>

\* add_file keeps the GVL, compile and validate go through without_gvl.
Call(t, o) ==
  /\ pc[t] = "idle"
  /\ \E e \in objects : engine' = [engine EXCEPT ![t] = e]
  /\ op' = [op EXCEPT ![t] = o]
  /\ answer' = [answer EXCEPT ![t] = NoAnswer]
  /\ Goto(t, IF o = "add_file" THEN "shim" ELSE "releasing")
  /\ UNCHANGED <<heap, objects, verdict, code, frame, lost>>

ReleaseGVL(t) ==
  /\ pc[t] = "releasing"
  /\ Goto(t, "shim")
  /\ UNCHANGED <<heap, objects, op, engine, verdict, code, frame, answer, lost>>

-----------------------------------------------------------------------------
(* The shim.                                                               *)

\* What may become of a call, before its result is written out.
Verdicts(o) ==
  CASE o = "new"      -> {"accepted", "no_factory"}
    [] o = "add_file" -> {"accepted", "unparsable_file", "unbuildable_file"}
    [] o = "compile"  -> {"accepted", "unknown_type", "bad_rules"}
    [] o = "validate" -> Results \cup {Valid, "unknown_type", "bad_rules",
         "unparsable_payload", "rule_fails", "bad_rules_in_any", "other_status"}
    [] OTHER          -> {}

Decide(t, v) ==
  /\ pc[t] = "shim" /\ v \in Verdicts(op[t])
  /\ verdict' = [verdict EXCEPT ![t] = v]
  /\ IF v = "accepted"
     THEN code' = [code EXCEPT ![t] = "PV_OK"] /\ Goto(t, "returned")
     ELSE UNCHANGED code /\ Goto(t, IF v \in Failures THEN "failing" ELSE "writing")
  /\ UNCHANGED <<heap, objects, op, engine, frame, answer, lost>>

ClassifyStatusByCodeName(s) ==
  CASE s = "InvalidArgument"    -> "PV_ERR_ARGUMENT"
    [] s = "FailedPrecondition" -> "PV_ERR_COMPILATION"
    [] OTHER                    -> "PV_ERR_UNEXPECTED"

ClassifyStatus(s) ==
  CASE s = "InvalidArgument"    -> "PV_ERR_RUNTIME"
    [] s = "FailedPrecondition" -> "PV_ERR_COMPILATION"
    [] OTHER                    -> "PV_ERR_UNEXPECTED"

Status(v) ==
  CASE v \in Argument         -> "PV_ERR_ARGUMENT"
    [] v = "bad_rules"        -> "PV_ERR_COMPILATION"
    [] v = "rule_fails"       -> ClassifyStatus("InvalidArgument")
    [] v = "bad_rules_in_any" -> ClassifyStatus("FailedPrecondition")
    [] v = "other_status"     -> ClassifyStatus("Unknown")
    [] v \in {"out_of_memory", "unserializable"} -> "PV_ERR_RUNTIME"
    [] v = "no_factory"       -> "none"

\* Mutation: the engine deleted whichever call failed.
SetErrorDeletesEngine(t) ==
  /\ pc[t] = "failing"
  /\ code' = [code EXCEPT ![t] = Status(verdict[t])]
  /\ \E p \in Available \cup {Null} :
       /\ error' = [error EXCEPT ![t] = p]
       /\ heap' = [a \in Addrs |->
                     IF a = p THEN Error(t, verdict[t])
                     ELSE IF a = engine[t] THEN Free ELSE heap[a]]
  /\ engine' = [engine EXCEPT ![t] = Null]
  /\ Goto(t, "returned")
  /\ UNCHANGED <<objects, op, verdict, out, answer, lost>>

\* SetError and the return; pv_engine_new's unique_ptr deletes the engine.
SetError(t) ==
  /\ pc[t] = "failing"
  /\ code' = [code EXCEPT ![t] = Status(verdict[t])]
  /\ \E p \in Available \cup {Null} :
       /\ error' = [error EXCEPT ![t] = p]
       /\ heap' = [a \in Addrs |->
                     IF a = p THEN Error(t, verdict[t])
                     ELSE IF op[t] = "new" /\ a = engine[t] THEN Free ELSE heap[a]]
  /\ engine' = [engine EXCEPT ![t] = IF op[t] = "new" THEN Null ELSE @]
  /\ Goto(t, "returned")
  /\ UNCHANGED <<objects, op, verdict, out, answer, lost>>

AllocateOutput(t) ==
  /\ pc[t] = "writing"
  /\ \/ \E a \in Available :
          /\ heap' = [heap EXCEPT ![a] = Buffer(t, Raw)]
          /\ out' = [out EXCEPT ![t] = a]
          /\ Goto(t, "serializing")
          /\ UNCHANGED verdict
     \/ /\ verdict' = [verdict EXCEPT ![t] = "out_of_memory"]
        /\ Goto(t, "failing")
        /\ UNCHANGED <<heap, out>>
  /\ UNCHANGED <<objects, op, engine, code, error, answer, lost>>

Serialize(t) ==
  /\ pc[t] = "serializing"
  /\ heap' = [heap EXCEPT ![out[t]] = Buffer(t, verdict[t])]
  /\ code' = [code EXCEPT ![t] = "PV_OK"]
  /\ Goto(t, "returned")
  /\ UNCHANGED <<objects, op, engine, verdict, frame, answer, lost>>

SerializeFails(t) ==
  /\ pc[t] = "serializing"
  /\ heap' = Without(out[t])
  /\ out' = [out EXCEPT ![t] = Null]
  /\ verdict' = [verdict EXCEPT ![t] = "unserializable"]
  /\ Goto(t, "failing")
  /\ UNCHANGED <<objects, op, engine, code, error, answer, lost>>

-----------------------------------------------------------------------------
(* Back in Rust.                                                           *)

Answer(t, class, text) == answer' = [answer EXCEPT ![t] = [class |-> class, text |-> text]]

\* to_ruby_error; Engine::new has no status and raises an Error.
ErrorClass(c) ==
  CASE c = "PV_ERR_COMPILATION" -> "CompilationError"
    [] c = "PV_ERR_RUNTIME"     -> "EvaluationError"
    [] c = "PV_ERR_ARGUMENT"    -> "ArgumentError"
    [] OTHER                    -> "Error"

Unknown == "unknown error"

\* take_error and status_error: the message is copied,
TakeError(t) ==
  /\ pc[t] = "returned" /\ code[t] # "PV_OK"
  /\ Answer(t, ErrorClass(code[t]),
            IF error[t] = Null THEN Unknown ELSE heap[error[t]].text)
  /\ Goto(t, "copied")
  /\ UNCHANGED <<heap, objects, op, engine, verdict, code, frame, lost>>

\* Mutation: the pointer to the string kept after the string is freed.
FreeErrorKeepsPointer(t) ==
  /\ pc[t] = "copied"
  /\ heap' = Without(error[t])
  /\ Goto(t, "result")
  /\ UNCHANGED <<objects, op, engine, verdict, code, error, out, answer, lost>>

\* and the string freed.
FreeError(t) ==
  /\ pc[t] = "copied"
  /\ heap' = Without(error[t])
  /\ error' = [error EXCEPT ![t] = Null]
  /\ Goto(t, "result")
  /\ UNCHANGED <<objects, op, engine, verdict, code, out, answer, lost>>

\* Mutation: nothing to free in a buffer of length 0.
SucceedKeepsEmpty(t) ==
  /\ pc[t] = "returned" /\ code[t] = "PV_OK"
  /\ out' = [out EXCEPT ![t] = IF verdict[t] = Valid THEN Null ELSE @]
  /\ Answer(t, "ok", IF verdict[t] = Valid THEN Valid ELSE "accepted")
  /\ Goto(t, "result")
  /\ UNCHANGED <<heap, objects, op, engine, verdict, code, error, lost>>

\* A buffer of length 0 is freed at once, any other is a PvBuffer from here on.
Succeed(t) ==
  /\ pc[t] = "returned" /\ code[t] = "PV_OK"
  /\ LET empty == out[t] # Null /\ heap[out[t]].bytes = Valid IN
       /\ heap' = IF empty THEN Without(out[t]) ELSE heap
       /\ out' = [out EXCEPT ![t] = IF empty THEN Null ELSE @]
       /\ Answer(t, "ok", IF empty THEN Valid ELSE "accepted")
  /\ Goto(t, "result")
  /\ UNCHANGED <<objects, op, engine, verdict, code, error, lost>>

\* The call is over; its frame is gone.
Leave(t) ==
  /\ Goto(t, "idle")
  /\ op' = [op EXCEPT ![t] = "none"]
  /\ engine' = [engine EXCEPT ![t] = Null]
  /\ verdict' = [verdict EXCEPT ![t] = "none"]
  /\ code' = [code EXCEPT ![t] = "none"]

\* The result goes to Ruby: a new engine as an object, a buffer as a String.
Deliver(t) ==
  /\ pc[t] = "result"
  /\ IF out[t] = Null
     THEN Leave(t) /\ UNCHANGED answer
     ELSE /\ Answer(t, "ok", heap[out[t]].bytes)
          /\ Goto(t, "delivered")
          /\ UNCHANGED <<op, engine, verdict, code>>
  /\ objects' = IF op[t] = "new" /\ engine[t] # Null
                THEN objects \cup {engine[t]} ELSE objects
  /\ UNCHANGED <<heap, frame, lost>>

\* Drop of the PvBuffer.
DropBuffer(t) ==
  /\ pc[t] = "delivered"
  /\ heap' = Without(out[t])
  /\ out' = [out EXCEPT ![t] = Null]
  /\ Leave(t)
  /\ UNCHANGED <<objects, error, answer, lost>>

\* An interrupt is delivered as the GVL is released or taken again, by a longjmp
\* over the frame of without_gvl and the caller's; so is NoMemoryError when Ruby
\* has none for the String.
Interrupt(t) ==
  /\ op[t] \in {"compile", "validate"} /\ pc[t] \in {"releasing", "result"}
  /\ Cardinality(lost) < MaxLost
  /\ lost' = lost \cup ({out[t]} \ {Null})
  /\ out' = [out EXCEPT ![t] = Null]
  /\ Answer(t, "interrupted", "interrupted")
  /\ Leave(t)
  /\ UNCHANGED <<heap, objects, error>>

\* Ruby frees an Engine nobody refers to; a call in progress does.
Sweep(e) ==
  /\ e \in objects /\ \A t \in Threads : engine[t] # e
  /\ objects' = objects \ {e}
  /\ heap' = Without(e)
  /\ UNCHANGED <<pc, op, engine, verdict, code, frame, answer, lost>>

Step(t) ==
  \/ ReleaseGVL(t) \/ SetError(t) \/ AllocateOutput(t) \/ Serialize(t)
  \/ SerializeFails(t) \/ TakeError(t) \/ FreeError(t) \/ Succeed(t)
  \/ Deliver(t) \/ DropBuffer(t)

Next ==
  \/ \E t \in Threads :
       \/ New(t) \/ Interrupt(t) \/ Step(t)
       \/ \E o \in {"add_file", "compile", "validate"} : Call(t, o)
       \/ \E v \in Verdicts(op[t]) : Decide(t, v)
  \/ \E e \in objects : Sweep(e)

Spec == Init /\ [][Next]_vars

-----------------------------------------------------------------------------
(* Properties.                                                             *)

Pointers(t) == {error[t], out[t]} \ {Null}

\* The variables have their types, and a call in progress has an engine unless
\* it was to make one and failed.
TypeOK ==
  /\ heap \in [Addrs -> {Free, Engine}
       \cup {Error(t, v) : t \in Threads, v \in Failures}
       \cup {Buffer(t, b) : t \in Threads, b \in Results \cup {Valid, Raw}}]
  /\ objects \subseteq Addrs
  /\ pc \in [Threads -> {"idle", "releasing", "shim", "failing", "writing",
                         "serializing", "returned", "copied", "result", "delivered"}]
  /\ op \in [Threads -> {"none", "new", "add_file", "compile", "validate"}]
  /\ verdict \in [Threads -> {"none", "accepted", Valid} \cup Failures \cup Results]
  /\ code \in [Threads -> {"none", "PV_OK", "PV_ERR_COMPILATION", "PV_ERR_RUNTIME",
                           "PV_ERR_ARGUMENT", "PV_ERR_UNEXPECTED"}]
  /\ engine \in [Threads -> Addrs \cup {Null}]
  /\ error \in [Threads -> Addrs \cup {Null}]
  /\ out \in [Threads -> Addrs \cup {Null}]
  /\ DOMAIN answer = Threads
  /\ lost \subseteq Addrs
  /\ \A t \in Threads : engine[t] = Null => pc[t] = "idle" \/ op[t] = "new"

\* No pointer outlives its block: whatever address malloc uses again, what a call
\* reads and frees is a block of its own, and the engine it runs on is one.
NothingDangles ==
  /\ \A t \in Threads :
       /\ error[t] # Null => heap[error[t]] = Error(t, verdict[t])
       /\ out[t] # Null => \E b \in Results \cup {Valid, Raw} : heap[out[t]] = Buffer(t, b)
       /\ engine[t] # Null => heap[engine[t]] = Engine
       /\ engine[t] \in objects => op[t] # "new"
  /\ \A e \in objects : heap[e] = Engine

\* No block is forgotten, on any path out of the shim: each has a call in progress
\* or a Ruby object that will free it, unless an interrupt took the call away.
NothingForgotten ==
  \A a \in Addrs \ lost :
    \/ heap[a] = Free
    \/ a \in objects
    \/ \E t \in Threads : a \in Pointers(t) \/ (op[t] = "new" /\ engine[t] = a)

\* What Ruby gets is what became of its own call: an error of the class that
\* stands for the phase that failed, with the message of this failure unless
\* there was no memory for it, or the bytes that were serialized for it.
AnswersTrue ==
  \A t \in Threads :
    LET v == verdict[t]
        a == answer[t]
    IN  pc[t] = "delivered" \/ (pc[t] = "result" /\ out[t] = Null) =>
          IF v \in Failures
          THEN /\ a.text \in {v, Unknown}
               /\ a.class = CASE v \in Argument    -> "ArgumentError"
                              [] v \in Compilation -> "CompilationError"
                              [] v \in Evaluation  -> "EvaluationError"
                              [] OTHER             -> "Error"
          ELSE a = [class |-> "ok", text |-> v]

\* pv_shim.h: "The caller must release it with pv_free."  A buffer or an error
\* string always has a call in progress that will.
ReleasedWithPvFree ==
  \A a \in Addrs :
    heap[a] \in {Free, Engine} \/ \E t \in Threads : a \in Pointers(t)
=============================================================================
