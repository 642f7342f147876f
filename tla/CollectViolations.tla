-------------------------- MODULE CollectViolations --------------------------
(***************************************************************************)
(* Validator#collect_violations from encode to field_value: the message is *)
(* encoded, the engine validates the bytes without the GVL, and what it    *)
(* serializes comes back through the C boundary (NativeCall) to be decoded *)
(* into a Violation.  That keeps the message itself, which may have        *)
(* changed, before field_value looks into it (FieldPath).                  *)
(*                                                                         *)
(* Violations do not depend on each other: a result stands for one.        *)
(***************************************************************************)
EXTENDS NativeCall, FieldPath

CONSTANTS
  Callers,    \* the threads followed in Ruby; of the others, the native calls
  Messages,   \* the states the message may be in
  Content,    \* Content[m]: its value then
  Decoded,    \* Decoded[r]: the violation in r, for r \in Results: those looked at
  OthersGet   \* bound: what the calls of other threads come to

ASSUME CollectAssumption ==
  /\ Callers \subseteq Threads
  /\ \A m \in Messages : WellTyped(Content[m])
  /\ \A m, n \in Messages : Content[m].type = Content[n].type

\* What the engine can find fault with, in each of them.
Faults == [m \in Messages |-> Violable(Content[m])]

ASSUME ResultsAreFaults ==
  \A r \in Results : \E m \in Messages : Decoded[r] \in {AsViolation(p) : p \in Faults[m]}

VARIABLES
  message,    \* the message that all callers validate
  sent,       \* sent[t]: the message as t encoded it
  found,      \* found[t]: what the engine made of that
  collected,  \* collected[t]: the violation t has been given, or "none"
  touched     \* the callers whose message has changed since it was encoded

rubyVars == <<message, sent, found, collected, touched>>
collectVars == <<vars, rubyVars>>

CollectInit ==
  /\ Init
  /\ message \in Messages
  /\ sent = [t \in Callers |-> message]
  /\ found = [t \in Callers |-> "none"]
  /\ collected = [t \in Callers |-> "none"]
  /\ touched = {}

\* message.class.encode(message), and the call.
Collect(t) ==
  /\ Call(t, "validate")
  /\ sent' = [sent EXCEPT ![t] = message]
  /\ found' = [found EXCEPT ![t] = "none"]
  /\ collected' = [collected EXCEPT ![t] = "none"]
  /\ touched' = touched \ {t}
  /\ UNCHANGED message

\* The engine finds fault with some part of the message it was sent, or none.
Evaluate(t) ==
  /\ pc[t] = "shim"
  /\ \/ LET faults == {AsViolation(p) : p \in Faults[sent[t]]} IN
        \E r \in Results :
          /\ Decoded[r] \in faults
          /\ Decide(t, r)
          /\ found' = [found EXCEPT ![t] = r]
     \/ \E v \in Verdicts("validate") \ Results : Decide(t, v) /\ UNCHANGED found
  /\ UNCHANGED <<message, sent, collected, touched>>

\* Violations.decode(serialized), and Violation.new(proto, message).
Wrap(t) ==
  /\ DropBuffer(t)
  /\ collected' = [collected EXCEPT ![t] = answer[t].text]
  /\ UNCHANGED <<message, sent, found, touched>>

\* Whoever has the message changes it.
Change ==
  /\ message' \in Messages \ {message}
  /\ touched' = Callers
  /\ UNCHANGED <<vars, sent, found, collected>>

\* The rest of the callers' calls, and the calls of other threads.
Elsewhere ==
  /\ \/ \E t \in Callers : pc[t] # "delivered" /\ (Step(t) \/ Interrupt(t))
     \/ \E t \in Threads \ Callers :
          \/ New(t) \/ Step(t) \/ Interrupt(t)
          \/ \E o \in {"add_file", "compile", "validate"} : Call(t, o)
          \/ \E v \in Verdicts(op[t]) \cap OthersGet : Decide(t, v)
     \/ \E e \in objects : Sweep(e)
  /\ UNCHANGED rubyVars

CollectNext ==
  \/ \E t \in Callers : Collect(t) \/ Evaluate(t) \/ Wrap(t)
  \/ Change
  \/ Elsewhere

CollectSpec == CollectInit /\ [][CollectNext]_collectVars

-----------------------------------------------------------------------------
(* Properties.                                                             *)

ValuesAt(v, m) == {p.value : p \in {q \in Faults[m] : AsViolation(q) = v}}

\* field_value: "the value that violated the rule", or the map key.  The violation
\* is about the message as it was sent, and so is its value as long as nobody
\* has changed the message, whatever other calls did with the same memory.
ValueIsOffending ==
  \A t \in Callers : collected[t] # "none" /\ t \notin touched =>
    FieldValue(Decoded[collected[t]], Content[message])
      \in ValuesAt(Decoded[found[t]], sent[t])

\* Of a message that has changed, field_value is what the path means there, or nil
\* if it leads nowhere; it never fails, nor strays to another value.  (A map's
\* key is taken from the path as long as it leads to a map.)
ValueIsAtPath ==
  \A t \in Callers : collected[t] # "none" =>
    LET v == Decoded[collected[t]]
        now == FieldValue(v, Content[message])
    IN  \/ now \in ValuesAt(v, message)
        \/ ValuesAt(v, message) = {} /\ now = Nil
        \/ v.for_key /\ now \in ValuesAt(v, sent[t])
=============================================================================
