-------------------------- MODULE ValidationService --------------------------
(***************************************************************************)
(* What a shared Validator promises: a call's outcome depends on the       *)
(* schema and on the call, never on what other threads did before it or    *)
(* are doing now, and never on a call that failed or was interrupted.      *)
(***************************************************************************)
CONSTANTS
  Threads, Calls, NoCall,
  Expected   \* Expected[c]: the outcomes call c may have

VARIABLES
  asked,     \* asked[t]: the call thread t is in, or NoCall
  outcome    \* outcome[t]: how t's last call ended, "none" until it has

svars == <<asked, outcome>>

Init ==
  /\ asked = [t \in Threads |-> NoCall]
  /\ outcome = [t \in Threads |-> "none"]

Ask(t) ==
  /\ asked[t] = NoCall
  /\ \E call \in Calls : asked' = [asked EXCEPT ![t] = call]
  /\ outcome' = [outcome EXCEPT ![t] = "none"]

Answer(t) ==
  /\ asked[t] # NoCall
  /\ \E o \in Expected[asked[t]] \cup {"interrupted"} :
       outcome' = [outcome EXCEPT ![t] = o]
  /\ asked' = [asked EXCEPT ![t] = NoCall]

Next == \E t \in Threads : Ask(t) \/ Answer(t)

Spec == Init /\ [][Next]_svars
=============================================================================
