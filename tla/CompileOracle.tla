---------------------------- MODULE CompileOracle ----------------------------
(***************************************************************************)
(* What EnsureCompiled promises its callers: every question "do the rules  *)
(* reachable from this type compile?" is answered by the schema alone,     *)
(* never by who asked before, and only types that compile are ever marked. *)
(***************************************************************************)
EXTENDS TypeGraph

CONSTANTS Threads, NoType

VARIABLES
  asked,     \* asked[t]: the type thread t is waiting to hear about, or NoType
  answer,    \* answer[t]: <<type, verdict>> last given to t, or <<>>
  accepted   \* types marked as compiled

ovars == <<asked, answer, accepted>>

Init ==
  /\ asked = [t \in Threads |-> NoType]
  /\ answer = [t \in Threads |-> <<>>]
  /\ accepted = {}

Ask(t, d) ==
  /\ asked[t] = NoType
  /\ asked' = [asked EXCEPT ![t] = d]
  /\ UNCHANGED <<answer, accepted>>

Answer(t) ==
  /\ asked[t] # NoType
  /\ answer' = [answer EXCEPT ![t] = <<asked[t], RulesOk(asked[t])>>]
  /\ accepted' = IF RulesOk(asked[t]) THEN accepted \cup {asked[t]} ELSE accepted
  /\ asked' = [asked EXCEPT ![t] = NoType]

Next == \E t \in Threads : Answer(t) \/ \E d \in Types : Ask(t, d)

Spec == Init /\ [][Next]_ovars
=============================================================================
