---------------------------- MODULE SharedService ----------------------------
(***************************************************************************)
(* What Protovalidate.register, validate and the rest promise together:    *)
(* there is one validator, and it never forgets a class.  A call that      *)
(* returns has registered its classes; one that raises, some of them.      *)
(***************************************************************************)
CONSTANTS Threads, Classes, Calls, NoCall

VARIABLES
  asked,  \* asked[t]: the classes of the call t is in, or NoCall
  ended,  \* ended[t]: how t's last call ended, "none" until it has
  known   \* the classes registered

svars == <<asked, ended, known>>

Init ==
  /\ asked = [t \in Threads |-> NoCall]
  /\ ended = [t \in Threads |-> "none"]
  /\ known = {}

Ask(t) ==
  /\ asked[t] = NoCall
  /\ \E c \in Calls : asked' = [asked EXCEPT ![t] = c]
  /\ ended' = [ended EXCEPT ![t] = "none"]
  /\ UNCHANGED known

Answer(t) ==
  /\ asked[t] # NoCall
  /\ \/ /\ known' = known \cup asked[t]
        /\ ended' = [ended EXCEPT ![t] = "ok"]
     \/ /\ \E S \in SUBSET asked[t] : known' = known \cup S
        /\ ended' = [ended EXCEPT ![t] = "raised"]
  /\ asked' = [asked EXCEPT ![t] = NoCall]

Next == \E t \in Threads : Ask(t) \/ Answer(t)

Spec == Init /\ [][Next]_svars
=============================================================================
