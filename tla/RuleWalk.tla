------------------------------ MODULE RuleWalk -------------------------------
(***************************************************************************)
(* EnsureCompiled and CompileRules of shim/pv_shim.cc, run by any number   *)
(* of threads at once on one engine.  A thread looks its type up in        *)
(* `compiled` under a reader lock, walks the fields of the type outside    *)
(* that lock, calling ValidatorFactory::Add on each type it has not seen,  *)
(* and marks the type under a writer lock.  Other threads' walks, and the  *)
(* types Validate compiles on its own, happen in between.                  *)
(*                                                                         *)
(* The recursion of CompileRules is kept as the list `todo` of descriptors *)
(* still to be visited, in the order the recursion visits them: an error   *)
(* returns through every frame, so nothing else of the frames matters.     *)
(***************************************************************************)
EXTENDS TypeGraph

CONSTANTS Threads, NoType

ASSUME NoTypeAssumption == NoType \notin Types

VARIABLES
  cache,     \* the factory's rules: cache[d] is "none" until d is added
  compiled,  \* pv_engine::compiled
  pc,        \* pc[t]: "idle", "lookup" or "walk"
  root,      \* root[t]: the descriptor EnsureCompiled was called with
  seen,      \* seen[t]: CompileRules' seen set
  todo,      \* todo[t]: descriptors the recursion has still to visit
  answer     \* answer[t]: <<descriptor, verdict>> of t's last call, or <<>>

vars == <<cache, compiled, pc, root, seen, todo, answer>>

Init ==
  /\ cache = [d \in Types |-> "none"]
  /\ compiled = {}
  /\ pc = [t \in Threads |-> "idle"]
  /\ root = [t \in Threads |-> NoType]
  /\ seen = [t \in Threads |-> {}]
  /\ todo = [t \in Threads |-> <<>>]
  /\ answer = [t \in Threads |-> <<>>]

-----------------------------------------------------------------------------
(* ValidatorFactory (protovalidate-cc).  Adding a type that is already     *)
(* there returns its stored status.  A new type is compiled and stored     *)
(* together with an unspecified part of the new types below it; an error   *)
(* stored below it may or may not be reported.                             *)

Own(d) == IF d \in Good THEN "ok" ELSE "bad"

Store(S) == [d \in Types |-> IF d \in S THEN Own(d) ELSE cache[d]]

Uncached(d) == {u \in Reach[d] : cache[u] = "none"}

\* Add(d) may return `ok` and leave the rules `stored` behind.
FactoryAdd(d, ok, stored) ==
  IF cache[d] # "none"
  THEN stored = cache /\ ok = (cache[d] = "ok")
  ELSE \E S \in SUBSET Uncached(d) :
         /\ d \in S
         /\ stored = Store(S)
         /\ \/ ok /\ d \in Good
            \/ ~ok /\ \E u \in Reach[d] : stored[u] = "bad"

-----------------------------------------------------------------------------
(* One call of EnsureCompiled by thread t.                                 *)

\* Mutations: bugs this code is written against, each breaking a property.

\* One `seen` set kept by the engine instead of one per call.
ReplySharesSeen(t, verdict) ==
  /\ answer' = [answer EXCEPT ![t] = <<root[t], verdict>>]
  /\ pc' = [pc EXCEPT ![t] = "idle"]
  /\ root' = [root EXCEPT ![t] = NoType]
  /\ todo' = [todo EXCEPT ![t] = <<>>]
  /\ UNCHANGED seen

\* Every return of EnsureCompiled.
Reply(t, verdict) ==
  /\ answer' = [answer EXCEPT ![t] = <<root[t], verdict>>]
  /\ pc' = [pc EXCEPT ![t] = "idle"]
  /\ root' = [root EXCEPT ![t] = NoType]
  /\ seen' = [seen EXCEPT ![t] = {}]
  /\ todo' = [todo EXCEPT ![t] = <<>>]

Call(t, d) ==
  /\ pc[t] = "idle"
  /\ pc' = [pc EXCEPT ![t] = "lookup"]
  /\ root' = [root EXCEPT ![t] = d]
  /\ UNCHANGED <<cache, compiled, seen, todo, answer>>

\* The root put in `seen` before the recursion starts.
LookupSeesRoot(t) ==
  /\ pc[t] = "lookup"
  /\ IF root[t] \in compiled
     THEN Reply(t, TRUE)
     ELSE /\ pc' = [pc EXCEPT ![t] = "walk"]
          /\ todo' = [todo EXCEPT ![t] = <<root[t]>>]
          /\ seen' = [seen EXCEPT ![t] = {root[t]}]
          /\ UNCHANGED <<root, answer>>
  /\ UNCHANGED <<cache, compiled>>

\* The check under the reader lock: a type marked before needs no walk.
Lookup(t) ==
  /\ pc[t] = "lookup"
  /\ IF root[t] \in compiled
     THEN Reply(t, TRUE)
     ELSE /\ pc' = [pc EXCEPT ![t] = "walk"]
          /\ todo' = [todo EXCEPT ![t] = <<root[t]>>]
          /\ UNCHANGED <<root, seen, answer>>
  /\ UNCHANGED <<cache, compiled>>

\* A descriptor met before is left alone, which breaks cycles.
SkipSeen(t) ==
  /\ pc[t] = "walk" /\ todo[t] # <<>>
  /\ Head(todo[t]) \in seen[t]
  /\ todo' = [todo EXCEPT ![t] = Tail(@)]
  /\ UNCHANGED <<cache, compiled, pc, root, seen, answer>>

\* The fields left to Add's own recursion.
VisitShallow(t) ==
  /\ pc[t] = "walk" /\ todo[t] # <<>>
  /\ LET d == Head(todo[t]) IN
       /\ d \notin seen[t]
       /\ FactoryAdd(d, TRUE, cache')
       /\ seen' = [seen EXCEPT ![t] = @ \cup {d}]
       /\ todo' = [todo EXCEPT ![t] = Tail(@)]
  /\ UNCHANGED <<compiled, pc, root, answer>>

\* No `seen` set.
VisitForgetful(t) ==
  /\ pc[t] = "walk" /\ todo[t] # <<>>
  /\ FactoryAdd(Head(todo[t]), TRUE, cache')
  /\ todo' = [todo EXCEPT ![t] = Fields[Head(@)] \o Tail(@)]
  /\ UNCHANGED <<compiled, pc, root, seen, answer>>

\* A new descriptor is added to the factory; its fields come next.
Visit(t) ==
  /\ pc[t] = "walk" /\ todo[t] # <<>>
  /\ LET d == Head(todo[t]) IN
       /\ d \notin seen[t]
       /\ FactoryAdd(d, TRUE, cache')
       /\ seen' = [seen EXCEPT ![t] = @ \cup {d}]
       /\ todo' = [todo EXCEPT ![t] = Fields[d] \o Tail(@)]
  /\ UNCHANGED <<compiled, pc, root, answer>>

\* The type marked before the status is looked at.
FailMarks(t) ==
  /\ pc[t] = "walk" /\ todo[t] # <<>>
  /\ Head(todo[t]) \notin seen[t]
  /\ FactoryAdd(Head(todo[t]), FALSE, cache')
  /\ compiled' = compiled \cup {root[t]}
  /\ Reply(t, FALSE)

\* An error of Add ends the walk with PV_ERR_COMPILATION; nothing is marked.
Fail(t) ==
  /\ pc[t] = "walk" /\ todo[t] # <<>>
  /\ Head(todo[t]) \notin seen[t]
  /\ FactoryAdd(Head(todo[t]), FALSE, cache')
  /\ Reply(t, FALSE)
  /\ UNCHANGED compiled

\* The walk is complete: the type is marked under the writer lock.
Mark(t) ==
  /\ pc[t] = "walk" /\ todo[t] = <<>>
  /\ compiled' = compiled \cup {root[t]}
  /\ Reply(t, TRUE)
  /\ UNCHANGED cache

\* A Validate running elsewhere compiles a type it met in a message, such as
\* one unpacked out of an Any.
LazyAdd ==
  /\ \E d \in Types, ok \in BOOLEAN : FactoryAdd(d, ok, cache')
  /\ UNCHANGED <<compiled, pc, root, seen, todo, answer>>

Step(t) == Lookup(t) \/ SkipSeen(t) \/ Visit(t) \/ Fail(t) \/ Mark(t)

Next ==
  \/ \E t \in Threads : Step(t) \/ \E d \in Types : Call(t, d)
  \/ LazyAdd

Spec == Init /\ [][Next]_vars

\* Every thread inside the engine keeps running.
FairSpec == Spec /\ \A t \in Threads : WF_vars(Step(t))

-----------------------------------------------------------------------------
(* Properties.                                                             *)

\* What a walk has visited or has still to visit.
Frontier(t) == seen[t] \cup Range(todo[t])

\* The variables have their types, and a thread holds a descriptor, a seen
\* set and a list only inside EnsureCompiled.
TypeOK ==
  /\ cache \in [Types -> {"none", "ok", "bad"}]
  /\ compiled \subseteq Types
  /\ pc \in [Threads -> {"idle", "lookup", "walk"}]
  /\ root \in [Threads -> Types \cup {NoType}]
  /\ seen \in [Threads -> SUBSET Types]
  /\ todo \in [Threads -> Seq(Types)]
  /\ answer \in [Threads -> {<<>>} \cup (Types \X BOOLEAN)]
  /\ \A t \in Threads :
       /\ (pc[t] = "idle") <=> (root[t] = NoType)
       /\ pc[t] # "walk" => seen[t] = {} /\ todo[t] = <<>>

\* A type is in `compiled`, where it is never walked again, only when the
\* factory holds clean rules for everything reachable from it: no error cached
\* for a nested type, by this thread or another, hides behind the mark.
CompiledSound ==
  \A d \in compiled : \A u \in Reach[d] : cache[u] = "ok"

\* A walk loses nothing on its way: what it has seen has clean rules, the field
\* types of what it has seen are seen or still listed, and it never strays to a
\* type its root does not reach.
Complete(t) ==
  /\ root[t] \in Frontier(t)
  /\ Frontier(t) \subseteq Reach[root[t]]
  /\ \A u \in seen[t] : cache[u] = "ok" /\ FieldTypes(u) \subseteq Frontier(t)

WalkComplete == \A t \in Threads : pc[t] = "walk" => Complete(t)

\* EnsureCompiled answers from the schema alone.  While a thread is inside, the
\* oracle has been asked and has not answered; Lookup, Fail and Mark answer.
Oracle == INSTANCE CompileOracle WITH asked <- root, accepted <- compiled

ImplementsOracle == Oracle!Spec

\* A walk ends although message types refer to themselves and to each other.
CallsReturn == \A t \in Threads : pc[t] # "idle" ~> pc[t] = "idle"
=============================================================================
