--------------------------- MODULE RuleWalkProofs ----------------------------
(***************************************************************************)
(* For every schema, every number of threads and every way ValidatorFactory *)
(* may fill its cache: RuleWalk keeps its invariants and implements         *)
(* CompileOracle.                                                           *)
(***************************************************************************)
EXTENDS RuleWalk, TLAPS

-----------------------------------------------------------------------------
(* Sequences and reachability.                                             *)

\* A list that is not empty holds its head and its tail.
LEMMA RangeHeadTail ==
  ASSUME NEW T, NEW s \in Seq(T), s # <<>>
  PROVE  /\ Head(s) \in T
         /\ Tail(s) \in Seq(T)
         /\ Range(s) = {Head(s)} \cup Range(Tail(s))
<1>1. Len(s) \in Nat \ {0} /\ DOMAIN s = 1 .. Len(s)
  OBVIOUS
<1>2. Len(Tail(s)) = Len(s) - 1 /\ DOMAIN Tail(s) = 1 .. Len(s) - 1
  BY <1>1
<1>3. \A i \in 1 .. Len(s) - 1 : Tail(s)[i] = s[i + 1]
  BY <1>1
<1>4. Head(s) = s[1]
  BY <1>1
<1>5. Range(s) \subseteq {Head(s)} \cup Range(Tail(s))
  <2> SUFFICES ASSUME NEW i \in 1 .. Len(s), i # 1
               PROVE  s[i] \in Range(Tail(s))
    BY <1>1, <1>4 DEF Range
  <2>1. i - 1 \in 1 .. Len(s) - 1 /\ Tail(s)[i - 1] = s[i]
    BY <1>1, <1>3
  <2> QED BY <2>1, <1>2 DEF Range
<1>6. {Head(s)} \cup Range(Tail(s)) \subseteq Range(s)
  <2>1. Head(s) \in Range(s)
    BY <1>1, <1>4 DEF Range
  <2>2. ASSUME NEW i \in 1 .. Len(s) - 1 PROVE Tail(s)[i] \in Range(s)
    <3>1. i + 1 \in 1 .. Len(s) /\ Tail(s)[i] = s[i + 1]
      BY <1>1, <1>3
    <3> QED BY <3>1, <1>1 DEF Range
  <2> QED BY <2>1, <2>2, <1>2 DEF Range
<1> QED BY <1>1, <1>5, <1>6

\* A concatenation holds what its parts hold.
LEMMA RangeConcat ==
  ASSUME NEW T, NEW r \in Seq(T), NEW s \in Seq(T)
  PROVE  r \o s \in Seq(T) /\ Range(r \o s) = Range(r) \cup Range(s)
<1> DEFINE m == Len(r)
           n == Len(s)
<1>1. /\ m \in Nat /\ n \in Nat
      /\ DOMAIN r = 1 .. m /\ DOMAIN s = 1 .. n
      /\ DOMAIN (r \o s) = 1 .. m + n
  OBVIOUS
<1>2. \A i \in 1 .. m : (r \o s)[i] = r[i]
  BY <1>1
<1>3. \A i \in 1 .. n : (r \o s)[m + i] = s[i]
  BY <1>1
<1> HIDE DEF m, n
<1>4. Range(r \o s) \subseteq Range(r) \cup Range(s)
  <2> SUFFICES ASSUME NEW i \in 1 .. m + n
               PROVE  (r \o s)[i] \in Range(r) \cup Range(s)
    BY <1>1 DEF Range
  <2>1. CASE i \in 1 .. m
    BY <2>1, <1>1, <1>2 DEF Range
  <2>2. CASE i \notin 1 .. m
    <3>1. i - m \in 1 .. n /\ (r \o s)[m + (i - m)] = s[i - m] /\ m + (i - m) = i
      BY <2>2, <1>1, <1>3
    <3> QED BY <3>1, <1>1 DEF Range
  <2> QED BY <2>1, <2>2
<1>5. Range(r) \subseteq Range(r \o s)
  <2>1. \A i \in 1 .. m : i \in 1 .. m + n
    BY <1>1
  <2> QED BY <2>1, <1>1, <1>2 DEF Range
<1>6. Range(s) \subseteq Range(r \o s)
  <2>1. \A i \in 1 .. n : m + i \in 1 .. m + n
    BY <1>1
  <2> QED BY <2>1, <1>1, <1>3 DEF Range
<1> QED BY <1>4, <1>5, <1>6

\* The empty list holds nothing.
LEMMA RangeEmpty == Range(<<>>) = {}
  BY DEF Range

\* The elements of a sequence over T are in T.
LEMMA RangeType ==
  ASSUME NEW T, NEW s \in Seq(T)
  PROVE  Range(s) \subseteq T
  BY DEF Range

LEMMA FieldTypesType ==
  ASSUME NEW u \in Types
  PROVE  Fields[u] \in Seq(Types) /\ FieldTypes(u) \subseteq Types
  BY RangeType, TypeGraphAssumption DEF FieldTypes

LEMMA ReachSelf == \A x \in Types : x \in Reach[x] /\ Reach[x] \subseteq Types
  BY DEF Reach

\* Reachability follows fields.
LEMMA ReachField ==
  ASSUME NEW x \in Types, NEW u \in Reach[x]
  PROVE  FieldTypes(u) \subseteq Reach[x]
<1>1. u \in Types
  BY ReachSelf
<1>2. FieldTypes(u) \subseteq Types
  BY <1>1, FieldTypesType
<1> QED BY <1>1, <1>2 DEF Reach, Closed

\* A closed set of types holds whatever its members reach.
LEMMA ReachLeast ==
  ASSUME NEW S \in SUBSET Types, Closed(S), NEW x \in S
  PROVE  Reach[x] \subseteq S
  BY DEF Reach

LEMMA ReachTransitive ==
  ASSUME NEW x \in Types, NEW u \in Reach[x]
  PROVE  Reach[u] \subseteq Reach[x]
<1>1. Closed(Reach[x])
  BY ReachField DEF Closed
<1> QED BY <1>1, ReachSelf, ReachLeast

-----------------------------------------------------------------------------
(* The inductive invariant.                                                *)

\* What the factory stores for a type is what its own rules deserve.
CacheOwn == \A u \in Types : cache[u] \in {"none", Own(u)}

IInv == TypeOK /\ CacheOwn /\ CompiledSound /\ WalkComplete

\* Adding a type never changes a status already stored, stores what is due, and
\* fails only for a type that reaches bad rules.
LEMMA FactoryAddEffect ==
  ASSUME TypeOK, CacheOwn, NEW x \in Types, NEW ok \in BOOLEAN,
         FactoryAdd(x, ok, cache')
  PROVE  /\ cache' \in [Types -> {"none", "ok", "bad"}]
         /\ CacheOwn'
         /\ \A u \in Types : cache[u] = "ok" => cache'[u] = "ok"
         /\ ok => cache'[x] = "ok"
         /\ ~ok => ~RulesOk(x)
<1>1. CASE cache[x] # "none"
  <2>1. cache' = cache /\ ok = (cache[x] = "ok")
    BY <1>1 DEF FactoryAdd
  <2>2. ~ok => x \notin Good
    BY <1>1, <2>1 DEF CacheOwn, Own
  <2> QED BY <2>1, <2>2, ReachSelf DEF TypeOK, CacheOwn, RulesOk, Own
<1>2. CASE cache[x] = "none"
  <2>1. PICK S \in SUBSET Uncached(x) :
          /\ x \in S
          /\ cache' = Store(S)
          /\ \/ ok /\ x \in Good
             \/ ~ok /\ \E u \in Reach[x] : cache'[u] = "bad"
    BY <1>2 DEF FactoryAdd
  <2>2. S \subseteq Types /\ \A u \in S : cache[u] = "none"
    BY <2>1, ReachSelf DEF Uncached
  <2>3. \A u \in Types : cache'[u] = IF u \in S THEN Own(u) ELSE cache[u]
    BY <2>1 DEF Store
  <2>4. cache' \in [Types -> {"none", "ok", "bad"}]
    BY <2>1 DEF Store, Own, TypeOK
  <2>5. CacheOwn'
    BY <2>3 DEF CacheOwn, Own
  <2>6. \A u \in Types : cache[u] = "ok" => cache'[u] = "ok"
    BY <2>2, <2>3
  <2>7. ok => cache'[x] = "ok"
    BY <2>1, <2>3 DEF Own
  <2>8. ~ok => ~RulesOk(x)
    <3> SUFFICES ASSUME ~ok PROVE ~RulesOk(x)
      OBVIOUS
    <3>1. PICK u \in Reach[x] : cache'[u] = "bad"
      BY <2>1
    <3>2. u \in Types /\ u \notin Good
      BY <3>1, <2>5, ReachSelf DEF CacheOwn, Own
    <3> QED BY <3>2 DEF RulesOk
  <2> QED BY <2>4, <2>5, <2>6, <2>7, <2>8
<1> QED BY <1>1, <1>2

\* A type whose reachable rules are all cached clean is a type that compiles.
LEMMA CleanIsOk ==
  ASSUME CacheOwn, NEW x \in Types, \A u \in Reach[x] : cache[u] = "ok"
  PROVE  RulesOk(x)
  BY ReachSelf DEF CacheOwn, Own, RulesOk

\* A finished walk has seen everything its root reaches.
LEMMA WalkEnd ==
  ASSUME IInv, NEW t \in Threads, pc[t] = "walk", todo[t] = <<>>
  PROVE  /\ root[t] \in Types
         /\ \A u \in Reach[root[t]] : cache[u] = "ok"
<1>1. Frontier(t) = seen[t]
  BY RangeEmpty DEF Frontier
<1>2. seen[t] \subseteq Types /\ Closed(seen[t]) /\ root[t] \in seen[t]
  BY <1>1 DEF IInv, TypeOK, WalkComplete, Complete, Closed
<1>3. Reach[root[t]] \subseteq seen[t]
  BY <1>2, ReachLeast
<1> QED BY <1>2, <1>3 DEF IInv, WalkComplete, Complete

\* What a step of one thread does to the walks of the others.
LEMMA OthersWalk ==
  ASSUME IInv, NEW t \in Threads,
         \A u \in Types : cache[u] = "ok" => cache'[u] = "ok",
         pc'[t] = pc[t], root'[t] = root[t], seen'[t] = seen[t],
         todo'[t] = todo[t], pc[t] = "walk"
  PROVE  Complete(t)'
<1>1. Frontier(t)' = Frontier(t)
  BY DEF Frontier
<1>2. seen[t] \subseteq Types
  BY DEF IInv, TypeOK
<1> QED BY <1>1, <1>2 DEF IInv, WalkComplete, Complete

\* Initially nothing is cached, compiled or asked.
LEMMA InitIInv == Init => IInv
  BY DEF Init, IInv, TypeOK, CacheOwn, CompiledSound, WalkComplete

\* Marks stay sound while the factory only gains rules.
LEMMA MarksStay ==
  ASSUME IInv, \A u \in Types : cache[u] = "ok" => cache'[u] = "ok",
         compiled' = compiled
  PROVE  CompiledSound'
  BY ReachSelf DEF IInv, TypeOK, CompiledSound

LEMMA ReplyType ==
  ASSUME TypeOK, NEW t \in Threads, NEW ok \in BOOLEAN, Reply(t, ok),
         pc[t] # "idle", compiled' \subseteq Types,
         cache' \in [Types -> {"none", "ok", "bad"}]
  PROVE  TypeOK'
<1>1. root[t] \in Types
  BY DEF TypeOK
<1>2. answer' \in [Threads -> {<<>>} \cup (Types \X BOOLEAN)]
  BY <1>1 DEF TypeOK, Reply
<1>3. todo' \in [Threads -> Seq(Types)]
  BY DEF TypeOK, Reply
<1> QED BY <1>2, <1>3 DEF TypeOK, Reply

LEMMA ReplyWalk ==
  ASSUME IInv, NEW t \in Threads, NEW ok \in BOOLEAN, Reply(t, ok),
         \A u \in Types : cache[u] = "ok" => cache'[u] = "ok"
  PROVE  WalkComplete'
<1> SUFFICES ASSUME NEW w \in Threads, pc'[w] = "walk"
             PROVE  Complete(w)'
  BY DEF WalkComplete
<1> QED BY OthersWalk DEF Reply, IInv, TypeOK

LEMMA CallIInv ==
  ASSUME IInv, NEW t \in Threads, NEW x \in Types, Call(t, x)
  PROVE  IInv'
<1>1. TypeOK'
  BY NoTypeAssumption DEF IInv, TypeOK, Call
<1>2. CacheOwn' /\ CompiledSound'
  BY DEF IInv, CacheOwn, CompiledSound, Call
<1>3. WalkComplete'
  BY OthersWalk DEF Call, IInv, TypeOK, WalkComplete
<1> QED BY <1>1, <1>2, <1>3 DEF IInv

LEMMA LookupIInv ==
  ASSUME IInv, NEW t \in Threads, Lookup(t)
  PROVE  IInv'
<1>1. CacheOwn' /\ CompiledSound'
  BY DEF IInv, CacheOwn, CompiledSound, Lookup
<1>2. root[t] \in Types
  BY DEF IInv, TypeOK, Lookup
<1>3. CASE root[t] \in compiled
  <2>1. Reply(t, TRUE)
    BY <1>3 DEF Lookup
  <2>2. TypeOK'
    BY <2>1, ReplyType DEF Lookup, IInv, TypeOK
  <2>3. WalkComplete'
    BY <2>1, ReplyWalk DEF Lookup
  <2> QED BY <1>1, <2>2, <2>3 DEF IInv
<1>4. CASE root[t] \notin compiled
  <2>1. TypeOK'
    <3>1. <<root[t]>> \in Seq(Types)
      BY <1>2
    <3>2. /\ pc' = [pc EXCEPT ![t] = "walk"]
          /\ todo' = [todo EXCEPT ![t] = <<root[t]>>]
          /\ UNCHANGED <<cache, compiled, root, seen, answer>>
          /\ pc[t] = "lookup"
      BY <1>4 DEF Lookup
    <3>3. todo' \in [Threads -> Seq(Types)]
      BY <3>1, <3>2 DEF IInv, TypeOK
    <3> QED BY <3>2, <3>3, <1>2, NoTypeAssumption DEF IInv, TypeOK
  <2>2. ASSUME NEW w \in Threads, pc'[w] = "walk" PROVE Complete(w)'
    <3>1. CASE w # t
      BY <3>1, <2>2, <1>4, OthersWalk DEF Lookup, IInv, TypeOK
    <3>2. CASE w = t
      <4>1. seen'[t] = {} /\ todo'[t] = <<root[t]>> /\ root'[t] = root[t]
        BY <1>4 DEF Lookup, IInv, TypeOK
      <4>2. Range(<<root[t]>>) = {root[t]}
        BY DEF Range
      <4>3. Frontier(t)' = {root[t]}
        BY <4>1, <4>2 DEF Frontier
      <4> QED BY <3>2, <4>1, <4>3, <1>2, ReachSelf DEF Complete
    <3> QED BY <3>1, <3>2
  <2> QED BY <1>1, <2>1, <2>2 DEF IInv, WalkComplete
<1> QED BY <1>3, <1>4

LEMMA SkipSeenIInv ==
  ASSUME IInv, NEW t \in Threads, SkipSeen(t)
  PROVE  IInv'
<1>1. CacheOwn' /\ CompiledSound'
  BY DEF IInv, CacheOwn, CompiledSound, SkipSeen
<1>2. todo[t] \in Seq(Types) /\ todo[t] # <<>>
  BY DEF IInv, TypeOK, SkipSeen
<1>3. Tail(todo[t]) \in Seq(Types)
      /\ Range(todo[t]) = {Head(todo[t])} \cup Range(Tail(todo[t]))
  BY <1>2, RangeHeadTail
<1>4. todo' = [todo EXCEPT ![t] = Tail(todo[t])]
  BY DEF SkipSeen
<1>5. TypeOK'
  BY <1>3, <1>4 DEF SkipSeen, IInv, TypeOK
<1>6. ASSUME NEW w \in Threads, pc'[w] = "walk" PROVE Complete(w)'
  <2>1. CASE w # t
    BY <2>1, <1>4, <1>6, OthersWalk DEF SkipSeen, IInv, TypeOK
  <2>2. CASE w = t
    <3>1. Frontier(t)' = Frontier(t)
      BY <1>3, <1>4 DEF SkipSeen, Frontier, IInv, TypeOK
    <3> QED BY <2>2, <3>1 DEF SkipSeen, IInv, WalkComplete, Complete
  <2> QED BY <2>1, <2>2
<1> QED BY <1>1, <1>5, <1>6 DEF IInv, WalkComplete

LEMMA VisitIInv ==
  ASSUME IInv, NEW t \in Threads, Visit(t)
  PROVE  IInv'
<1> DEFINE x == Head(todo[t])
<1>1. todo[t] \in Seq(Types) /\ todo[t] # <<>>
  BY DEF IInv, TypeOK, Visit
<1>2. /\ x \in Types
      /\ Tail(todo[t]) \in Seq(Types)
      /\ Range(todo[t]) = {x} \cup Range(Tail(todo[t]))
  BY <1>1, RangeHeadTail
<1>3. Fields[x] \in Seq(Types)
  BY <1>2, FieldTypesType
<1>4. /\ Fields[x] \o Tail(todo[t]) \in Seq(Types)
      /\ Range(Fields[x] \o Tail(todo[t])) = FieldTypes(x) \cup Range(Tail(todo[t]))
  BY <1>2, <1>3, RangeConcat DEF FieldTypes
<1>5. /\ FactoryAdd(x, TRUE, cache')
      /\ seen' = [seen EXCEPT ![t] = seen[t] \cup {x}]
      /\ todo' = [todo EXCEPT ![t] = Fields[x] \o Tail(todo[t])]
      /\ pc[t] = "walk"
      /\ UNCHANGED <<compiled, pc, root, answer>>
  BY DEF Visit
<1> HIDE DEF x
<1>6. /\ cache' \in [Types -> {"none", "ok", "bad"}]
      /\ CacheOwn'
      /\ \A u \in Types : cache[u] = "ok" => cache'[u] = "ok"
      /\ cache'[x] = "ok"
  BY <1>2, <1>5, FactoryAddEffect DEF IInv
<1>7. CompiledSound'
  BY <1>5, <1>6, MarksStay
<1>8. TypeOK'
  BY <1>2, <1>4, <1>5, <1>6 DEF IInv, TypeOK
<1>9. ASSUME NEW w \in Threads, pc'[w] = "walk" PROVE Complete(w)'
  <2>1. CASE w # t
    BY <2>1, <1>5, <1>6, <1>9, OthersWalk DEF IInv, TypeOK
  <2>2. CASE w = t
    <3>1. seen'[t] = seen[t] \cup {x} /\ root'[t] = root[t]
      BY <1>5 DEF IInv, TypeOK
    <3>2. Frontier(t)' = Frontier(t) \cup FieldTypes(x)
      <4>1. todo'[t] = Fields[x] \o Tail(todo[t])
        BY <1>5 DEF IInv, TypeOK
      <4> QED BY <3>1, <4>1, <1>2, <1>4 DEF Frontier
    <3>3. Complete(t)
      BY <1>5 DEF IInv, WalkComplete
    <3>4. root[t] \in Types /\ x \in Reach[root[t]]
      BY <1>2, <1>5, <3>3 DEF Complete, Frontier, IInv, TypeOK
    <3>5. FieldTypes(x) \subseteq Reach[root[t]]
      BY <3>4, ReachField
    <3>6. seen[t] \subseteq Types
      BY DEF IInv, TypeOK
    <3> QED BY <2>2, <3>1, <3>2, <3>3, <3>5, <3>6, <1>6 DEF Complete
  <2> QED BY <2>1, <2>2
<1> QED BY <1>6, <1>7, <1>8, <1>9 DEF IInv, WalkComplete

LEMMA FailIInv ==
  ASSUME IInv, NEW t \in Threads, Fail(t)
  PROVE  IInv'
<1>1. Head(todo[t]) \in Types
  BY RangeHeadTail DEF Fail, IInv, TypeOK
<1>2. FactoryAdd(Head(todo[t]), FALSE, cache') /\ Reply(t, FALSE)
      /\ compiled' = compiled /\ pc[t] = "walk"
  BY DEF Fail
<1>3. /\ cache' \in [Types -> {"none", "ok", "bad"}]
      /\ CacheOwn'
      /\ \A u \in Types : cache[u] = "ok" => cache'[u] = "ok"
  BY <1>1, <1>2, FactoryAddEffect DEF IInv
<1>4. CompiledSound'
  BY <1>2, <1>3, MarksStay
<1>5. TypeOK'
  BY <1>2, <1>3, ReplyType DEF IInv, TypeOK
<1>6. WalkComplete'
  BY <1>2, <1>3, ReplyWalk
<1> QED BY <1>3, <1>4, <1>5, <1>6 DEF IInv

LEMMA MarkIInv ==
  ASSUME IInv, NEW t \in Threads, Mark(t)
  PROVE  IInv'
<1>1. root[t] \in Types /\ \A u \in Reach[root[t]] : cache[u] = "ok"
  BY WalkEnd DEF Mark
<1>2. CompiledSound' /\ CacheOwn'
  BY <1>1 DEF Mark, IInv, CompiledSound, CacheOwn
<1>3. compiled' \subseteq Types /\ cache' = cache /\ Reply(t, TRUE)
  BY <1>1 DEF Mark, IInv, TypeOK
<1>4. TypeOK'
  BY <1>3, ReplyType DEF Mark, IInv, TypeOK
<1>5. WalkComplete'
  BY <1>3, ReplyWalk
<1> QED BY <1>2, <1>4, <1>5 DEF IInv

LEMMA LazyAddIInv ==
  ASSUME IInv, LazyAdd
  PROVE  IInv'
<1>1. PICK x \in Types, ok \in BOOLEAN : FactoryAdd(x, ok, cache')
  BY DEF LazyAdd
<1>2. /\ cache' \in [Types -> {"none", "ok", "bad"}]
      /\ CacheOwn'
      /\ \A u \in Types : cache[u] = "ok" => cache'[u] = "ok"
  BY <1>1, FactoryAddEffect DEF IInv
<1>3. CompiledSound'
  BY <1>2, MarksStay DEF LazyAdd
<1>4. TypeOK'
  BY <1>2 DEF LazyAdd, IInv, TypeOK
<1>5. WalkComplete'
  BY <1>2, OthersWalk DEF LazyAdd, WalkComplete
<1> QED BY <1>2, <1>3, <1>4, <1>5 DEF IInv

LEMMA NextIInv == IInv /\ [Next]_vars => IInv'
<1> SUFFICES ASSUME IInv, [Next]_vars PROVE IInv'
  OBVIOUS
<1>1. ASSUME NEW t \in Threads, Step(t) PROVE IInv'
  BY <1>1, LookupIInv, SkipSeenIInv, VisitIInv, FailIInv, MarkIInv DEF Step
<1>2. ASSUME NEW t \in Threads, NEW x \in Types, Call(t, x) PROVE IInv'
  BY <1>2, CallIInv
<1>3. CASE LazyAdd
  BY <1>3, LazyAddIInv
<1>4. CASE UNCHANGED vars
  BY <1>4 DEF vars, IInv, TypeOK, CacheOwn, CompiledSound, WalkComplete,
              Complete, Frontier
<1> QED BY <1>1, <1>2, <1>3, <1>4 DEF Next

LEMMA Invariance == Spec => []IInv
  BY InitIInv, NextIInv, PTL DEF Spec

-----------------------------------------------------------------------------
(* Theorems.                                                               *)

\* The variables of EnsureCompiled keep their types.
THEOREM TypeCorrect == Spec => []TypeOK
  BY Invariance, PTL DEF IInv

\* `compiled` holds only types whose reachable rules are all cached clean.
THEOREM MarksAreSound == Spec => []CompiledSound
  BY Invariance, PTL DEF IInv

\* No walk of CompileRules loses a nested type, whatever other threads do.
THEOREM WalksAreComplete == Spec => []WalkComplete
  BY Invariance, PTL DEF IInv

-----------------------------------------------------------------------------
(* Implementation of CompileOracle.                                        *)

LEMMA SameVerdict == \A x \in Types : Oracle!RulesOk(x) = RulesOk(x)
  BY DEF Oracle!RulesOk, RulesOk, Oracle!Reach, Reach, Oracle!Closed, Closed,
         Oracle!FieldTypes, FieldTypes, Oracle!Range, Range

\* A reply that states the schema's verdict is the oracle's answer.
LEMMA ReplyAnswers ==
  ASSUME IInv, NEW t \in Threads, pc[t] # "idle", NEW ok \in BOOLEAN,
         Reply(t, ok), ok = RulesOk(root[t]),
         compiled' = IF ok THEN compiled \cup {root[t]} ELSE compiled
  PROVE  Oracle!Answer(t)
<1>1. root[t] \in Types /\ root[t] # NoType
  BY NoTypeAssumption DEF IInv, TypeOK
<1> QED BY <1>1, SameVerdict DEF Reply, Oracle!Answer

LEMMA StepAnswers ==
  ASSUME IInv, NEW t \in Threads, Step(t)
  PROVE  Oracle!Answer(t) \/ UNCHANGED Oracle!ovars
<1>1. CASE Lookup(t)
  <2>1. CASE root[t] \in compiled
    <3>1. RulesOk(root[t])
      BY <2>1, CleanIsOk DEF IInv, TypeOK, CompiledSound
    <3>2. Reply(t, TRUE) /\ compiled' = compiled \cup {root[t]}
      BY <1>1, <2>1 DEF Lookup
    <3>3. pc[t] # "idle" /\ TRUE = RulesOk(root[t])
      BY <1>1, <3>1 DEF Lookup, RulesOk
    <3> QED BY <3>2, <3>3, ReplyAnswers
  <2>2. CASE root[t] \notin compiled
    BY <1>1, <2>2 DEF Lookup, Oracle!ovars
  <2> QED BY <2>1, <2>2
<1>2. CASE SkipSeen(t)
  BY <1>2 DEF SkipSeen, Oracle!ovars
<1>3. CASE Visit(t)
  BY <1>3 DEF Visit, Oracle!ovars
<1>4. CASE Fail(t)
  <2> DEFINE x == Head(todo[t])
  <2>1. x \in Types /\ Range(todo[t]) = {x} \cup Range(Tail(todo[t]))
    BY <1>4, RangeHeadTail DEF Fail, IInv, TypeOK
  <2>2. FactoryAdd(x, FALSE, cache') /\ Reply(t, FALSE) /\ compiled' = compiled
        /\ pc[t] = "walk"
    BY <1>4 DEF Fail
  <2> HIDE DEF x
  <2>3. ~RulesOk(x)
    BY <2>1, <2>2, FactoryAddEffect DEF IInv
  <2>4. root[t] \in Types /\ x \in Reach[root[t]]
    BY <2>1, <2>2 DEF IInv, TypeOK, WalkComplete, Complete, Frontier
  <2>5. ~RulesOk(root[t])
    BY <2>3, <2>4, ReachTransitive DEF RulesOk
  <2> QED BY <2>2, <2>5, ReplyAnswers DEF RulesOk
<1>5. CASE Mark(t)
  <2>1. RulesOk(root[t])
    BY <1>5, WalkEnd, CleanIsOk DEF Mark, IInv
  <2> QED BY <1>5, <2>1, ReplyAnswers DEF Mark, RulesOk
<1> QED BY <1>1, <1>2, <1>3, <1>4, <1>5 DEF Step

LEMMA NextRefines == IInv /\ [Next]_vars => [Oracle!Next]_(Oracle!ovars)
<1> SUFFICES ASSUME IInv, [Next]_vars PROVE [Oracle!Next]_(Oracle!ovars)
  OBVIOUS
<1>1. ASSUME NEW t \in Threads, Step(t) PROVE [Oracle!Next]_(Oracle!ovars)
  BY <1>1, StepAnswers DEF Oracle!Next
<1>2. ASSUME NEW t \in Threads, NEW x \in Types, Call(t, x)
      PROVE  [Oracle!Next]_(Oracle!ovars)
  BY <1>2 DEF Call, IInv, TypeOK, Oracle!Ask, Oracle!Next
<1>3. CASE LazyAdd
  BY <1>3 DEF LazyAdd, Oracle!ovars
<1>4. CASE UNCHANGED vars
  BY <1>4 DEF vars, Oracle!ovars
<1> QED BY <1>1, <1>2, <1>3, <1>4 DEF Next

\* EnsureCompiled, called by many threads and disturbed by lazy compilation,
\* answers every call as the schema alone decides.
THEOREM RefinesOracle == Spec => ImplementsOracle
<1>1. Init => Oracle!Init
  BY DEF Init, Oracle!Init
<1> QED BY <1>1, NextRefines, Invariance, PTL DEF Spec, ImplementsOracle, Oracle!Spec
=============================================================================
