--------------------------- MODULE SharedValidator ---------------------------
(***************************************************************************)
(* The module functions of lib/protovalidate.rb: the validator they share, *)
(* created by the first call under DEFAULT_VALIDATOR_LOCK and read without *)
(* it, and the calls handed on to it.  A constructor may fail, exceptions  *)
(* arrive from other threads, and the process may fork.                    *)
(*                                                                         *)
(* A validator is the set of classes registered with it: module Validator  *)
(* has what goes on inside.                                                *)
(***************************************************************************)
CONSTANTS
  Threads, NoThread,
  Validators, NoValidator,   \* Validator objects
  Classes,
  Calls, NoCall,             \* a call is the set of classes it resolves
  Forkers                    \* the threads that call fork

ASSUME SharedAssumption ==
  /\ NoThread \notin Threads
  /\ NoValidator \notin Validators
  /\ Calls \subseteq SUBSET Classes
  /\ NoCall \notin Calls
  /\ Forkers \subseteq Threads

VARIABLES
  validator,   \* @validator, or NoValidator for nil
  lock,        \* the thread that holds DEFAULT_VALIDATOR_LOCK, or NoThread
  registered,  \* registered[v]: the classes registered with v
  pc,          \* pc[t]: where t is, "idle" between calls
  asked,       \* asked[t]: the call t is in, or NoCall
  mine,        \* mine[t]: the validator t's call has got hold of
  ended,       \* ended[t]: how t's last call ended, "none" until it has
  lost         \* in a forked child, the threads that exist no longer

vars == <<validator, lock, registered, pc, asked, mine, ended, lost>>

Init ==
  /\ validator = NoValidator
  /\ lock = NoThread
  /\ registered = [v \in Validators |-> {}]
  /\ pc = [t \in Threads |-> "idle"]
  /\ asked = [t \in Threads |-> NoCall]
  /\ mine = [t \in Threads |-> NoValidator]
  /\ ended = [t \in Threads |-> "none"]
  /\ lost = {}

At(t, place) == t \notin lost /\ pc[t] = place

Goto(t, place) == pc' = [pc EXCEPT ![t] = place]

\* `synchronize` unlocks, however its block is left.
Unlock(t) == lock' = IF lock = t THEN NoThread ELSE lock

-----------------------------------------------------------------------------
(* validator                                                               *)

\* A call begins and reads @validator.
Read(t) ==
  /\ At(t, "idle")
  /\ \E c \in Calls : asked' = [asked EXCEPT ![t] = c]
  /\ ended' = [ended EXCEPT ![t] = "none"]
  /\ mine' = [mine EXCEPT ![t] = validator]
  /\ Goto(t, IF validator = NoValidator THEN "acquire" ELSE "delegate")
  /\ UNCHANGED <<validator, lock, registered, lost>>

\* Mutation: no `synchronize`.
AcquireNothing(t) ==
  /\ At(t, "acquire")
  /\ Goto(t, "recheck")
  /\ UNCHANGED <<validator, lock, registered, asked, mine, ended, lost>>

Acquire(t) ==
  /\ At(t, "acquire") /\ lock = NoThread
  /\ lock' = t
  /\ Goto(t, "recheck")
  /\ UNCHANGED <<validator, registered, asked, mine, ended, lost>>

\* Mutation: `=` for `||=`.
RecheckNothing(t) ==
  /\ At(t, "recheck")
  /\ Goto(t, "construct")
  /\ UNCHANGED <<validator, lock, registered, asked, mine, ended, lost>>

\* `||=` reads @validator once more.
Recheck(t) ==
  /\ At(t, "recheck")
  /\ IF validator = NoValidator
     THEN Goto(t, "construct") /\ UNCHANGED <<lock, mine>>
     ELSE /\ mine' = [mine EXCEPT ![t] = validator]
          /\ Unlock(t)
          /\ Goto(t, "delegate")
  /\ UNCHANGED <<validator, registered, asked, ended, lost>>

\* Objects nobody refers to are as good as new.
Fresh == Validators \ ({validator} \cup {mine[t] : t \in Threads})

\* Validator.new
Construct(t) ==
  /\ At(t, "construct")
  /\ \E v \in Fresh :
       /\ mine' = [mine EXCEPT ![t] = v]
       /\ registered' = [registered EXCEPT ![v] = {}]
  /\ Goto(t, "assign")
  /\ UNCHANGED <<validator, lock, asked, ended, lost>>

Assign(t) ==
  /\ At(t, "assign")
  /\ validator' = mine[t]
  /\ Unlock(t)
  /\ Goto(t, "delegate")
  /\ UNCHANGED <<registered, asked, mine, ended, lost>>

-----------------------------------------------------------------------------
(* validate, collect_violations, register, register_all                    *)

\* Mutation: the lock kept when an exception leaves the block.
EndKeepsLock(t, how) ==
  /\ ended' = [ended EXCEPT ![t] = how]
  /\ asked' = [asked EXCEPT ![t] = NoCall]
  /\ mine' = [mine EXCEPT ![t] = NoValidator]
  /\ Goto(t, "idle")
  /\ UNCHANGED <<validator, lock, lost>>

End(t, how) ==
  /\ ended' = [ended EXCEPT ![t] = how]
  /\ asked' = [asked EXCEPT ![t] = NoCall]
  /\ mine' = [mine EXCEPT ![t] = NoValidator]
  /\ Unlock(t)
  /\ Goto(t, "idle")
  /\ UNCHANGED <<validator, lost>>

Register(v, S) == registered' = [registered EXCEPT ![v] = @ \cup S]

\* The call is handed on, and returns.
Delegate(t) ==
  /\ At(t, "delegate")
  /\ Register(mine[t], asked[t])
  /\ End(t, "ok")

\* It raises, of itself or because another thread says so; some classes may be
\* registered by then.
Raise(t) ==
  /\ At(t, "delegate")
  /\ \E S \in SUBSET asked[t] : Register(mine[t], S)
  /\ End(t, "raised")

\* Mutation: the exception is rescued in `validator`, and the call goes on with
\* nothing.
AbandonRescued(t) ==
  /\ t \notin lost
  /\ pc[t] \in {"acquire", "recheck", "construct", "assign"}
  /\ ended' = [ended EXCEPT ![t] = "raised"]
  /\ asked' = [asked EXCEPT ![t] = NoCall]
  /\ Unlock(t)
  /\ Goto(t, "delegate")
  /\ UNCHANGED <<validator, registered, mine, lost>>

\* An exception before that: Native::Engine.new fails, or another thread raises.
Abandon(t) ==
  /\ t \notin lost
  /\ pc[t] \in {"acquire", "recheck", "construct", "assign"}
  /\ End(t, "raised")
  /\ UNCHANGED registered

\* Process.fork: only t goes on in the child, and Ruby releases the mutexes of the
\* others.
Fork(t) ==
  /\ t \in Forkers /\ lost = {}
  /\ At(t, "idle")
  /\ lost' = Threads \ {t}
  /\ lock' = NoThread
  /\ UNCHANGED <<validator, registered, pc, asked, mine, ended>>

Step(t) ==
  \/ Acquire(t) \/ Recheck(t) \/ Construct(t) \/ Assign(t)
  \/ Delegate(t) \/ Raise(t)

Next == \E t \in Threads : Read(t) \/ Step(t) \/ Abandon(t) \/ Fork(t)

Spec == Init /\ [][Next]_vars

\* Ruby's scheduler and its mutexes are queues: a thread that can go on again and
\* again does.  Nothing says that calls are made, fail or fork.
FairSpec == Spec /\ \A t \in Threads : SF_vars(Step(t))

-----------------------------------------------------------------------------
(* Properties.                                                             *)

Creating == {"recheck", "construct", "assign"}

\* The variables have their types, and a call in progress has classes to resolve.
TypeOK ==
  /\ validator \in Validators \cup {NoValidator}
  /\ lock \in Threads \cup {NoThread}
  /\ registered \in [Validators -> SUBSET Classes]
  /\ pc \in [Threads -> Creating \cup {"idle", "acquire", "delegate"}]
  /\ asked \in [Threads -> Calls \cup {NoCall}]
  /\ mine \in [Threads -> Validators \cup {NoValidator}]
  /\ ended \in [Threads -> {"none", "ok", "raised"}]
  /\ lost \subseteq Threads
  /\ \A t \in Threads : pc[t] = "idle" <=> asked[t] = NoCall

\* "Returns the same validator every time": every call that has got through
\* `validator` has the one that all later calls will get, whichever constructor
\* failed or was left by an exception on the way.
OneForAll ==
  \A t \in Threads \ lost :
    pc[t] = "delegate" => mine[t] = validator /\ validator # NoValidator

Service ==
  INSTANCE SharedService WITH
    known <- IF validator = NoValidator THEN {} ELSE registered[validator]

\* All callers together see one validator that never forgets a class: what
\* register did at boot holds for every later call, in every thread and in
\* forked workers.
ServesAsOne == Service!Spec

\* Every call ends, though the first ones wait for the one that creates the
\* validator, and that one may fail, or be lost to a fork, with the lock held.
CallsReturn ==
  \A t \in Threads : pc[t] # "idle" ~> pc[t] = "idle" \/ t \in lost
=============================================================================
