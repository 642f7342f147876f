--------------------------- MODULE ForkedValidator ---------------------------
(***************************************************************************)
(* A process that serves with a Validator and forks, as README.md has it   *)
(* when it says to register "before the server forks workers".  Of the     *)
(* child's threads only the one that called fork goes on.  Ruby releases   *)
(* the mutexes the others held; native locks they held stay locked.        *)
(*                                                                         *)
(* From the fork on, this module follows the child.  The threads it has    *)
(* lost stay where they were, their guards of the RwLock with them.        *)
(***************************************************************************)
EXTENDS Validator

CONSTANT Forkers   \* the threads that call fork

ASSUME ForkAssumption == Forkers \subseteq Threads

VARIABLES
  lost,   \* in a child, the threads that exist no longer; {} before the fork
  inner   \* what they left of compiled_mutex and of the factory's own mutex:
          \* "free", "shared" or "exclusive"

forkVars == <<vars, lost, inner>>

ForkInit == Init /\ lost = {} /\ inner = "free"

\* u takes the inner mutexes for itself sooner or later: it has rules to compile.
Compiles(u) ==
  \/ at[u] \in {"ensuring", "compiling"} /\ ~(Find(arg[u]) \subseteq compiled)
  \/ /\ at[u] = "evaluating"
     /\ \E d \in message[u].packed : Home[d] \in built /\ d \notin ruled

\* Mutation: compiled_mutex not shared by those who only look.
InnerLocksOfPlainMutex(u) ==
  {"free"} \cup {"exclusive" : x \in {at[u]} \cap {"ensuring", "compiling"}}

InnerLocksOf(u) ==
  {"free"}
  \cup {"shared" : x \in {at[u]} \cap {"ensuring", "compiling", "evaluating"}}
  \cup {"exclusive" : x \in {y \in {u} : Compiles(y)}}

\* Process.fork.  (A child's own children find no other thread to lose.)
Fork(t) ==
  /\ t \in Forkers /\ lost = {}
  /\ At(t, "idle")
  /\ lost' = Threads \ {t}
  /\ inner' \in UNION {InnerLocksOf(u) : u \in Threads}
  /\ owner' = NoThread
  /\ UNCHANGED <<engineVars, types, registered, rubyLocal>>

\* The inner mutexes let t on: to look at `compiled` and at the factory's map
\* it shares them, to compile it has them alone.
InnerLocksAllow(t) ==
  /\ at[t] \in {"ensuring", "compiling", "evaluating"} => inner # "exclusive"
  /\ at[t] \in {"ensuring", "compiling"} /\ Compiles(t) => inner = "free"
  /\ ruled' # ruled => inner = "free"

ForkedStep(t) ==
  /\ t \notin lost
  /\ Step(t)
  /\ InnerLocksAllow(t)
  /\ UNCHANGED <<lost, inner>>

Begin(t) ==
  /\ t \notin lost
  /\ Call(t) \/ Interrupt(t)
  /\ UNCHANGED <<lost, inner>>

ForkNext == \E t \in Threads : Begin(t) \/ ForkedStep(t) \/ Fork(t)

ForkSpec == ForkInit /\ [][ForkNext]_forkVars

\* The Ruby and the OS scheduler, the mutex and the RwLock let every thread there
\* is go on when it is able to again and again.
FairForkSpec == ForkSpec /\ \A t \in Threads : SF_forkVars(ForkedStep(t))

-----------------------------------------------------------------------------
(* Properties.                                                             *)

\* The fork caught nobody with a native lock or queueing for one as a writer.
\* (A reader that queues leaves no trace: only a writer keeps others out.)
Clean ==
  \A u \in lost : at[u] \notin {"compile", "compiling", "ensuring", "evaluating"}

\* The fork caught at most validations of types compiled before, with nothing in
\* their Anys that was not.
Prepared ==
  \A u \in lost : at[u] \notin {"compile", "compiling"} /\ ~Compiles(u)

\* What a child has to wait for, a thread of its own has: nobody it lost owns the
\* mutex or the GVL; nor, if they were prepared, a lock that keeps it from
\* evaluating what is compiled; nor, if the fork was clean, any lock at all.
NotShutOut ==
  lost # {} =>
    /\ {owner, gvl} \cap lost = {}
    /\ Prepared => writer \notin lost /\ inner # "exclusive"
    /\ Clean => readers \cap lost = {} /\ inner = "free"

\* Every call ends, though a thread may wait for the mutex, the RwLock and the
\* GVL while others hold them; in a child too, when the fork was clean, whatever
\* the lost threads had half registered.
EveryCallReturns ==
  \A t \in Threads :
    pc[t] # "idle" ~> pc[t] = "idle" \/ t \in lost \/ ~Clean

\* README.md: register before the server forks workers.  Then a fork in the middle
\* of other threads' validations leaves the RwLock read-locked for ever, and a
\* child validates the classes it finds registered all the same.
RegisteredServeInChild ==
  \A t \in Threads :
    /\ lost # {} /\ Prepared /\ t \notin lost
    /\ pc[t] = "resolve" /\ asked[t].op = "validate"
    /\ Class(t) \in types /\ asked[t].payload.packed \subseteq ruled
    ~> pc[t] = "idle"
=============================================================================
