------------------------------ MODULE Validator ------------------------------
(***************************************************************************)
(* Protovalidate::Validator of lib/protovalidate/validator.rb, shared by   *)
(* Ruby threads, on top of NativeEngine.                                   *)
(*                                                                         *)
(* A call resolves each of its classes: a registered class by one lookup   *)
(* in @types and no lock; any other by register_class, which adds the      *)
(* file and its imports to the engine, compiles the type and publishes the *)
(* class, all with the @registration mutex.  An exception may arrive from  *)
(* another thread (Thread#raise, Timeout) wherever Ruby code runs.         *)
(***************************************************************************)
EXTENDS NativeEngine, Catalog

CONSTANT NoCall

ASSUME NoCallAssumption == NoCall \notin Calls

VARIABLES
  types,       \* @types: the classes published
  registered,  \* @registered_files
  owner,       \* the thread that holds @registration, or NoThread
  pc,          \* pc[t]: where t is in the Ruby code
  asked,       \* asked[t]: the call t is in
  rest,        \* rest[t]: its classes not resolved yet
  frames,      \* frames[t]: register_file's activations, innermost first:
               \* the file, and the imports it has still to go through
  snapshot,    \* snapshot[t]: @types.dup
  outcome      \* outcome[t]: how t's last call ended, "none" until it has

rubyShared == <<types, registered, owner>>
rubyLocal == <<pc, asked, rest, frames, snapshot, outcome>>
vars == <<engineVars, rubyShared, rubyLocal>>

Init ==
  /\ EngineInit
  /\ types = {}
  /\ registered = {}
  /\ owner = NoThread
  /\ pc = [t \in Threads |-> "idle"]
  /\ asked = [t \in Threads |-> NoCall]
  /\ rest = [t \in Threads |-> <<>>]
  /\ frames = [t \in Threads |-> <<>>]
  /\ snapshot = [t \in Threads |-> {}]
  /\ outcome = [t \in Threads |-> "none"]

\* A step of Ruby code by t, at `place`.
At(t, place) == HasGVL(t) /\ pc[t] = place

Goto(t, place) == pc' = [pc EXCEPT ![t] = place]

SkipsUnknown(t) == asked[t].op = "register_all"

\* Mutation: no `ensure` around the unlock.
FinishKeepsLock(t, o) ==
  /\ outcome' = [outcome EXCEPT ![t] = o]
  /\ Goto(t, "idle")
  /\ asked' = [asked EXCEPT ![t] = NoCall]
  /\ rest' = [rest EXCEPT ![t] = <<>>]
  /\ frames' = [frames EXCEPT ![t] = <<>>]
  /\ snapshot' = [snapshot EXCEPT ![t] = {}]
  /\ UNCHANGED owner

\* The call is over; `synchronize` unlocks the mutex on the way out.
Finish(t, o) ==
  /\ outcome' = [outcome EXCEPT ![t] = o]
  /\ Goto(t, "idle")
  /\ asked' = [asked EXCEPT ![t] = NoCall]
  /\ rest' = [rest EXCEPT ![t] = <<>>]
  /\ frames' = [frames EXCEPT ![t] = <<>>]
  /\ snapshot' = [snapshot EXCEPT ![t] = {}]
  /\ owner' = IF owner = t THEN NoThread ELSE owner

\* Mutation: the block of `synchronize` left by a jump past the unlock.
ResolvedKeepsLock(t) ==
  /\ IF asked[t].op = "validate"
     THEN Goto(t, "validate") /\ UNCHANGED rest
     ELSE Goto(t, "resolve") /\ rest' = [rest EXCEPT ![t] = Tail(@)]
  /\ frames' = [frames EXCEPT ![t] = <<>>]
  /\ snapshot' = [snapshot EXCEPT ![t] = {}]
  /\ UNCHANGED <<owner, asked, outcome>>

\* The class is resolved: a message is validated next, or the next class
\* registered.
Resolved(t) ==
  /\ IF asked[t].op = "validate"
     THEN Goto(t, "validate") /\ UNCHANGED rest
     ELSE Goto(t, "resolve") /\ rest' = [rest EXCEPT ![t] = Tail(@)]
  /\ frames' = [frames EXCEPT ![t] = <<>>]
  /\ snapshot' = [snapshot EXCEPT ![t] = {}]
  /\ owner' = IF owner = t THEN NoThread ELSE owner
  /\ UNCHANGED <<asked, outcome>>

Class(t) == Head(rest[t])
NameOfClass(t) == TypeName[Descriptor[Class(t)]]

-----------------------------------------------------------------------------
(* validate, collect_violations, register, register_all                    *)

Call(t) ==
  /\ At(t, "idle")
  /\ \E c \in Calls :
       /\ asked' = [asked EXCEPT ![t] = c]
       /\ rest' = [rest EXCEPT ![t] = ClassesOf(c)]
  /\ outcome' = [outcome EXCEPT ![t] = "none"]
  /\ Goto(t, "resolve")
  /\ UNCHANGED <<engineVars, rubyShared, frames, snapshot>>

AllRegistered(t) ==
  /\ At(t, "resolve") /\ rest[t] = <<>>
  /\ Finish(t, "ok")
  /\ UNCHANGED <<engineVars, types, registered>>

\* type_name_of: one lookup and no lock.  register_all has no such lookup.
FastPath(t) ==
  /\ At(t, "resolve") /\ rest[t] # <<>>
  /\ asked[t].op # "register_all"
  /\ Class(t) \in types
  /\ Resolved(t)
  /\ UNCHANGED <<engineVars, types, registered>>

SlowPath(t) ==
  /\ At(t, "resolve") /\ rest[t] # <<>>
  /\ asked[t].op = "register_all" \/ Class(t) \notin types
  /\ \/ /\ Class(t) \notin MessageClasses
        /\ Finish(t, "type_error")
     \/ /\ Class(t) \in MessageClasses
        /\ Goto(t, "acquire")
        /\ UNCHANGED <<owner, asked, rest, frames, snapshot, outcome>>
  /\ UNCHANGED <<engineVars, types, registered>>

-----------------------------------------------------------------------------
(* register_class                                                          *)

\* Mutation: no mutex.
AcquireAtOnce(t) ==
  /\ At(t, "acquire")
  /\ owner' = t
  /\ Goto(t, "recheck")
  /\ UNCHANGED <<engineVars, types, registered, asked, rest, frames, snapshot,
                 outcome>>

Acquire(t) ==
  /\ At(t, "acquire")
  /\ owner = NoThread
  /\ owner' = t
  /\ Goto(t, "recheck")
  /\ UNCHANGED <<engineVars, types, registered, asked, rest, frames, snapshot,
                 outcome>>

\* Another thread may have registered the class in the meantime.
Recheck(t) ==
  /\ At(t, "recheck")
  /\ IF Class(t) \in types
     THEN Resolved(t)
     ELSE /\ Goto(t, "files")
          /\ LET f == FileOf(Class(t)) IN
             frames' = [frames EXCEPT ![t] =
                          IF NameOf[f] \in registered THEN <<>>
                          ELSE <<[file |-> f, imports |-> Imports[f]]>>]
          /\ UNCHANGED <<owner, asked, rest, snapshot, outcome>>
  /\ UNCHANGED <<engineVars, types, registered>>

Top(t) == Head(frames[t])
Below(t) == Tail(frames[t])

\* Mutation: what the pool has for a name is not looked at.
ImportUnchecked(t) ==
  /\ At(t, "files") /\ frames[t] # <<>> /\ Top(t).imports # <<>>
  /\ LET n == Head(Top(t).imports)
         here == [Top(t) EXCEPT !.imports = Tail(@)]
         f == Pool[n]
         imports == IF f = NoFile THEN <<>> ELSE Imports[f]
     IN  frames' = [frames EXCEPT ![t] =
                      (IF n \in registered THEN <<>>
                       ELSE <<[file |-> f, imports |-> imports]>>)
                      \o <<here>> \o Below(t)]
  /\ UNCHANGED <<engineVars, types, registered, owner, pc, asked, rest, snapshot,
                 outcome>>

\* register_file goes through the imports of a file first, in the pool.
Import(t) ==
  /\ At(t, "files") /\ frames[t] # <<>> /\ Top(t).imports # <<>>
  /\ LET n == Head(Top(t).imports)
         here == [Top(t) EXCEPT !.imports = Tail(@)]
         f == Pool[n]
     IN  \/ /\ f = NoFile
            /\ Finish(t, "argument_error")
         \/ /\ f # NoFile
            /\ frames' = [frames EXCEPT ![t] =
                            (IF n \in registered THEN <<>>
                             ELSE <<[file |-> f, imports |-> Imports[f]]>>)
                            \o <<here>> \o Below(t)]
            /\ UNCHANGED <<owner, pc, asked, rest, snapshot, outcome>>
  /\ UNCHANGED <<engineVars, types, registered>>

\* Mutation: a file added before the files it imports.
AddEagerly(t) ==
  /\ At(t, "files") /\ frames[t] # <<>>
  /\ CallAddFile(t, Top(t).file)
  /\ Goto(t, "added")
  /\ UNCHANGED <<rubyShared, asked, rest, frames, snapshot, outcome>>

\* Mutation: the name recorded before the engine has the file.
AddRecordsFirst(t) ==
  /\ At(t, "files") /\ frames[t] # <<>> /\ Top(t).imports = <<>>
  /\ CallAddFile(t, Top(t).file)
  /\ registered' = registered \cup {NameOf[Top(t).file]}
  /\ Goto(t, "added")
  /\ UNCHANGED <<types, owner, asked, rest, frames, snapshot, outcome>>

Add(t) ==
  /\ At(t, "files") /\ frames[t] # <<>> /\ Top(t).imports = <<>>
  /\ CallAddFile(t, Top(t).file)
  /\ Goto(t, "added")
  /\ UNCHANGED <<rubyShared, asked, rest, frames, snapshot, outcome>>

\* Mutation: the first file added ends all of register_file.
AddedEndsAll(t) ==
  /\ At(t, "added")
  /\ \/ /\ ret[t] = "ok"
        /\ registered' = registered \cup {NameOf[Top(t).file]}
        /\ frames' = [frames EXCEPT ![t] = <<>>]
        /\ Goto(t, "files")
        /\ UNCHANGED <<owner, asked, rest, snapshot, outcome>>
     \/ /\ ret[t] = "argument"
        /\ Finish(t, "argument_error")
        /\ UNCHANGED registered
  /\ Discard(t)
  /\ UNCHANGED types

Added(t) ==
  /\ At(t, "added")
  /\ \/ /\ ret[t] = "ok"
        /\ registered' = registered \cup {NameOf[Top(t).file]}
        /\ frames' = [frames EXCEPT ![t] = Below(t)]
        /\ Goto(t, "files")
        /\ UNCHANGED <<owner, asked, rest, snapshot, outcome>>
     \/ /\ ret[t] = "argument"
        /\ Finish(t, "argument_error")
        /\ UNCHANGED registered
  /\ Discard(t)
  /\ UNCHANGED types

\* The files are in; register_all asks whether the engine sees the type.
AskKnown(t) ==
  /\ At(t, "files") /\ frames[t] = <<>> /\ SkipsUnknown(t)
  /\ CallMessageType(t, NameOfClass(t))
  /\ Goto(t, "known")
  /\ UNCHANGED <<rubyShared, asked, rest, frames, snapshot, outcome>>

SkipUnknown(t) ==
  /\ At(t, "known") /\ ret[t] = "no"
  /\ Resolved(t)
  /\ Discard(t)
  /\ UNCHANGED <<types, registered>>

CompileType(t) ==
  /\ \/ At(t, "files") /\ frames[t] = <<>> /\ ~SkipsUnknown(t)
     \/ At(t, "known") /\ ret[t] = "yes"
  /\ CallCompile(t, NameOfClass(t))
  /\ Goto(t, "compiled")
  /\ UNCHANGED <<rubyShared, asked, rest, frames, snapshot, outcome>>

\* Mutation: an error of compile is swallowed.
DupAnyway(t) ==
  /\ At(t, "compiled")
  /\ snapshot' = [snapshot EXCEPT ![t] = types]
  /\ Goto(t, "publish")
  /\ Discard(t)
  /\ UNCHANGED <<rubyShared, asked, rest, frames, outcome>>

\* @types.dup, then the copy is assigned to @types.
Dup(t) ==
  /\ At(t, "compiled")
  /\ \/ /\ ret[t] = "ok"
        /\ snapshot' = [snapshot EXCEPT ![t] = types]
        /\ Goto(t, "publish")
        /\ UNCHANGED <<owner, asked, rest, frames, outcome>>
     \/ ret[t] \in DOMAIN ErrorOf /\ Finish(t, ErrorOf[ret[t]])
  /\ Discard(t)
  /\ UNCHANGED <<types, registered>>

Publish(t) ==
  /\ At(t, "publish")
  /\ types' = snapshot[t] \cup {Class(t)}
  /\ Resolved(t)
  /\ UNCHANGED <<engineVars, registered>>

-----------------------------------------------------------------------------
(* collect_violations, once the type name is known                         *)

Validate(t) ==
  /\ At(t, "validate")
  /\ CallValidate(t, NameOfClass(t), asked[t].payload)
  /\ Goto(t, "validated")
  /\ UNCHANGED <<rubyShared, asked, rest, frames, snapshot, outcome>>

Validated(t) ==
  /\ At(t, "validated")
  /\ Finish(t, IF ret[t] = "ok" THEN "ok" ELSE ErrorOf[ret[t]])
  /\ Discard(t)
  /\ UNCHANGED <<types, registered>>

-----------------------------------------------------------------------------

\* An exception raised in t by another thread.
Interrupt(t) ==
  /\ HasGVL(t) /\ pc[t] # "idle"
  /\ Finish(t, "interrupted")
  /\ Discard(t)
  /\ UNCHANGED <<types, registered>>

Native(t) == EngineStep(t) /\ UNCHANGED <<rubyShared, rubyLocal>>

Step(t) ==
  \/ AllRegistered(t) \/ FastPath(t) \/ SlowPath(t)
  \/ Acquire(t) \/ Recheck(t)
  \/ Import(t) \/ Add(t) \/ Added(t)
  \/ AskKnown(t) \/ SkipUnknown(t) \/ CompileType(t)
  \/ Dup(t) \/ Publish(t)
  \/ Validate(t) \/ Validated(t)
  \/ Native(t)

Next == \E t \in Threads : Call(t) \/ Step(t) \/ Interrupt(t)

Spec == Init /\ [][Next]_vars

\* Ruby's scheduler and its mutex are queues.
FairSpec == Spec /\ \A t \in Threads : SF_vars(Step(t))

-----------------------------------------------------------------------------
(* Properties.                                                             *)

\* Places inside @registration.synchronize.
Synchronized ==
  {"recheck", "files", "added", "known", "compiled", "publish"}

\* The variables have their types; a thread has a call, a class to resolve and
\* activations of register_file exactly where the code has them.
TypeOK ==
  /\ EngineTypeOK
  /\ types \subseteq MessageClasses
  /\ registered \subseteq FileNames
  /\ owner \in Threads \cup {NoThread}
  /\ pc \in [Threads -> Synchronized \cup
                        {"idle", "resolve", "acquire", "validate", "validated"}]
  /\ asked \in [Threads -> Calls \cup {NoCall}]
  /\ rest \in [Threads -> Seq(Classes)]
  /\ frames \in [Threads -> Seq([file : Files, imports : Seq(FileNames)])]
  /\ snapshot \in [Threads -> SUBSET MessageClasses]
  /\ outcome \in [Threads -> Outcomes]
  /\ \A t \in Threads :
       /\ pc[t] = "idle" <=> asked[t] = NoCall
       /\ frames[t] # <<>> => pc[t] \in {"files", "added"}
       /\ pc[t] = "added" => frames[t] # <<>>
       /\ pc[t] \in Synchronized => rest[t] # <<>>

\* The mutex is held by the one thread inside `synchronize`, and only that
\* thread adds files and compiles: an exception never leaves it locked, a return
\* never leaves it early.
OneRegistrar ==
  \A t \in Threads :
    /\ owner = t <=> pc[t] \in Synchronized
    /\ at[t] \in {"add_file", "message_type", "compile", "compiling"}
         => owner = t

\* @registered_files never runs ahead of the engine, whatever failed or was
\* interrupted on the way: a file in it is in the engine's pool.
RegisteredAreBuilt == registered \subseteq BuiltNames

\* BuildFile is never asked for a file before the files it imports.
ImportsComeFirst ==
  \A t \in Threads : at[t] = "add_file" => ImportNames(arg[t]) \subseteq BuiltNames

\* A published class, all a lock-free reader looks at, stands for a type whose
\* rules are compiled; so validate never compiles the root type on demand.
PublishedAreCompiled ==
  /\ \A c \in types :
       Find(TypeName[Descriptor[c]]) # {} /\ Find(TypeName[Descriptor[c]]) \subseteq compiled
  /\ \A t \in Threads :
       at[t] \in {"validate", "ensuring"} => Find(arg[t]) # {} /\ Find(arg[t]) \subseteq compiled

\* No registration is lost to a copy of @types taken before it.
RegistrationsStay == [][types \subseteq types']_vars

\* While one thread evaluates rules no other thread changes the factory's map
\* of rules: what lib.rs takes the write lock in `compile` for.
RulesStillWhileHeld ==
  [][\A t \in Threads :
       at[t] = "evaluating" /\ UNCHANGED <<at[t], message[t]>> => ruled' = ruled]_vars

Service == INSTANCE ValidationService

\* Every call ends as the schema says, or interrupted.
ServesSchema == Service!Spec

\* Messages are validated against the rules of their schema.
OwnRules ==
  \A t \in Threads :
    at[t] = "evaluating" => Find(arg[t]) = Known(Descriptor[Class(t)])
=============================================================================
