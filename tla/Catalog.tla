------------------------------- MODULE Catalog -------------------------------
(***************************************************************************)
(* What a Protovalidate::Validator is asked about: the classes handed to   *)
(* it, the descriptor pool it was created with, and the calls made.        *)
(***************************************************************************)
EXTENDS Schema

CONSTANTS
  Classes,         \* everything passed as a class
  MessageClasses,  \* of these, the generated message classes
  Descriptor,      \* Descriptor[c]: klass.descriptor
  Pool,            \* Pool[n]: @descriptor_pool.lookup(n), or NoFile
  NoFile,
  Loaded,          \* MESSAGE_BASE.subclasses
  Calls            \* the calls made: records [op, classes, payload]

ASSUME CatalogAssumption ==
  /\ MessageClasses \subseteq Classes
  /\ Descriptor \in [MessageClasses -> Types]
  /\ NoFile \notin Files
  /\ Pool \in [FileNames -> Files \cup {NoFile}]
  /\ \A n \in FileNames : Pool[n] # NoFile => NameOf[Pool[n]] = n
  /\ Loaded \in Seq(MessageClasses)
  /\ Calls \subseteq [op : {"validate", "register", "register_all"},
                      classes : Seq(Classes), payload : Payloads]
  /\ \A c \in Calls : c.op = "validate" => Len(c.classes) = 1

FileOf(c) == Home[Descriptor[c]]

\* loaded_message_classes: of the subclasses, those whose very descriptor the
\* pool holds, in order.
InPool(c) == Pool[NameOf[FileOf(c)]] = FileOf(c)
Kept[n \in 0 .. Len(Loaded)] ==
  IF n = 0 THEN <<>>
  ELSE IF InPool(Loaded[n]) THEN Append(Kept[n - 1], Loaded[n]) ELSE Kept[n - 1]
LoadedMessageClasses == Kept[Len(Loaded)]

\* The classes a call goes through, in order.
ClassesOf(call) ==
  IF call.op = "register_all" THEN LoadedMessageClasses ELSE call.classes

\* to_ruby_error, by the status of the native call.
ErrorOf ==
  [argument |-> "argument_error", compilation |-> "compilation_error",
   runtime |-> "evaluation_error", unexpected |-> "error"]

Outcomes ==
  {"none", "ok", "type_error", "argument_error", "compilation_error",
   "evaluation_error", "error", "interrupted"}

-----------------------------------------------------------------------------
(* What the schema alone makes of a call.                                  *)

\* The files f needs: itself and, through the pool, what it imports.
Needs ==
  [f \in Files |->
    {g \in Files :
       \A S \in SUBSET Files :
         /\ f \in S
         /\ \A h \in S, n \in FileNames :
              n \in ImportNames(h) /\ Pool[n] # NoFile => Pool[n] \in S
         => g \in S}]

FileOk(f) ==
  \A g \in Needs[f] :
    /\ NameOf[g] \in Names(Linked) \/ g \notin BadFiles
    /\ \A n \in ImportNames(g) : Pool[n] # NoFile

\* The descriptor the extension has for d: its own, when it was linked in.
Known(d) ==
  IF NameOf[Home[d]] \in Names(Linked)
  THEN {e \in Types : TypeName[e] = TypeName[d] /\ Home[e] \in Linked}
  ELSE {d}

ClassOutcome(c, skip_unknown) ==
  IF c \notin MessageClasses THEN "type_error"
  ELSE IF ~FileOk(FileOf(c)) THEN "argument_error"
  ELSE IF Known(Descriptor[c]) = {}
       THEN IF skip_unknown THEN "ok" ELSE "argument_error"
  ELSE IF \A d \in Known(Descriptor[c]) : RulesOk(d) THEN "ok"
  ELSE "compilation_error"

\* How the evaluation of a message may end: as its rules have it, or with the
\* error of a type packed inside it whose rules do not compile.
EvaluationOutcomes(m) ==
  LET packed == UNION {Reach[d] : d \in m.packed}
  IN  {IF m.result = "ok" THEN "ok" ELSE ErrorOf[m.result]}
      \cup {"evaluation_error" : d \in packed \cap Mismatched}
      \cup {"compilation_error" : d \in packed \ (Good \cup Mismatched)}

\* The first class of a call that fails decides.
Expected ==
  [call \in Calls |->
    LET cs == ClassesOf(call)
        result(i) == ClassOutcome(cs[i], call.op = "register_all")
        failing == {i \in DOMAIN cs : result(i) # "ok"}
    IN  CASE failing # {} ->
               {result(CHOOSE i \in failing : \A j \in failing : i <= j)}
          [] failing = {} /\ call.op = "validate" ->
               EvaluationOutcomes(call.payload)
          [] failing = {} /\ call.op # "validate" -> {"ok"}]
=============================================================================
