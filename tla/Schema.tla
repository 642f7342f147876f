-------------------------------- MODULE Schema -------------------------------
(***************************************************************************)
(* The schema files the descriptors come from.  A file is a descriptor     *)
(* object: two descriptor pools may hold different files of one name, and  *)
(* the files linked into the extension may be older than their copies.     *)
(***************************************************************************)
EXTENDS TypeGraph

CONSTANTS
  Files,
  FileNames,
  NameOf,     \* NameOf[f]: the name of file f
  Imports,    \* Imports[f]: the names f imports, in order
  BadFiles,   \* files BuildFile rejects for what is in them
  Linked,     \* the files linked into the extension
  TypeNames,
  TypeName,   \* TypeName[d]: the full name of message type d
  Home,       \* Home[d]: the file that defines d
  Mismatched, \* types with a rule not of its field's type, an error of its own
  Payloads    \* messages: records [packed, result], the types packed inside the
              \* message's Anys and how the evaluation of its rules ends

Names(S) == {NameOf[f] : f \in S}

ImportNames(f) == Range(Imports[f])

\* Violations or none ("ok"), an error of a rule, a payload that does not parse
\* as the type, any other status.
Verdicts == {"ok", "runtime", "argument", "unexpected"}

ASSUME SchemaAssumption ==
  /\ NameOf \in [Files -> FileNames]
  /\ Imports \in [Files -> Seq(FileNames)]
  /\ BadFiles \subseteq Files
  /\ Linked \subseteq Files \ BadFiles
  /\ \A f \in Linked : ImportNames(f) \subseteq Names(Linked)
  /\ TypeName \in [Types -> TypeNames]
  /\ Home \in [Types -> Files]
  /\ \A d, e \in Types :
       /\ TypeName[d] = TypeName[e]
       /\ Home[d] = Home[e] \/ {Home[d], Home[e]} \subseteq Linked
       => d = e
  /\ Mismatched \subseteq Types \ Good
  /\ Payloads \subseteq [packed : SUBSET Types, result : Verdicts]
=============================================================================
