------------------------------ MODULE TypeGraph ------------------------------
(***************************************************************************)
(* The message types of a schema as the engine's rule compiler sees them:  *)
(* a directed graph, possibly cyclic, whose edges are the message-typed    *)
(* fields of a descriptor in declaration order.                            *)
(***************************************************************************)
EXTENDS Sequences, Functions

CONSTANTS
  Types,    \* message types (descriptors)
  Fields,   \* Fields[d]: the types of d's message-typed fields, in order
  Good      \* types whose own rules compile

ASSUME TypeGraphAssumption ==
  /\ Fields \in [Types -> Seq(Types)]
  /\ Good \subseteq Types

FieldTypes(d) == Range(Fields[d])

Closed(S) == \A d \in S : FieldTypes(d) \subseteq S

\* Reach[d]: the types reachable from d through fields, d included.
Reach ==
  [d \in Types |->
    {u \in Types : \A S \in SUBSET Types : d \in S /\ Closed(S) => u \in S}]

\* What the compiler must answer for d, whatever happened before.
RulesOk(d) == Reach[d] \subseteq Good
=============================================================================
