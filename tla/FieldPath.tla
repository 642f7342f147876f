------------------------------ MODULE FieldPath ------------------------------
(***************************************************************************)
(* Violation#field_value of lib/protovalidate/violation.rb: the walk along *)
(* the field path of a violation, through a message as google-protobuf     *)
(* shows it to Ruby, and what the path stands for when the engine makes it *)
(* up from a message.                                                      *)
(***************************************************************************)
EXTENDS Naturals, Sequences

CONSTANTS
  Fields,   \* Fields[T][f]: the descriptor of field f of message type T
  Oneofs,   \* Oneofs[T]: the names of its oneofs
  MaxDepth  \* bound: the longest path looked at

ASSUME FieldAssumption ==
  /\ \A T \in DOMAIN Fields :
       /\ Oneofs[T] \cap DOMAIN Fields[T] = {}
       /\ \A f \in DOMAIN Fields[T] :
            /\ Fields[T][f].number \in Nat \ {0}
            /\ Fields[T][f].label \in {"optional", "repeated", "map"}
       /\ \A f, g \in DOMAIN Fields[T] :
            Fields[T][f].number = Fields[T][g].number => f = g
  /\ MaxDepth \in Nat

(***************************************************************************)
(* Values.  A map's value has its entries as a function of the keys.       *)
(***************************************************************************)
Nil == [kind |-> "nil"]
Scalar(x) == [kind |-> "scalar", is |-> x]
Message(T, fields) == [kind |-> "message", type |-> T, fields |-> fields]
List(items) == [kind |-> "list", items |-> items]
Map(entries) == [kind |-> "map", entries |-> entries]

NoSubscript == [by |-> "none"]
Index(i) == [by |-> "index", at |-> i]
Key(k) == [by |-> "key", at |-> k]

Element(number, name, subscript) ==
  [field_number |-> number, field_name |-> name, subscript |-> subscript]

NoField == <<[by |-> "no field"]>>   \* of a violation of a rule of the message itself

-----------------------------------------------------------------------------
(* The walk.                                                               *)

\* The field an element means: the one with its number, else the one with its name.
FieldsOf(value, element) ==
  IF value.kind # "message" THEN {}
  ELSE LET names == DOMAIN value.fields
           numbered == {f \in names : Fields[value.type][f].number = element.field_number}
       IN  IF numbered # {} THEN numbered ELSE {element.field_name} \cap names

\* Mutation: elements counted from one.
SubscriptedFromOne(value, subscript) ==
  CASE subscript.by = "none"  -> value
    [] subscript.by = "index" ->
         IF subscript.at \in DOMAIN value.items THEN value.items[subscript.at] ELSE Nil
    [] subscript.by = "key" ->
         IF subscript.at \in DOMAIN value.entries THEN value.entries[subscript.at] ELSE Nil

Subscripted(value, subscript) ==
  CASE subscript.by = "none"  -> value
    [] subscript.by = "index" ->
         IF subscript.at + 1 \in DOMAIN value.items THEN value.items[subscript.at + 1] ELSE Nil
    [] subscript.by = "key" ->
         IF subscript.at \in DOMAIN value.entries THEN value.entries[subscript.at] ELSE Nil

\* One turn of the loop; nil, once met, is no message and stays nil.
Into(value, element) ==
  LET fields == FieldsOf(value, element) IN
  IF fields = {} THEN Nil
  ELSE Subscripted(value.fields[CHOOSE f \in fields : TRUE], element.subscript)

\* The values along path: the one the loop starts with, and those after each turn.
Along(path, source) ==
  LET value[i \in 0 .. Len(path)] ==
        IF i = 0 THEN source ELSE Into(value[i - 1], path[i])
  IN  value

\* Mutation: `return key if for_key?`.
FieldValueAnyKey(violation, source) ==
  LET path == violation.field
      keyed == {i \in DOMAIN path : path[i].subscript.by # "none"}
      first == CHOOSE i \in keyed : \A j \in keyed : i <= j
  IN  IF path = NoField THEN Nil
      ELSE IF violation.for_key /\ keyed # {} THEN Scalar(path[first].subscript.at)
           ELSE Along(path, source)[Len(path)]

FieldValue(violation, source) ==
  LET path == violation.field
      n == Len(path)
      value == Along(path, source)
  IN  IF path = NoField THEN Nil
      ELSE IF violation.for_key /\ path[n].subscript.by # "none"
           THEN IF FieldsOf(value[n - 1], path[n]) = {} THEN Nil
                ELSE Scalar(path[n].subscript.at)
           ELSE value[n]

-----------------------------------------------------------------------------
(* What the engine's paths stand for: a reference for the walk, made along *)
(* the message and not along a path.                                       *)

\* value at field f of a message, with the element the engine makes up for it.
Part(message, f, subscript, value) ==
  [element |-> Element(Fields[message.type][f].number, f, subscript), value |-> value]

Holding(message, kind) ==
  {f \in DOMAIN message.fields : message.fields[f].kind = kind}

\* All that is directly below a value: fields, items, entries, and oneofs.
Parts(value) ==
  IF value.kind # "message" THEN {}
  ELSE {Part(value, f, NoSubscript, value.fields[f]) : f \in DOMAIN value.fields}
       \cup (UNION {{Part(value, f, Index(i - 1), value.fields[f].items[i]) :
                       i \in DOMAIN value.fields[f].items} : f \in Holding(value, "list")})
       \cup (UNION {{Part(value, f, Key(k), value.fields[f].entries[k]) :
                       k \in DOMAIN value.fields[f].entries} : f \in Holding(value, "map")})
       \cup {[element |-> Element(0, o, NoSubscript), value |-> Nil] :
               o \in Oneofs[value.type]}

\* The keys of its maps, each with the element of its entry.
Keys(value) ==
  IF value.kind # "message" THEN {}
  ELSE UNION {{Part(value, f, Key(k), Scalar(k)) :
                k \in DOMAIN value.fields[f].entries} : f \in Holding(value, "map")}

Onward(spot, part) == [path |-> Append(spot.path, part.element), value |-> part.value]

Below(spots) == UNION {{Onward(s, p) : p \in Parts(s.value)} : s \in spots}

\* Spots(message)[n]: the paths of length n in it, and the values they lead to.
Spots(message) ==
  LET at[n \in 0 .. MaxDepth] ==
        IF n = 0 THEN {[path |-> <<>>, value |-> message]} ELSE Below(at[n - 1])
  IN  at

Place(spot, forKey) == [field |-> spot.path, for_key |-> forKey, value |-> spot.value]

\* All that a rule can be about, with the value that may violate it: a message or
\* what is in it, the keys of a map, and the message itself, which has no field.
Violable(message) ==
  {Place(s, FALSE) : s \in UNION {Spots(message)[n] : n \in 1 .. MaxDepth}}
  \cup (UNION {{Place(Onward(s, k), TRUE) : k \in Keys(s.value)} :
                 s \in UNION {Spots(message)[n] : n \in 0 .. MaxDepth - 1}})
  \cup {[field |-> NoField, for_key |-> FALSE, value |-> Nil]}

AsViolation(place) == [field |-> place.field, for_key |-> place.for_key]

\* Messages have the fields of their types, of the kinds declared.
Fits(value, type) ==
  IF value.kind = "message" THEN value.type = type ELSE value.kind \in {"nil", "scalar"}

Typed(message) ==
  /\ message.type \in DOMAIN Fields
  /\ DOMAIN message.fields = DOMAIN Fields[message.type]
  /\ \A f \in DOMAIN message.fields :
       LET value == message.fields[f]
           declared == Fields[message.type][f]
       IN  CASE declared.label = "optional" -> Fits(value, declared.type)
             [] declared.label = "repeated" ->
                  /\ value.kind = "list"
                  /\ \A i \in DOMAIN value.items : i \in Nat /\ Fits(value.items[i], declared.type)
             [] declared.label = "map" ->
                  /\ value.kind = "map"
                  /\ \A k \in DOMAIN value.entries : Fits(value.entries[k], declared.type)

\* google-protobuf lets no other values into a message.
WellTyped(message) ==
  /\ message.kind = "message"
  /\ \A n \in 0 .. MaxDepth : \A s \in Spots(message)[n] :
       s.value.kind = "message" => Typed(s.value)
=============================================================================
