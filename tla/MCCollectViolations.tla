------------------------ MODULE MCCollectViolations ------------------------
(***************************************************************************)
(* A person with a list of tags, a boss and a map of friends, who are      *)
(* persons too, and a oneof that is never set; three states of one such    *)
(* message.  One caller, one other thread.                                 *)
(***************************************************************************)
EXTENDS CollectViolations, TLC

CONSTANTS t1, t2, a1, a2, a3

Declared(number, label, type) == [number |-> number, label |-> label, type |-> type]

MCFields ==
  [person |-> [tags |-> Declared(1, "repeated", "string"),
               boss |-> Declared(2, "optional", "person"),
               friends |-> Declared(3, "map", "person")]]
MCOneofs == [person |-> {"contact"}]

Person(tags, boss, friends) ==
  Message("person", [tags |-> List(tags), boss |-> boss, friends |-> Map(friends)])

Ann == Person(<<Scalar("p")>>, Nil, [k \in {} |-> Nil])
Bob == Person(<<>>, Nil, "x" :> Ann)

MCContent ==
  [full |-> Person(<<Scalar("q"), Scalar("r")>>, Ann, "y" :> Bob),
   edited |-> Person(<<Scalar("r")>>, Nil, "x" :> Bob),
   bare |-> Ann]

Tags(subscript) == Element(1, "tags", subscript)
Boss == Element(2, "boss", NoSubscript)
Friends(k) == Element(3, "friends", Key(k))
Of(path) == [field |-> path, for_key |-> FALSE]
OfKey(path) == [field |-> path, for_key |-> TRUE]

MCDecoded ==
  [v1 |-> Of(NoField),
   v3 |-> Of(<<Tags(Index(0))>>),
   v4 |-> Of(<<Tags(Index(1))>>),
   v5 |-> Of(<<Boss>>),
   v7 |-> OfKey(<<Friends("y")>>),
   v8 |-> OfKey(<<Friends("y"), Friends("x")>>),
   v9 |-> Of(<<Friends("x"), Friends("x"), Tags(Index(0))>>),
   v10 |-> Of(<<Friends("x"), Element(0, "contact", NoSubscript)>>)]
MCOthersGet == {"accepted", "no_factory", "unbuildable_file", "bad_rules", "valid", "v1"}

\* Nothing in the messages lies deeper than the bound.
ASSUME DeepEnough ==
  \A m \in Messages : \A s \in Spots(Content[m])[MaxDepth] : s.value.kind # "message"

MCSymmetry == Permutations({a1, a2, a3})
=============================================================================
