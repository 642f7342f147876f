-------------------------- MODULE MCExtractSources ---------------------------
(***************************************************************************)
(* Two releases of protovalidate-cc, the second also with an override that *)
(* moves cel-cpp; a release whose archive has no checksum.  The first      *)
(* release generates a source and a header that the second does not.       *)
(***************************************************************************)
EXTENDS ExtractSources, TLC

CONSTANTS r1, r2, o1, o2, cc, cel, common, oldcc, oldh, v1, v2

MCConfigs ==
  {[build |-> [ref |-> r1, overrides |-> o1], pinned |-> TRUE],
   [build |-> [ref |-> r2, overrides |-> o1], pinned |-> TRUE],
   [build |-> [ref |-> r2, overrides |-> o2], pinned |-> TRUE],
   [build |-> [ref |-> r1, overrides |-> o1], pinned |-> FALSE]}
MCPin ==
  [b \in Builds |->
    [s \in Modules |-> IF s = Main THEN b.ref ELSE <<b.ref, b.overrides>>]]
MCNames == {common, oldcc, oldh}
MCGenOf == [b \in Builds |-> IF b.ref = r1 THEN MCNames ELSE {common}]
MCVersion == [b \in Builds |-> IF b.ref = r1 THEN v1 ELSE v2]

MCPlaces ==
  {"prepare", "remove", "fetch", "verify", "unpack", "stamp", "overrides", "relock",
   "probe", "check", "sync", "generate", "prune", "lists"}
=============================================================================
