------------------------ MODULE MCProtocolArtifacts ------------------------
(***************************************************************************)
(* Three releases of the binary: of the two notifications of "v1" the next *)
(* drops one and so refuses a registry that still names it, the last also  *)
(* drops a class that the handwritten modules import.                      *)
(***************************************************************************)
EXTENDS ProtocolArtifacts

MCVersions == {"v1", "v2", "v3"}
MCGenerators == {"g1", "g2"}
MCSchemas == {"s1", "s2", "s3", "x1", "x2"}
MCNames == {"TurnEnvelope", "Turn", "ItemEnvelope", "Item", "Other"}

MCEmits == [v1 |-> [stable |-> "s1", experimental |-> "x1"],
            v2 |-> [stable |-> "s2", experimental |-> "x1"],
            v3 |-> [stable |-> "s3", experimental |-> "x2"]]

TurnSpec == [method |-> "turn/started", envelope |-> "TurnEnvelope", params |-> "Turn"]
ItemSpec == [method |-> "item/started", envelope |-> "ItemEnvelope", params |-> "Item"]

MCWrappers == [s1 |-> {TurnSpec, ItemSpec}, s2 |-> {TurnSpec}, s3 |-> {TurnSpec},
               x1 |-> {}, x2 |-> {}]
MCModels ==
  [s \in MCSchemas |->
     (IF s = "s3" THEN {} ELSE {"Other"}) \cup UNION {{w.envelope, w.params} : w \in MCWrappers[s]}]

MCHandwritten == {"Turn", "Other"}
MCCheckout == [version |-> "v1", generator |-> "g1"]
=============================================================================
