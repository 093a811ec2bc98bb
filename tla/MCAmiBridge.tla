---------------------------- MODULE MCAmiBridge -----------------------------
(* AmiBridge for TLC: one domain begins with the other. *)
EXTENDS AmiBridge, TLC

MCPrefixesOf == ("acme" :> {"acme"}) @@ ("acme-north" :> {"acme", "acme-north"})

=============================================================================
