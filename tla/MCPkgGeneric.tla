--------------------------- MODULE MCPkgGeneric ----------------------------
(***************************************************************************)
(* A host tool with patches, headers that have nothing for the target, and *)
(* a local application that needs both and installs to staging and target. *)
(***************************************************************************)
EXTENDS PkgGeneric

MCPkg == {"lib", "hdr", "app"}
MCDeps == [p \in Pkg |-> IF p = "app" THEN <<"lib", "hdr">> ELSE << >>]
============================================================================
