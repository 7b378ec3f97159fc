-------------------------- MODULE MCExtensionHost --------------------------
(* Instances of ExtensionHost for TLC: a tool extension, a reviewer and an  *)
(* extension of project scope.                                              *)
EXTENDS ExtensionHost

(* The order of the manifest index. *)
MCOrder == <<"t", "r", "p">>

MCOrderTwo == <<"t", "r">>

(* Every extension in a package of its own. *)
MCPackage == [e \in Exts |-> e]

(* The tool extension and the reviewer share a source_ref, as two roots of  *)
(* YACH_EXTENSION_PACKAGE_ROOTS do.                                         *)
MCSource == [e \in Exts |-> IF e \in {"t", "r"} THEN "env" ELSE e]

=============================================================================
