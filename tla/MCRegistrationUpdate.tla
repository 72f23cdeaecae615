------------------------ MODULE MCRegistrationUpdate ------------------------
(* An instance of RegistrationUpdate for TLC: two modules, one function each. *)
EXTENDS RegistrationUpdate

MCPaths == <<"handlers", "routes">>
MCModuleOf == [f \in {"handlers", "routes"} |-> f]
=============================================================================
