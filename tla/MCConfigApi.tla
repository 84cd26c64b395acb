----------------------------- MODULE MCConfigApi -----------------------------
(* Instances of ConfigApi for TLC: one API server besides the engine's own. *)
EXTENDS ConfigApi, TLC

CONSTANTS api, own

ApiServers == {api, own}

\* A registration that names its server and has a kubeconfig with another one.
WithKubeconfig == [api_url |-> api, auth_method |-> "kubeconfig", credential |-> TRUE]

\* ensure_cluster adds registrations without any connection data.
OneForm == {WithKubeconfig}

\* Handlers are interchangeable, and so are names.
Symmetry == Permutations(Handlers) \cup Permutations(Names)
=============================================================================
