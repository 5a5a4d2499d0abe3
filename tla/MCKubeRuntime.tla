--------------------------- MODULE MCKubeRuntime ---------------------------
(* Two services: db, and api which may depend on it.                       *)
EXTENDS KubeRuntime

CONSTANTS api, db

Plain == [deps |-> {}, disabled |-> FALSE, subdomain |-> FALSE, env |-> FALSE,
          secrets |-> "none", chart |-> FALSE, dockerfile |-> FALSE, watch |-> FALSE]

MCConfigs ==
    {[registry |-> build = "push",
      service |-> [s \in {api, db} |->
          IF s = api
          THEN [Plain EXCEPT !.deps = deps, !.subdomain = TRUE, !.env = TRUE,
                             !.dockerfile = (build # "none"), !.watch = TRUE]
          ELSE [Plain EXCEPT !.secrets = secrets, !.disabled = disabled, !.chart = chart]]] :
        build \in {"none", "local", "push"}, deps \in SUBSET {db},
        chart \in BOOLEAN, disabled \in BOOLEAN, secrets \in {"inline", "empty file"}}
=============================================================================
