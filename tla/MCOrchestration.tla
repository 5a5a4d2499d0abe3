------------------------- MODULE MCOrchestration -------------------------
(***************************************************************************)
(* Orchestration on a few configurations of three services: the usual      *)
(* chain with changes that a reload tells apart, a service that is         *)
(* disabled or removed, and a cycle.                                       *)
(***************************************************************************)
EXTENDS Orchestration

CONSTANTS db, api, web

On(deps) == [mode |-> "on", deps |-> deps, ver |-> 1]
Changed(d) == [d EXCEPT !.ver = 2]
Off(deps) == [mode |-> "off", deps |-> deps, ver |-> 1]
Absent == [mode |-> "absent", deps |-> {}, ver |-> 0]

Config(d, a, w) ==
    [n \in Services |-> IF n = db THEN d ELSE IF n = api THEN a ELSE w]

MCServices == {db, api, web}

MCConfigs ==
    { Config(On({}), On({db}), On({db})),             \* a fork
      Config(Changed(On({})), On({db}), On({api})),   \* db changed, a chain
      Config(On({}), Off({db}), Absent),              \* api disabled, web removed
      Config(On({}), On({web}), On({api})) }          \* a cycle
=============================================================================
