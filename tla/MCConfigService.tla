-------------------------- MODULE MCConfigService --------------------------
(* Two clients; the default configuration has one model, source and database. *)
EXTENDS ConfigService
CONSTANTS c1, c2, m1, m2, s1, d1, v1, v2
const_Clients == {c1, c2}
Symmetry == Permutations(const_Clients)
const_Models == {m1, m2}
const_Sources == {s1}
const_Databases == {d1}
const_Priorities == {1, 2}
const_Settings == {v1, v2}
const_Default ==
  [models |-> {m2}, defaultModel |-> m2, sources |-> <<[name |-> s1, priority |-> 1]>>,
   defaultSource |-> s1, databases |-> [d \in const_Databases |-> 1], settings |-> v1]
=============================================================================
