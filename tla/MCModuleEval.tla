---------------------------- MODULE MCModuleEval ----------------------------
(* ModuleEval on all small graphs of modules. *)
EXTENDS ModuleEval

\* Every list of other modules without repetition that m may request.
Requests(m) == {s \in UNION {[1..n -> Modules \ {m}] : n \in 0..Cardinality(Modules) - 1} :
                  \A i, j \in DOMAIN s : s[i] = s[j] => i = j}

MCGraphs == {g \in [Modules -> UNION {Requests(m) : m \in Modules}] :
               \A m \in Modules : g[m] \in Requests(m)}
=============================================================================
