---------------------------- MODULE MCLifecycle ----------------------------
(* Small instances of the node lifecycle.                                  *)
EXTENDS Lifecycle, TLC

Symmetry == Permutations(Procs)

Edge(a, b, w) == [from |-> a, to |-> b, when |-> w]
Def(k, n, b)  == [kind |-> k, need |-> n, budget |-> b, supersedes |-> NoNode]

(* A task and a decision that compete for one resource, and a join. The    *)
(* task may lose its retry; the decision, which has none, may be made a    *)
(* join, or what supersedes the task.                                      *)
Competing    == {"task", "decision", "join"}
CompeteEdges == {Edge("task", "join", {"success"}), Edge("decision", "join", Classes)}
CompeteFirst == [n \in Competing |-> CASE n = "task"     -> Def("task", 1, 1)
                                       [] n = "decision" -> Def("role", 1, 0)
                                       [] n = "join"     -> Def("join", 0, 0)]
CompeteDefs  == [n \in Competing |-> CASE n = "task"     -> {Def("task", 1, 1), Def("task", 1, 0)}
                                       [] n = "decision" -> {Def("role", 1, 0), Def("join", 0, 0),
                                                             [Def("role", 1, 0) EXCEPT !.supersedes = "task"]}
                                       [] n = "join"     -> {Def("join", 0, 0)}]

(* A task, its repair, and two joins in a row, without resources.          *)
Chain        == {"task", "repair", "join", "end"}
ChainEdges   == {Edge("task", "repair", {"failure"}), Edge("task", "join", {"success"}),
                 Edge("join", "end", {"success"})}
ChainFirst   == [n \in Chain |-> Def(IF n \in {"join", "end"} THEN "join" ELSE "role", 0, 0)]
ChainDefs    == [n \in Chain |-> {ChainFirst[n]}]
=============================================================================
