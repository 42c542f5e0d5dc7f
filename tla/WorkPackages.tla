----------------------------- MODULE WorkPackages -----------------------------
(***************************************************************************)
(* Work packages of one project: concurrent calls of createWorkPackage and *)
(* updateWorkPackage.  A call reads all packages of the project, validates *)
(* the dependencies it wants against them, and then writes its own row,    *)
(* compared at the version its caller names.  The rows it validated against *)
(* are not compared.  A call the authority refuses writes nothing and is   *)
(* not begun; packages are never deleted.                                  *)
(***************************************************************************)
EXTENDS Naturals

CONSTANTS Packages,
          Editors,           \* concurrent calls
          MaxPackageVersion  \* bound: updates of one package

ASSUME PackagesAssumption == MaxPackageVersion \in Nat

VARIABLES package,  \* rows of WorkPackage: version 0 before the row exists
          edit      \* calls in progress

packageVars == <<package, edit>>

NoEdit == [at |-> "idle"]

Edit == [at : {"validate", "write"}, on : Packages, deps : SUBSET Packages,
         expected : 0..MaxPackageVersion,
         stale : BOOLEAN]  \* history: the graph has changed since it was read

TypeOKPackages ==
  /\ package \in [Packages -> [version : 0..MaxPackageVersion,
                               deps : SUBSET Packages]]
  /\ edit \in [Editors -> Edit \union {NoEdit}]

InitPackages ==
  /\ package = [p \in Packages |-> [version |-> 0, deps |-> {}]]
  /\ edit = [c \in Editors |-> NoEdit]

Existing == {p \in Packages : package[p].version > 0}

Graph == [p \in Packages |-> package[p].deps]

(* Some packages all wait for one another. *)
Cyclic(graph, among) ==
  \E S \in SUBSET among : S # {} /\ \A p \in S : graph[p] \intersect S # {}

Closed(graph, S) == \A p \in S : graph[p] \subseteq S

ReachableFrom(graph, p) ==
  {q \in Packages : \A S \in SUBSET Packages :
                      p \in S /\ Closed(graph, S) => q \in S}

(* Seeded fault: the graph is searched as it is stored. *)
ValidDependenciesAsStored(p, deps) ==
  /\ p \notin deps
  /\ deps \subseteq Existing
  /\ ~ Cyclic(Graph, ReachableFrom(Graph, p))

(* validateWorkPackageDependencies: every dependency exists, and nothing   *)
(* the candidate leads to is on a cycle.                                   *)
ValidDependencies(p, deps) ==
  LET graph == [Graph EXCEPT ![p] = deps] IN
  /\ p \notin deps
  /\ deps \subseteq Existing
  /\ ~ Cyclic(graph, ReachableFrom(graph, p))

-----------------------------------------------------------------------------
BeginEdit(c) ==
  /\ edit[c] = NoEdit
  /\ \E p \in Packages, deps \in SUBSET Packages, v \in 0..(MaxPackageVersion - 1) :
       edit' = [edit EXCEPT ![c] = [at |-> "validate", on |-> p, deps |-> deps,
                                    expected |-> v, stale |-> FALSE]]
  /\ UNCHANGED package

Validate(c) ==
  /\ edit[c].at = "validate"
  /\ edit' = [edit EXCEPT ![c] =
                IF ValidDependencies(@.on, @.deps)
                  THEN [@ EXCEPT !.at = "write"] ELSE NoEdit]
  /\ UNCHANGED package

(* Insert, or compare and set; either fails when the row is elsewhere. *)
WritePackage(c) ==
  LET k == edit[c] IN
  /\ k.at = "write"
  /\ IF package[k.on].version = k.expected
       THEN /\ package' = [package EXCEPT ![k.on] =
                             [version |-> k.expected + 1, deps |-> k.deps]]
            /\ edit' = [d \in Editors |->
                          IF d = c THEN NoEdit
                          ELSE IF edit[d].at = "write"
                                 THEN [edit[d] EXCEPT !.stale = TRUE]
                                 ELSE edit[d]]
       ELSE /\ edit' = [edit EXCEPT ![c] = NoEdit]
            /\ UNCHANGED package

DropEdit(c) ==
  /\ edit[c] # NoEdit
  /\ edit' = [edit EXCEPT ![c] = NoEdit]
  /\ UNCHANGED package

NextPackages ==
  \E c \in Editors : BeginEdit(c) \/ Validate(c) \/ WritePackage(c) \/ DropEdit(c)

SpecPackages == InitPackages /\ [][NextPackages]_packageVars
-----------------------------------------------------------------------------
(* Properties.                                                             *)

(* A cycle of dependencies is only ever closed by a call whose read of the *)
(* packages was overtaken by the write of another.                         *)
CyclesNeedARace ==
  [][~ Cyclic(Graph, Packages) /\ Cyclic(Graph, Packages)'
       => \E c \in Editors : /\ edit[c] # NoEdit /\ edit[c].at = "write"
                             /\ edit[c].stale /\ edit'[c] = NoEdit]_packageVars

(* What the tests of the dependency rules state: a dependency cycle is     *)
(* never accepted.                                                         *)
NoDependencyCycle == ~ Cyclic(Graph, Packages)
=============================================================================
