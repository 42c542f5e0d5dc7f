--------------------------- MODULE MCProjectQuality ---------------------------
(***************************************************************************)
(* Small instances of the work, quality and release services.  Dependency  *)
(* edits and releases share no state, so each part is explored on its own: *)
(* packages, named in the order they come to exist; races of two calls for *)
(* one release while its gate moves; longer ones, where one call may       *)
(* expect a version still to come, behind a gate that stands; one call at  *)
(* a time over two releases behind a gate for all evidence, where one      *)
(* release may be rolled back to the other's revision, and (reuse) longer. *)
(***************************************************************************)
EXTENDS ProjectQuality, TLC

CONSTANTS g1, e1, e2, r1, r2, x1, p1, p2, p3,
          Parts  \* the parts a run explores

VARIABLE part

ToGate == [e \in Evidence |-> g1]
ToRevision == [e \in Evidence |-> IF e = e2 THEN r2 ELSE r1]
Alike == Permutations(Editors)

InitParts == part \in Parts /\ InitQuality

\* No package is like another but for its name.
InOrder == \A <<first, second>> \in {<<p1, p2>>, <<p2, p3>>} :
  package'[first].version = 0 => package'[second].version = 0

OnlyCall(c) == \A d \in Calls \ {c} : call[d] = NoCall

\* Gates change under a release in the races only.
GateFirst(links) ==
  /\ gate'[g1].version <= 2
  /\ gate'[g1].version = 2 => gate'[g1].value = [status |-> "pass", links |-> links]
  /\ \A c \in Calls : IsReleaseCall(call'[c]) => gate[g1].version = 2

\* Two updates of a release are two of its versions.
Prompt(c) == IsReleaseCall(call'[c]) => call'[c].expected <= 1
Early == \A c \in Calls : Prompt(c)

NextParts ==
  /\ UNCHANGED part
  /\ \/ part = "packages" /\ NextPackages /\ InOrder /\ UNCHANGED vars
     \/ /\ \/ part = "races" /\ NextAmong(Calls, {x1}, {e1}) /\ Early
           \/ part = "ahead" /\ NextAmong(Calls, {x1}, {e1}) /\ GateFirst({e1}) /\ (\E c \in Calls : Prompt(c))
           \/ /\ part \in {"rollbacks", "reuse"}
              /\ \E c \in Calls : OnlyCall(c) /\ NextAmong({c}, Releases, Evidence)
              /\ GateFirst(Evidence)
              /\ part = "rollbacks" => Early
        /\ UNCHANGED packageVars

SpecParts == InitParts /\ [][NextParts]_<<part, qualityVars>>
=============================================================================
