--------------------------- MODULE BlueprintResolver ---------------------------
(***************************************************************************)
(* resolveBlueprint: from the templates a profile activates to the modules *)
(* and gates it requires, or to conflicts.  A template is a record of its  *)
(* authority layer's rank, its id, its activation and its requirements; a  *)
(* profile is a function from fields to values.  Ids and versions are      *)
(* well formed; fingerprints, tags, sources and reasons are left out.  A   *)
(* loop is a step repeated as often as the loop may go round.              *)
(***************************************************************************)
EXTENDS Naturals, Sequences, FiniteSetsExt

NoConstraint == "none"

CONSTANTS Ids,      \* requirement ids
          IdRank,   \* their order, that of localeCompare
          Catalogs  \* profiles with the templates they are resolved against

IsRequirement(r) ==
  /\ r.id \in Ids /\ r.kind \in {"module", "gate"} /\ r.required \in BOOLEAN
  /\ r.depth \in 0..3 /\ r.dependsOn \in SUBSET Ids
IsTemplate(t) ==
  /\ t.id \in Nat /\ t.rank \in Nat
  /\ DOMAIN t.requirements \subseteq Nat /\ IsFiniteSet(DOMAIN t.requirements)
  /\ \A n \in DOMAIN t.requirements : IsRequirement(t.requirements[n])

ASSUME ResolverAssumption ==
  /\ IsFiniteSet(Ids)
  /\ IdRank \in [Ids -> Nat]
  /\ \A i, j \in Ids : IdRank[i] = IdRank[j] => i = j
  /\ \A c \in Catalogs :
       /\ IsTemplate(c.constitution)
       /\ DOMAIN c.delegated \subseteq Nat /\ IsFiniteSet(DOMAIN c.delegated)
       /\ \A n \in DOMAIN c.delegated : IsTemplate(c.delegated[n])

VARIABLES supplied, \* the profile and templates last resolved
          answer    \* and what resolveBlueprint made of them
resolverVars == <<supplied, answer>>

FirstId(S) == CHOOSE i \in S : \A j \in S : IdRank[i] <= IdRank[j]

(* A loop: what n rounds of Step make of start. *)
Repeat(Step(_), start, n) ==
  LET after[k \in Nat] == IF k = 0 THEN start ELSE Step(after[k - 1])
  IN after[n]

(* compareTemplates: by authority, then by id; ids are unique. *)
CompareTemplates(s, t) ==
  s.rank < t.rank \/ (s.rank = t.rank /\ s.id < t.id)

(* isActive: every condition holds of the profile. *)
IsActive(profile, t) ==
  \A c \in t.activation :
    IF c.operator = "equals" THEN profile[c.field] = c.value
    ELSE c.value \in profile[c.field]

(* The order of requirements within a template: id, then kind. *)
CompareRequirements(q, r) ==
  \/ IdRank[q.id] < IdRank[r.id]
  \/ q.id = r.id /\ q.kind = "gate" /\ r.kind = "module"

(* What is merged: requirement n of the active template t, as <<t, n>>, in *)
(* the order of the templates, then of the requirements; sorts are stable. *)
AskedItems(profile, templates) ==
  UNION {{t} \X DOMAIN t.requirements :
           t \in {u \in templates : IsActive(profile, u)}}
Asked(x) == x[1].requirements[x[2]]
Before(x, y) ==
  \/ CompareTemplates(x[1], y[1])
  \/ /\ x[1] = y[1]
     /\ \/ CompareRequirements(Asked(x), Asked(y))
        \/ x[2] < y[2] /\ ~CompareRequirements(Asked(y), Asked(x))

Conflict(kind, target, field) == [kind |-> kind, target |-> target, field |-> field]

Stricter(d, e) == IF e > d THEN e ELSE d

(* mergeRequirement: m holds the merged requirements and the conflicts. *)
MergeRequirement(m, r) ==
  LET put(value) == [i \in DOMAIN m.merged \union {r.id} |->
                       IF i = r.id THEN value ELSE m.merged[i]]
      old == m.merged[r.id]
      kept == IF old.constraint = NoConstraint THEN r.constraint ELSE old.constraint
      clash(field) == m.conflicts \union {Conflict("INCOMPATIBLE_VALUE", r.id, field)}
  IN IF r.id \notin DOMAIN m.merged THEN
       [m EXCEPT !.merged = put(
          [kind |-> r.kind, required |-> r.required, depth |-> r.depth,
           dependsOn |-> r.dependsOn, constraint |-> r.constraint])]
     ELSE IF old.kind # r.kind THEN [m EXCEPT !.conflicts = clash("kind")]
     ELSE [m EXCEPT
       !.merged = put(
          [kind |-> old.kind, required |-> old.required \/ r.required,
           depth |-> Stricter(old.depth, r.depth),
           dependsOn |-> old.dependsOn \union r.dependsOn, constraint |-> kept]),
       !.conflicts = IF r.constraint \in {NoConstraint, kept} THEN @
                     ELSE clash("constraint")]

(* One round of the loop over the sorted requirements of the templates. *)
MergeNext(m) ==
  IF m.left = {} THEN m
  ELSE LET x == CHOOSE x \in m.left : \A y \in m.left : ~Before(y, x)
       IN [MergeRequirement(m, Asked(x)) EXCEPT !.left = @ \ {x}]

Merging(items) ==
  Repeat(MergeNext, [left |-> items, merged |-> [i \in {} |-> {}], conflicts |-> {}],
         Cardinality(items))

OfKind(merged, kind) == {i \in DOMAIN merged : merged[i].kind = kind}
RequiredOf(merged, kind) == {i \in OfKind(merged, kind) : merged[i].required}

(* Seeded fault: the walk stops at a dependency that was optional. *)
StepClosureShallow(merged, c) ==
  IF c.queue = {} THEN c
  ELSE LET id == FirstId(c.queue)
           here == merged[id].dependsOn \intersect OfKind(merged, "module")
       IN [required |-> c.required \union here,
           queue |-> c.queue \ {id},
           conflicts |-> c.conflicts \union
             {Conflict("MISSING_DEPENDENCY", id, "dependsOn") :
                d \in merged[id].dependsOn \ here}]

(* One round of dependencyClosure: the modules required by now, those of   *)
(* them that were not visited yet - of a module seen again nothing is done *)
(* - and the conflicts, which are a set: the queue needs no order.         *)
StepClosure(merged, c) ==
  IF c.queue = {} THEN c
  ELSE LET id == FirstId(c.queue)
           here == merged[id].dependsOn \intersect OfKind(merged, "module")
       IN [required |-> c.required \union here,
           queue |-> (c.queue \ {id}) \union (here \ c.required),
           conflicts |-> c.conflicts \union
             {Conflict("MISSING_DEPENDENCY", id, "dependsOn") :
                d \in merged[id].dependsOn \ here}]

DependencyClosure(m) ==
  LET required == RequiredOf(m.merged, "module") IN
  Repeat(LAMBDA c : StepClosure(m.merged, c),
         [required |-> required, queue |-> required, conflicts |-> m.conflicts],
         Cardinality(OfKind(m.merged, "module")))

(* One step of cycleConflicts, depth first from every required module: v   *)
(* holds the calls of visit under way, the dependencies their loops have   *)
(* passed, the modules done and the cycles found, each once.               *)
StepVisit(depends, v) ==
  LET n == Len(v.stack)
      top == v.stack[n]
      ahead == {d \in depends[top] : <<top, d>> \notin v.passed}
      next == FirstId(ahead)
      past == [v EXCEPT !.passed = @ \union {<<top, next>>}]
  IN IF n = 0 THEN
       IF DOMAIN depends \subseteq v.done THEN v
       ELSE [v EXCEPT !.stack = <<FirstId(DOMAIN depends \ v.done)>>]
     ELSE IF ahead = {} THEN
       [v EXCEPT !.stack = SubSeq(@, 1, n - 1), !.done = @ \union {top}]
     ELSE IF next \in v.done THEN past
     ELSE IF \E k \in 1..n : v.stack[k] = next THEN
       LET start == CHOOSE k \in 1..n : v.stack[k] = next
       IN [past EXCEPT !.cycles = @ \union {{v.stack[k] : k \in start..n}}]
     ELSE [past EXCEPT !.stack = Append(@, next)]

\* Every module is entered and left, every dependency passed.
Dependencies(depends) == UNION {{i} \X depends[i] : i \in DOMAIN depends}
CycleConflicts(depends) ==
  Repeat(LAMBDA v : StepVisit(depends, v),
         [stack |-> <<>>, passed |-> {}, done |-> {}, cycles |-> {}],
         2 * Cardinality(DOMAIN depends) + Cardinality(Dependencies(depends))).cycles

(* resolveBlueprint: status, required modules and gates, and the merged    *)
(* requirements, whose dependencies of required modules are the edges.     *)
ResolveBlueprint(profile, templates) ==
  LET m == Merging(AskedItems(profile, templates))
      c == DependencyClosure(m)
      cycles == CycleConflicts(
        [i \in c.required |-> m.merged[i].dependsOn \intersect c.required])
  IN [status |-> IF c.conflicts = {} /\ cycles = {} THEN "success" ELSE "conflict",
      modules |-> c.required,
      gates |-> RequiredOf(m.merged, "gate"),
      requirements |-> m.merged]

(* ConstitutionLockedTemplateCatalog: the runtime's constitution, and the  *)
(* catalog's templates but the one it has under the constitution's id.     *)
Others(constitution, delegated) ==
  {n \in DOMAIN delegated : delegated[n].id # constitution.id}
SnapshotFor(constitution, delegated) ==
  {constitution} \union {delegated[n] : n \in Others(constitution, delegated)}
Replaced(constitution, delegated) ==
  LET same == DOMAIN delegated \ Others(constitution, delegated)
  IN same # {} /\ delegated[Min(same)] # constitution

NoAnswer == [status |-> "none"]
InitResolver == supplied = NoAnswer /\ answer = NoAnswer

(* ProjectProfileApplicationService.resolve, over any catalog: the lock    *)
(* throws on another constitution, resolveBlueprint on a repeated id.      *)
ResolveProfile(profile, constitution, delegated) ==
  LET templates == SnapshotFor(constitution, delegated) IN
  /\ ~Replaced(constitution, delegated)
  /\ \A m, n \in Others(constitution, delegated) :
       delegated[m].id = delegated[n].id => m = n
  /\ supplied' = [profile |-> profile, templates |-> templates]
  /\ answer' = ResolveBlueprint(profile, templates)

\* One resolution of each behaviour.
ResolveAny ==
  /\ answer = NoAnswer
  /\ \E c \in Catalogs : ResolveProfile(c.profile, c.constitution, c.delegated)

SpecResolver == InitResolver /\ [][ResolveAny]_resolverVars
-----------------------------------------------------------------------------
(* The contract of docs/TEMPLATE-RESOLUTION-CONTRACT.v1.md, without an     *)
(* order of templates, a queue or a search.                                *)

Compatible(asked) ==
  \A q, r \in asked : q.id = r.id =>
    /\ q.kind = r.kind
    /\ NoConstraint \in {q.constraint, r.constraint} \/ q.constraint = r.constraint

DependenciesOf(asked, i) == UNION {r.dependsOn : r \in {q \in asked : q.id = i}}

(* The least set with the required modules and what they depend on. *)
IsClosed(asked, modules, S) ==
  /\ {r.id : r \in {q \in asked : q.kind = "module" /\ q.required}} \subseteq S
  /\ \A i \in S : DependenciesOf(asked, i) \intersect modules \subseteq S
Needed(asked, modules) ==
  LET all == {S \in SUBSET modules : IsClosed(asked, modules, S)}
  IN {i \in modules : \A S \in all : i \in S}

Cyclic(asked, S) ==
  \E C \in (SUBSET S) \ {{}} : \A i \in C : DependenciesOf(asked, i) \intersect C # {}

MeetsContract(asked, result) ==
  LET modules == {r.id : r \in {q \in asked : q.kind = "module"}}
      needed == Needed(asked, modules)
      legal == /\ Compatible(asked)
               /\ \A i \in needed : DependenciesOf(asked, i) \subseteq modules
               /\ ~Cyclic(asked, needed)
  IN /\ (result.status = "success") = legal
     /\ legal =>
          /\ result.modules = needed
          /\ result.gates = {r.id : r \in {q \in asked : q.kind = "gate" /\ q.required}}
          /\ \A i \in DOMAIN result.requirements :
               result.requirements[i].depth
                 = Max({r.depth : r \in {q \in asked : q.id = i}})

\* All that the active templates ask for.
AllAsked(profile, templates) ==
  UNION {{t.requirements[n] : n \in DOMAIN t.requirements} :
           t \in {u \in templates : IsActive(profile, u)}}

(* For every catalog, whatever the order of its templates and of their     *)
(* requirements: resolution succeeds exactly when the requirements agree   *)
(* and the least set of modules that is closed under dependencies exists   *)
(* and is acyclic; then it requires that set, every gate somebody          *)
(* requires, and the strictest depth asked, so no layer weakens another.   *)
ResolutionMeetsContract ==
  answer # NoAnswer =>
    MeetsContract(AllAsked(supplied.profile, supplied.templates), answer)
=============================================================================
