----------------------- MODULE MCConstitutionAuthority -----------------------
(***************************************************************************)
(* Small instances of the amendment service.  Every amendment proposes the *)
(* same policy version, so that two of them compete for it.  Candidates c1 *)
(* and c2 are two authority sets of one revision, c3 is of another.  The   *)
(* race needs one amendment, one candidate and two principals; the law two *)
(* amendments, one candidate and one principal; the seal one amendment, up *)
(* to its publication, one principal, all candidates, and no call two      *)
(* versions behind.  No call expects more than the version to come.  Each  *)
(* part of SpecParts is explored on its own.                               *)
(***************************************************************************)
EXTENDS ConstitutionAuthority, TLC

CONSTANTS v1, c1, c2, c3, o,
          Parts  \* the parts a run explores

VARIABLE part

ToTarget == [a \in Amendments |-> v1]
ToRevision == [c \in Candidates |-> IF c = c3 THEN "r2" ELSE "r1"]
Interchangeable == Permutations(Calls) \union Permutations(Amendments)

Touched == {a \in Amendments : \/ record[a] # NoRecord
                               \/ \E c \in Calls : call[c] # Idle /\ call[c].on = a}

Within(p) ==
  /\ \A c \in Calls : call[c] # Idle =>
       call[c].expected <= record[call[c].on].version + 1
  /\ p \in {"race", "law"} => \A c \in Calls : call[c] # Idle => call[c].candidate = c1
  /\ p \in {"race", "seal"} => \A a, b \in Touched : a = b
  /\ p \in {"law", "seal"} =>
       /\ owner \in {NoOwner, o}
       /\ \A c \in Calls : call[c] # Idle => call[c].actor = o
  /\ p = "seal" =>
       /\ \A c \in Calls : call[c] # Idle =>
            /\ call[c].op \notin {"reject", "propagate", "verify"}
            /\ record[call[c].on].version <= call[c].expected + 1

InitParts == part \in Parts /\ Init

NextParts == Next /\ UNCHANGED part /\ Within(part)'

SpecParts == InitParts /\ [][NextParts]_<<part, vars>>
=============================================================================
