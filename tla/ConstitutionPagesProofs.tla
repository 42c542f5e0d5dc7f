------------------------ MODULE ConstitutionPagesProofs ------------------------
(***************************************************************************)
(* Proofs about the pages around the Constitution: the amendment           *)
(* workspace, for any number of drafts, windows and evidence records, the  *)
(* acceptance of a deployed revision, for any number of revisions and      *)
(* runs, the publication of the law, for any files, patch and number of    *)
(* requests, and the compliance of the ecosystem, for any repositories and *)
(* recorded files.  What a page shows is old as soon as it is shown, and   *)
(* what a request has read may have changed when it writes; the invariants *)
(* say what of it is for good.                                             *)
(***************************************************************************)
EXTENDS AmendmentConsole, CompassAcceptance, ConstitutionPublication,
        EcosystemCompliance, FiniteSums

-----------------------------------------------------------------------------
(* The amendment workspace.  What stays true of a card is that its row was *)
(* one of Path, and that migration evidence it shows was filed for good.   *)

ShownTexts == EvidenceTexts \union {NoEvidenceText}

(* The rows an amendment goes through; it ends published or rejected.      *)
Path ==
  {Absent,
   [state |-> "draft", version |-> 1], [state |-> "impact-reviewed", version |-> 2],
   [state |-> "migration-ready", version |-> 3],
   [state |-> "ratification-ready", version |-> 4],
   [state |-> "ratified", version |-> 5], [state |-> "rejected", version |-> 5],
   [state |-> "published", version |-> 6]}

Pages ==
  {Blank} \union [at : {"rows"}, rows : [ConsoleAmendments -> Path]]
  \union [at : {"shown"}, rows : [ConsoleAmendments -> Path],
          evidence : [ConsoleAmendments -> EvidenceRows]]
Pressed ==
  [at : {"sent", "prepared"}, kind : Commands, on : ConsoleAmendments,
   text : ShownTexts, card : Path, candidate : ShownTexts]
Execution ==
  [kind : Commands, on : ConsoleAmendments, card : Path, candidate : ShownTexts, before : Path]

ConsoleTypes ==
  /\ amendment \in [ConsoleAmendments -> Path]
  /\ filed \in [ConsoleAmendments -> EvidenceRows]
  /\ window \in [Windows -> Pages]
  /\ command \in [Windows -> {NoCommand, [at |-> "sent", kind |-> "create"]} \union Pressed]
  /\ executed \in Seq(Execution)

(* From version 3 on the evidence of an amendment is filed for good.       *)
Settled(r) == r.version >= 3

PagesAge ==
  \A w \in Windows, a \in ConsoleAmendments :
    window[w].at # "blank" /\ Settled(window[w].rows[a]) =>
      /\ Settled(amendment[a])
      /\ window[w].at = "shown" => window[w].evidence[a].migration = filed[a].migration

CommandOK(c) ==
  /\ c.card.state = FormIn[c.kind]
  /\ c.kind = "approve" => /\ Settled(amendment[c.on])
                           /\ c.candidate = filed[c.on].migration

CommandsAge == \A w \in Windows : command[w] \in Pressed => CommandOK(command[w])

ExecutionOK(c) ==
  /\ c.card = c.before
  /\ c.kind = "approve" => /\ Settled(amendment[c.on])
                           /\ c.candidate = filed[c.on].migration
                           /\ c.candidate.revision = filed[c.on].impact.revision

Approved(a) == \E i \in DOMAIN executed : executed[i].on = a /\ executed[i].kind = "approve"

ConsoleInv ==
  /\ ConsoleTypes /\ PagesAge /\ CommandsAge
  /\ \A i \in DOMAIN executed : ExecutionOK(executed[i])
  /\ \A a \in ConsoleAmendments :
       amendment[a].state \in {"ratified", "published"} => Approved(a)

LEMMA CommandNames ==
  /\ Commands = {"impact", "migration", "open", "approve", "reject", "prepare", "publish"}
  /\ FormIn["impact"] = "draft" /\ FormIn["migration"] = "impact-reviewed"
  /\ FormIn["open"] = "migration-ready" /\ FormIn["approve"] = "ratification-ready"
  /\ FormIn["reject"] = "ratification-ready" /\ FormIn["prepare"] = "ratified"
  /\ FormIn["publish"] = "ratified"
  /\ LeadsTo["impact"] = "impact-reviewed" /\ LeadsTo["migration"] = "migration-ready"
  /\ LeadsTo["open"] = "ratification-ready" /\ LeadsTo["approve"] = "ratified"
  /\ LeadsTo["reject"] = "rejected" /\ LeadsTo["prepare"] = "ratified"
  /\ LeadsTo["publish"] = "published"
BY DEF Commands, FormIn, LeadsTo

LEMMA PathRows ==
  /\ Absent \in Path /\ [state |-> "draft", version |-> 1] \in Path
  /\ \A r \in Path : r = [state |-> r.state, version |-> r.version] /\ r.version \in 0..6
  /\ \A r \in Path, k \in Commands \ {"prepare"} :
       r.state = FormIn[k] =>
         /\ [state |-> LeadsTo[k], version |-> r.version + 1] \in Path
         /\ Settled(r) <=> k \notin {"impact", "migration"}
<1>1. /\ Absent \in Path /\ [state |-> "draft", version |-> 1] \in Path
      /\ \A r \in Path : r = [state |-> r.state, version |-> r.version] /\ r.version \in 0..6
  BY DEF Path, Absent
<1>2. ASSUME NEW r \in Path, NEW k \in Commands \ {"prepare"}, r.state = FormIn[k]
      PROVE  /\ [state |-> LeadsTo[k], version |-> r.version + 1] \in Path
             /\ Settled(r) <=> k \notin {"impact", "migration"}
  <2>1. \/ k = "impact" /\ r.state = "draft" /\ r.version = 1
        \/ k = "migration" /\ r.state = "impact-reviewed" /\ r.version = 2
        \/ k = "open" /\ r.state = "migration-ready" /\ r.version = 3
        \/ k \in {"approve", "reject"} /\ r.state = "ratification-ready" /\ r.version = 4
        \/ k = "publish" /\ r.state = "ratified" /\ r.version = 5
    BY <1>2, CommandNames DEF Path, Absent
  <2> QED BY <2>1, CommandNames DEF Path, Settled
<1> QED BY <1>1, <1>2

LEMMA ConsoleInit == InitConsole => ConsoleInv
<1> SUFFICES ASSUME InitConsole PROVE ConsoleInv
  OBVIOUS
<1>1. ConsoleTypes
  BY PathRows DEF InitConsole, ConsoleTypes, Pages, EvidenceRows
<1>2. PagesAge BY DEF InitConsole, PagesAge, Blank
<1>3. CommandsAge BY DEF InitConsole, CommandsAge, NoCommand, Pressed
<1>4. \A a \in ConsoleAmendments : amendment[a].state = "absent"
  BY DEF InitConsole, Absent
<1> QED BY <1>1, <1>2, <1>3, <1>4 DEF ConsoleInv, InitConsole

(* A step of one window that changes no row.                               *)
LEMMA WindowStep ==
  ASSUME ConsoleInv, NEW w \in Windows, UNCHANGED <<amendment, filed, executed>>,
         NEW v \in Pages, window' = [window EXCEPT ![w] = v],
         \A a \in ConsoleAmendments :
           v.at # "blank" /\ Settled(v.rows[a]) =>
             /\ Settled(amendment[a])
             /\ v.at = "shown" => v.evidence[a].migration = filed[a].migration,
         NEW c \in {NoCommand, [at |-> "sent", kind |-> "create"]} \union Pressed,
         command' = [command EXCEPT ![w] = c], c \in Pressed => CommandOK(c)
  PROVE  ConsoleInv'
<1>1. ConsoleTypes' BY DEF ConsoleInv, ConsoleTypes
<1>2. \A x \in Windows : /\ window'[x] = IF x = w THEN v ELSE window[x]
                         /\ command'[x] = IF x = w THEN c ELSE command[x]
  BY DEF ConsoleInv, ConsoleTypes
<1>3. PagesAge' BY <1>2 DEF ConsoleInv, PagesAge, Settled
<1>4. CommandsAge'
  <2> SUFFICES ASSUME NEW x \in Windows, command'[x] \in Pressed
               PROVE  CommandOK(command[x])'
    BY DEF CommandsAge, Pressed, ShownTexts, Path
  <2>1. CommandOK(command'[x]) BY <1>2 DEF ConsoleInv, CommandsAge
  <2> QED BY <2>1 DEF CommandOK, Settled
<1>5. (\A i \in DOMAIN executed : ExecutionOK(executed[i]))'
  BY DEF ConsoleInv, ExecutionOK, Settled
<1>6. (\A a \in ConsoleAmendments :
         amendment[a].state \in {"ratified", "published"} => Approved(a))'
  BY DEF ConsoleInv, Approved
<1> QED BY <1>1, <1>3, <1>4, <1>5, <1>6 DEF ConsoleInv

LEMMA LoadsKeepConsole ==
  ASSUME ConsoleInv, NEW w \in Windows, LoadAmendments(w) \/ LoadEvidence(w)
  PROVE  ConsoleInv'
<1>0. /\ command' = [command EXCEPT ![w] = command[w]]
      /\ command[w] \in {NoCommand, [at |-> "sent", kind |-> "create"]} \union Pressed
      /\ command[w] \in Pressed => CommandOK(command[w])
  BY DEF LoadAmendments, LoadEvidence, ConsoleInv, ConsoleTypes, CommandsAge
<1>1. CASE LoadAmendments(w)
  <2> DEFINE v == [at |-> "rows", rows |-> amendment]
  <2>1. v \in Pages /\ v.at = "rows" /\ v.rows = amendment
    BY DEF Pages, ConsoleInv, ConsoleTypes
  <2>2. window' = [window EXCEPT ![w] = v] /\ UNCHANGED <<amendment, filed, executed>>
    BY <1>1 DEF LoadAmendments
  <2> HIDE DEF v
  <2> QED BY <1>0, <2>1, <2>2, WindowStep
<1>2. CASE LoadEvidence(w)
  <2> DEFINE v == [at |-> "shown", rows |-> window[w].rows, evidence |-> filed]
  <2>0. window[w].at = "rows" /\ window[w].rows \in [ConsoleAmendments -> Path]
    BY <1>2 DEF LoadEvidence, ConsoleInv, ConsoleTypes, Pages, Blank
  <2>1. v \in Pages /\ v.at = "shown" /\ v.rows = window[w].rows /\ v.evidence = filed
    BY <2>0 DEF Pages, ConsoleInv, ConsoleTypes
  <2>2. window' = [window EXCEPT ![w] = v] /\ UNCHANGED <<amendment, filed, executed>>
    BY <1>2 DEF LoadEvidence, ConsoleInv, ConsoleTypes
  <2>3. \A a \in ConsoleAmendments : Settled(window[w].rows[a]) => Settled(amendment[a])
    BY <2>0 DEF ConsoleInv, PagesAge
  <2> HIDE DEF v
  <2> QED BY <1>0, <2>1, <2>2, <2>3, WindowStep
<1> QED BY <1>1, <1>2

(* Commands that are sent, prepared or given up.                           *)
LEMMA CommandStep ==
  ASSUME ConsoleInv, NEW w \in Windows, UNCHANGED <<amendment, filed, window, executed>>,
         NEW c \in {NoCommand, [at |-> "sent", kind |-> "create"]} \union Pressed,
         command' = [command EXCEPT ![w] = c], c \in Pressed => CommandOK(c)
  PROVE  ConsoleInv'
<1>1. window' = [window EXCEPT ![w] = window[w]] /\ window[w] \in Pages
  BY DEF ConsoleInv, ConsoleTypes
<1>2. \A a \in ConsoleAmendments :
        window[w].at # "blank" /\ Settled(window[w].rows[a]) =>
          /\ Settled(amendment[a])
          /\ window[w].at = "shown" => window[w].evidence[a].migration = filed[a].migration
  BY DEF ConsoleInv, PagesAge
<1> QED BY <1>1, <1>2, WindowStep

LEMMA PressKeepsConsole ==
  ASSUME ConsoleInv, NEW w \in Windows, NEW a \in ConsoleAmendments, NEW k \in Commands,
         NEW text \in EvidenceTexts \union {NoEvidenceText}, Press(w, a, k, text)
  PROVE  ConsoleInv'
<1> DEFINE page == window[w]
           c == [at |-> "sent", kind |-> k, on |-> a, text |-> text,
                 card |-> page.rows[a], candidate |-> ShownCandidate(page, a)]
<1>1. /\ page.at = "shown" /\ page.rows \in [ConsoleAmendments -> Path]
      /\ page.evidence \in [ConsoleAmendments -> EvidenceRows]
  BY DEF Press, ConsoleInv, ConsoleTypes, Pages, Blank
<1>2. page.rows[a] \in Path /\ page.evidence[a].migration \in ShownTexts
  BY <1>1 DEF EvidenceRows, ShownTexts
<1>3. FormIn[k] = page.rows[a].state BY DEF Press, Offered
<1>4. c \in Pressed BY <1>2 DEF Pressed, ShownCandidate, ShownTexts
<1>5. CommandOK(c)
  <2>1. c.card.state = FormIn[c.kind] BY <1>3
  <2>2. ASSUME k = "approve"
        PROVE  Settled(amendment[a]) /\ ShownCandidate(page, a) = filed[a].migration
    <3>1. Settled(page.rows[a]) BY <1>2, <1>3, <2>2, PathRows, CommandNames
    <3>2. page.rows[a].state = "ratification-ready" BY <1>3, <2>2, CommandNames
    <3> QED BY <1>1, <3>1, <3>2 DEF ConsoleInv, PagesAge, ShownCandidate
  <2> QED BY <2>1, <2>2 DEF CommandOK
<1>6. command' = [command EXCEPT ![w] = c] /\ UNCHANGED <<amendment, filed, window, executed>>
  BY DEF Press
<1> HIDE DEF c
<1> QED BY <1>4, <1>5, <1>6, CommandStep

LEMMA OthersKeepConsole ==
  ASSUME ConsoleInv, NEW w \in Windows, PressCreate(w) \/ Prepare(w) \/ FailCommand(w)
  PROVE  ConsoleInv'
<1>1. CASE PressCreate(w)
  <2> DEFINE c == [at |-> "sent", kind |-> "create"]
  <2>1. c \notin Pressed BY CommandNames DEF Pressed
  <2>2. command' = [command EXCEPT ![w] = c] /\ UNCHANGED <<amendment, filed, window, executed>>
    BY <1>1 DEF PressCreate
  <2> QED BY <2>1, <2>2, CommandStep
<1>2. NoCommand \notin Pressed BY DEF NoCommand, Pressed
<1>3. CASE command' = [command EXCEPT ![w] = NoCommand]
             /\ UNCHANGED <<amendment, filed, window, executed>>
  BY <1>2, <1>3, CommandStep
<1>4. CASE Prepare(w) /\ command[w].kind = "publish"
  <2> DEFINE c == [command[w] EXCEPT !.at = "prepared"]
  <2>1. command[w] \in Pressed
    BY <1>4 DEF Prepare, ConsoleInv, ConsoleTypes, NoCommand
  <2>2. /\ c \in Pressed /\ c.card = command[w].card /\ c.kind = command[w].kind
        /\ c.on = command[w].on /\ c.candidate = command[w].candidate
    BY <2>1 DEF Pressed
  <2>3. CommandOK(c) BY <2>1, <2>2 DEF ConsoleInv, CommandsAge, CommandOK
  <2>4. command' = [command EXCEPT ![w] = c] /\ UNCHANGED <<amendment, filed, window, executed>>
    BY <1>4 DEF Prepare
  <2> HIDE DEF c
  <2> QED BY <2>2, <2>3, <2>4, CommandStep
<1> QED BY <1>1, <1>3, <1>4 DEF Prepare, FailCommand

(* A draft that is created was absent from every page.                     *)
LEMMA CreateKeepsConsole ==
  ASSUME ConsoleInv, NEW w \in Windows, CreateDraft(w)
  PROVE  ConsoleInv'
<1> DEFINE d == [state |-> "draft", version |-> 1]
<1>1. PICK b \in ConsoleAmendments :
        amendment[b] = Absent /\ amendment' = [amendment EXCEPT ![b] = d]
  BY DEF CreateDraft
<1>2. d \in Path /\ ~Settled(d) /\ ~Settled(Absent) BY PathRows DEF Settled, Absent
<1>3. \A a \in ConsoleAmendments :
        /\ amendment'[a] = IF a = b THEN d ELSE amendment[a]
        /\ Settled(amendment'[a]) <=> Settled(amendment[a])
  BY <1>1, <1>2 DEF ConsoleInv, ConsoleTypes
<1>4. /\ command' = [command EXCEPT ![w] = NoCommand]
      /\ UNCHANGED <<filed, window, executed>>
  BY DEF CreateDraft
<1>5. ConsoleTypes' BY <1>1, <1>2, <1>4 DEF ConsoleInv, ConsoleTypes
<1>6. PagesAge'
  <2> SUFFICES ASSUME NEW x \in Windows, NEW a \in ConsoleAmendments,
                      window[x].at # "blank" /\ Settled(window[x].rows[a])
               PROVE  /\ Settled(amendment'[a])
                      /\ window[x].at = "shown" => window[x].evidence[a].migration = filed[a].migration
    BY <1>4 DEF PagesAge, Settled
  <2> QED BY <1>3 DEF ConsoleInv, PagesAge
<1>7. CommandsAge'
  <2> SUFFICES ASSUME NEW x \in Windows, command'[x] \in Pressed
               PROVE  CommandOK(command[x])'
    BY DEF CommandsAge, Pressed, ShownTexts, Path
  <2>1. command'[x] = command[x]
    BY <1>4 DEF ConsoleInv, ConsoleTypes, NoCommand, Pressed
  <2>2. CommandOK(command[x]) /\ command[x].on \in ConsoleAmendments
    BY <2>1 DEF ConsoleInv, CommandsAge, Pressed
  <2>3. Settled(amendment'[command[x].on]) <=> Settled(amendment[command[x].on])
    BY <1>3, <2>2
  <2> QED BY <1>4, <2>1, <2>2, <2>3 DEF CommandOK, Settled
<1>8. (\A i \in DOMAIN executed : ExecutionOK(executed[i]))'
  <2> SUFFICES ASSUME NEW i \in DOMAIN executed PROVE ExecutionOK(executed[i])'
    BY <1>4
  <2>0. executed[i] \in Execution BY DEF ConsoleInv, ConsoleTypes
  <2>1. ExecutionOK(executed[i]) /\ executed[i].on \in ConsoleAmendments
    BY <2>0 DEF ConsoleInv, Execution
  <2>2. Settled(amendment'[executed[i].on]) <=> Settled(amendment[executed[i].on])
    BY <1>3, <2>1
  <2> QED BY <1>4, <2>1, <2>2 DEF ExecutionOK, Settled
<1>9. (\A a \in ConsoleAmendments :
         amendment[a].state \in {"ratified", "published"} => Approved(a))'
  <2>1. d.state = "draft" OBVIOUS
  <2> QED BY <1>3, <1>4, <2>1 DEF ConsoleInv, Approved
<1> QED BY <1>5, <1>6, <1>7, <1>8, <1>9 DEF ConsoleInv

(* A command that changes a row: the row is the one its card showed, and   *)
(* from version 3 on the evidence it decides about stays as it is.         *)
LEMMA ExecuteKeepsConsole ==
  ASSUME ConsoleInv, NEW w \in Windows, Execute(w)
  PROVE  ConsoleInv'
<1> DEFINE c == command[w]
           b == c.on
           k == c.kind
           r == amendment[b]
           n == [state |-> LeadsTo[k], version |-> r.version + 1]
           e == [kind |-> k, on |-> b, card |-> c.card, candidate |-> c.candidate, before |-> r]
           m == Len(executed) + 1
<1>1. c \in Pressed /\ k \in Commands \ {"prepare"} /\ CommandOK(c)
  <2>1. k \in Commands \ {"prepare"} /\ c # NoCommand BY DEF Execute
  <2>2. c \in {NoCommand, [at |-> "sent", kind |-> "create"]} \union Pressed
    BY DEF ConsoleInv, ConsoleTypes
  <2>3. c \in Pressed BY <2>1, <2>2, CommandNames
  <2> QED BY <2>1, <2>3 DEF ConsoleInv, CommandsAge
<1>2. /\ b \in ConsoleAmendments /\ c.card \in Path /\ c.candidate \in ShownTexts /\ c.text \in ShownTexts
      /\ r \in Path
  BY <1>1 DEF Pressed, ConsoleInv, ConsoleTypes
<1>3. r.state = FormIn[k] /\ r.version = c.card.version /\ c.card.state = FormIn[k]
  BY <1>1 DEF Execute, Executable, ExpectedVersion, CommandOK
<1>4. c.card = r BY <1>2, <1>3, PathRows
<1>5. n \in Path /\ (Settled(r) <=> k \notin {"impact", "migration"})
  BY <1>1, <1>2, <1>3, PathRows
<1>6. Settled(r) => Settled(n)
  BY <1>2, PathRows DEF Settled
<1>7. /\ amendment' = [amendment EXCEPT ![b] = n] /\ executed' = Append(executed, e)
      /\ command' = [command EXCEPT ![w] = NoCommand] /\ window' = window
  BY DEF Execute
<1>8. /\ filed' \in [ConsoleAmendments -> EvidenceRows]
      /\ \A a \in ConsoleAmendments : Settled(amendment[a]) => filed'[a] = filed[a]
  <2>1. CASE k = "impact"
    <3>1. filed' = [filed EXCEPT ![b] = [filed[b] EXCEPT !.impact = c.text]]
      BY <2>1 DEF Execute, ConsoleInv, ConsoleTypes
    <3> QED BY <1>2, <1>5, <2>1, <3>1 DEF ConsoleInv, ConsoleTypes, EvidenceRows, ShownTexts
  <2>2. CASE k = "migration"
    <3>1. filed' = [filed EXCEPT ![b] = [filed[b] EXCEPT !.migration = c.text]]
      BY <2>2 DEF Execute, ConsoleInv, ConsoleTypes
    <3> QED BY <1>2, <1>5, <2>2, <3>1 DEF ConsoleInv, ConsoleTypes, EvidenceRows, ShownTexts
  <2>3. CASE k \notin {"impact", "migration"}
    BY <2>3 DEF Execute, ConsoleInv, ConsoleTypes
  <2> QED BY <2>1, <2>2, <2>3
<1>9. e \in Execution /\ e.on = b /\ e.kind = k /\ e.card = r /\ e.before = r
        /\ e.candidate = c.candidate
  BY <1>1, <1>2, <1>4 DEF Execution
<1>10. k = "approve" => /\ Settled(r) /\ Settled(n) /\ filed' = filed
                        /\ c.candidate = filed[b].migration
                        /\ c.candidate.revision = filed[b].impact.revision
  BY <1>1, <1>6 DEF Execute, Executable, Reviewed, CommandOK
<1>11. n.state \in {"ratified", "published"} => k = "approve" \/ r.state = "ratified"
  BY <1>1, <1>3, CommandNames
<1>12. \A a \in ConsoleAmendments :
         /\ amendment'[a] = IF a = b THEN n ELSE amendment[a]
         /\ Settled(amendment[a]) => Settled(amendment'[a])
  BY <1>2, <1>5, <1>6, <1>7 DEF ConsoleInv, ConsoleTypes
<1> HIDE DEF n, e
<1>13. /\ executed' \in Seq(Execution) /\ m \in DOMAIN executed' /\ executed'[m] = e
       /\ DOMAIN executed \subseteq DOMAIN executed'
       /\ \A i \in DOMAIN executed' : i = m \/ i \in DOMAIN executed
       /\ \A i \in DOMAIN executed : executed'[i] = executed[i]
  BY <1>7, <1>9 DEF ConsoleInv, ConsoleTypes
<1>14. ConsoleTypes' BY <1>2, <1>5, <1>7, <1>8, <1>13 DEF ConsoleInv, ConsoleTypes
<1>15. PagesAge'
  <2> SUFFICES ASSUME NEW x \in Windows, NEW a \in ConsoleAmendments,
                      window[x].at # "blank" /\ Settled(window[x].rows[a])
               PROVE  /\ Settled(amendment'[a])
                      /\ window[x].at = "shown" => window[x].evidence[a].migration = filed'[a].migration
    BY <1>7 DEF PagesAge, Settled
  <2> QED BY <1>8, <1>12 DEF ConsoleInv, PagesAge
<1>16. CommandsAge'
  <2> SUFFICES ASSUME NEW x \in Windows, command'[x] \in Pressed
               PROVE  CommandOK(command[x])'
    BY DEF CommandsAge, Pressed, ShownTexts, Path
  <2>1. command'[x] = command[x]
    BY <1>7 DEF ConsoleInv, ConsoleTypes, NoCommand, Pressed
  <2>2. CommandOK(command[x]) /\ command[x].on \in ConsoleAmendments
    BY <2>1 DEF ConsoleInv, CommandsAge, Pressed
  <2> QED BY <1>8, <1>12, <2>1, <2>2 DEF CommandOK, Settled
<1>17. (\A i \in DOMAIN executed : ExecutionOK(executed[i]))'
  <2> SUFFICES ASSUME NEW i \in DOMAIN executed' PROVE ExecutionOK(executed[i])'
    OBVIOUS
  <2>1. CASE i = m
    <3>1. executed'[i] = e BY <1>13, <2>1
    <3>2. k = "approve" => Settled(amendment'[b]) BY <1>2, <1>10, <1>12
    <3> QED BY <1>9, <1>10, <3>1, <3>2 DEF ExecutionOK, Settled
  <2>2. CASE i \in DOMAIN executed
    <3>1. executed'[i] = executed[i] BY <1>13, <2>2
    <3>0. executed[i] \in Execution BY <2>2 DEF ConsoleInv, ConsoleTypes
    <3>2. ExecutionOK(executed[i]) /\ executed[i].on \in ConsoleAmendments
      BY <2>2, <3>0 DEF ConsoleInv, Execution
    <3> QED BY <1>8, <1>12, <3>1, <3>2 DEF ExecutionOK, Settled
  <2> QED BY <1>13, <2>1, <2>2
<1>18. (\A a \in ConsoleAmendments :
          amendment[a].state \in {"ratified", "published"} => Approved(a))'
  <2>1. \A a : Approved(a) => Approved(a)' BY <1>13 DEF Approved
  <2>2. PICK a \in ConsoleAmendments : a = b BY <1>2
  <2>3. k = "approve" => Approved(a)' BY <1>9, <1>13, <2>2 DEF Approved
  <2>4. n.state \in {"ratified", "published"} => Approved(a)'
    BY <1>11, <2>1, <2>2, <2>3 DEF ConsoleInv
  <2> QED BY <1>12, <2>1, <2>2, <2>4 DEF ConsoleInv
<1> QED BY <1>14, <1>15, <1>16, <1>17, <1>18 DEF ConsoleInv

(* The inductive invariant: rows follow the path, and what a window or a   *)
(* command holds of a settled amendment is still true of it.               *)
THEOREM ConsoleInvariant == SpecConsole => []ConsoleInv
<1>1. ConsoleInv /\ [NextConsole]_consoleVars => ConsoleInv'
  <2> SUFFICES ASSUME ConsoleInv, [NextConsole]_consoleVars PROVE ConsoleInv'
    OBVIOUS
  <2>1. CASE UNCHANGED consoleVars
    BY <2>1 DEF consoleVars, ConsoleInv, ConsoleTypes, PagesAge, CommandsAge, CommandOK,
                ExecutionOK, Approved, Settled
  <2> QED BY <2>1, LoadsKeepConsole, OthersKeepConsole, CreateKeepsConsole,
             ExecuteKeepsConsole, PressKeepsConsole DEF NextConsole
<1> QED BY <1>1, ConsoleInit, PTL DEF SpecConsole

(* Every row, every page and every command of the console is well formed,   *)
(* whatever windows race.                                                   *)
THEOREM ConsoleIsTyped == SpecConsole => []TypeOKConsole
<1>1. ConsoleInv => TypeOKConsole
  <2> SUFFICES ASSUME ConsoleInv PROVE TypeOKConsole
    OBVIOUS
  <2>1. Path \subseteq AmendmentRows
    BY DEF Path, AmendmentRows, Absent, LeadsTo, Commands, FormIn
  <2>2. ASSUME NEW w \in Windows PROVE window[w].at \in {"blank", "rows", "shown"}
    <3>1. window[w] \in Pages
      BY DEF ConsoleInv, ConsoleTypes
    <3> QED BY <3>1 DEF Pages, Blank
  <2>3. ASSUME NEW w \in Windows
        PROVE  /\ command[w].at \in {"none", "sent", "prepared"}
               /\ command[w].at # "none" => command[w].kind \in Commands \union {"create"}
    <3>1. command[w] \in {NoCommand, [at |-> "sent", kind |-> "create"]} \union Pressed
      BY DEF ConsoleInv, ConsoleTypes
    <3> QED BY <3>1 DEF Pressed, NoCommand
  <2>4. ASSUME NEW i \in DOMAIN executed PROVE executed[i].before \in AmendmentRows
    <3>1. executed[i] \in Execution
      BY DEF ConsoleInv, ConsoleTypes
    <3> QED BY <2>1, <3>1 DEF Execution
  <2>5. amendment \in [ConsoleAmendments -> AmendmentRows]
    BY <2>1 DEF ConsoleInv, ConsoleTypes
  <2> QED BY <2>2, <2>3, <2>4, <2>5 DEF ConsoleInv, ConsoleTypes, TypeOKConsole
<1> QED BY <1>1, ConsoleInvariant, PTL

(* However many windows are open, a command changes what its card showed,  *)
(* and what is published is the candidate that was approved on a card.     *)
THEOREM DecisionsAreAsShown == SpecConsole => []DecidedAsShown
<1>1. ConsoleInv => DecidedAsShown
  BY DEF ConsoleInv, ExecutionOK, Approved, DecidedAsShown
<1> QED BY ConsoleInvariant, <1>1, PTL

(* An executed command is the move of its name; a new draft is proposed.   *)
LEMMA ConsoleStep ==
  ASSUME ConsoleInv, [NextConsole]_consoleVars
  PROVE  [Lifecycle!LifecycleNext]_<<StageShown, LawsShown>>
<1> USE DEF StageShown, LawsShown
<1>1. CASE UNCHANGED amendment
  BY <1>1
<1>2. ASSUME NEW w \in Windows, CreateDraft(w)
      PROVE  Lifecycle!LifecycleNext
  <2>1. PICK a \in ConsoleAmendments :
          /\ amendment[a] = Absent
          /\ amendment' = [amendment EXCEPT ![a] = [state |-> "draft", version |-> 1]]
    BY <1>2 DEF CreateDraft
  <2>2. \A b \in ConsoleAmendments :
          amendment'[b].state = IF b = a THEN "draft" ELSE amendment[b].state
    BY <2>1 DEF ConsoleInv, ConsoleTypes
  <2>3. StageShown[a] = "none" /\ amendment[a].state = "absent"
    BY <2>1 DEF Absent
  <2>4. StageShown' = [StageShown EXCEPT ![a] = "draft"]
    BY <2>2
  <2>5. LawsShown' = LawsShown
    BY <2>2, <2>3
  <2> QED BY <2>3, <2>4, <2>5 DEF Lifecycle!LifecycleNext, Lifecycle!Propose
<1>3. ASSUME NEW w \in Windows, Execute(w)
      PROVE  Lifecycle!LifecycleNext
  <2> DEFINE c == command[w]
  <2>1. PICK k \in Commands \ {"prepare"}, a \in ConsoleAmendments : c.kind = k /\ c.on = a
    <3>1. c.kind \in Commands \ {"prepare"} /\ c # NoCommand
      BY <1>3 DEF Execute
    <3>2. c \in {NoCommand, [at |-> "sent", kind |-> "create"]} \union Pressed
      BY DEF ConsoleInv, ConsoleTypes
    <3> QED BY <3>1, <3>2, CommandNames DEF Pressed
  <2>2. /\ amendment[a].state = FormIn[k]
        /\ amendment' = [amendment EXCEPT ![a] = [state |-> LeadsTo[k],
                                                  version |-> amendment[a].version + 1]]
    BY <1>3, <2>1 DEF Execute, Executable
  <2>3. \A b \in ConsoleAmendments :
          amendment'[b].state = IF b = a THEN LeadsTo[k] ELSE amendment[b].state
    BY <2>1, <2>2 DEF ConsoleInv, ConsoleTypes
  <2>4. /\ k \in Lifecycle!Moves /\ FormIn[k] \in Lifecycle!From(k)
        /\ LeadsTo[k] = Lifecycle!To(k)
        /\ FormIn[k] \notin {"absent", "published"} /\ LeadsTo[k] # "absent"
        /\ LeadsTo[k] = "published" <=> k = "publish"
    BY <2>1, CommandNames DEF Lifecycle!Moves, Lifecycle!From, Lifecycle!To
  <2>5. StageShown[a] \in Lifecycle!From(k)
    BY <2>1, <2>2, <2>4
  <2>6. StageShown' = [StageShown EXCEPT ![a] = Lifecycle!To(k)]
    BY <2>3, <2>4
  <2>7. IF k = "publish" THEN a \notin LawsShown /\ LawsShown' = LawsShown \union {a}
        ELSE LawsShown' = LawsShown
    BY <2>1, <2>2, <2>3, <2>4
  <2>8. Lifecycle!Move(a, k)
    BY <2>1, <2>5, <2>6, <2>7 DEF Lifecycle!Move
  <2> QED BY <2>4, <2>8 DEF Lifecycle!LifecycleNext
<1> QED BY <1>1, <1>2, <1>3
  DEF NextConsole, consoleVars, LoadAmendments, LoadEvidence, PressCreate, Prepare, FailCommand,
      Press

(* AmendmentLifecycle, which the service implements, is implemented by the *)
(* rows the windows of the console write: whatever page a command was      *)
(* pressed on, it is the next move of its amendment.                       *)
THEOREM ConsoleImplementsLifecycle == SpecConsole => ConsoleContract
<1>1. InitConsole => Lifecycle!LifecycleInit
  BY DEF InitConsole, Absent, Lifecycle!LifecycleInit, StageShown, LawsShown
<1>2. ConsoleInv /\ [NextConsole]_consoleVars
        => [Lifecycle!LifecycleNext]_<<StageShown, LawsShown>>
  BY ConsoleStep
<1> QED BY <1>1, <1>2, ConsoleInvariant, PTL
  DEF SpecConsole, ConsoleContract, Lifecycle!LifecycleSpec

-----------------------------------------------------------------------------
(* Acceptance of a deployed revision.                                      *)

GateRows ==
  {g \in [version : 1..MaxAcceptVersion + 1, status : {"not-ready", "blocked", "pass"},
          linked : BOOLEAN] : g.status = "not-ready" => g.version <= MaxAcceptVersion}
Uploads == [id : Nat \ {0}, run : FinalRuns, expired : BOOLEAN]
Sources == [run : FinalRuns, upload : Nat \ {0}] \union {NoSource}

Verifying == {"github", "create", "evidence", "pass"}
AcceptanceReading ==
  [at : Verifying \union {"canonical", "page"}, revision : AcceptedRevisions,
   run : FinalRuns \union {0}, todo : SUBSET {"decision", "gates", "run", "jobs", "artifacts"},
   outcome : {"none", "approve", "reject"}, compliant : BOOLEAN,
   gate : GateRows \union {NoGateRow}, prior : Sources, source : Sources]
Reported ==
  [at : {"accepted"}, revision : AcceptedRevisions, source : Sources]
    \union [at : {"shown"}, revision : AcceptedRevisions, source : Sources,
            compass : {"complete", "active"}, page : {"blockers", "receipt", "panel"}]

ReceiptRows ==
  [revision : AcceptedRevisions, source : Sources, verified : Sources,
   outcome : {"none", "approve", "reject"}, compliant : BOOLEAN]

AcceptanceTypes ==
  /\ reviewOutcome \in [ReviewCandidates -> {"none", "approve", "reject"}]
  /\ constitutionOk \in BOOLEAN
  /\ acceptGate \in [AcceptedRevisions -> GateRows \union {NoGateRow}]
  /\ acceptEvidence \in [AcceptedRevisions -> Sources]
  /\ finalRuns \in [FinalRuns -> [conclusion : {"running", "success", "failure"},
                                  passed : BOOLEAN]]
  /\ finalUploads \subseteq Uploads /\ IsFiniteSet(finalUploads)
  /\ compassRevision \in AcceptedRevisions
  /\ accepting \in [AcceptanceCalls -> AcceptanceReading \union Reported \union {Resting}]
  /\ acceptReceipts \subseteq ReceiptRows /\ acceptSettled \subseteq ReceiptRows

(* What stays so for good: a run that has passed, an upload, a decision,   *)
(* evidence, a receipt.                                                    *)
UploadOf(source) == \E u \in finalUploads : u.id = source.upload /\ u.run = source.run
PassedOn(run, r) == FinalRevisionOf[run] = r /\ finalRuns[run].passed
HasReceipt(r) == \E a \in acceptReceipts : a.revision = r

RunsKeepPasses == \A run \in FinalRuns : finalRuns[run].conclusion = "success" => finalRuns[run].passed

ReceiptOK(a) ==
  /\ a.source = acceptEvidence[a.revision] /\ a.source # NoSource /\ a.source = a.verified
  /\ PassedOn(a.source.run, a.revision) /\ UploadOf(a.source)
  /\ reviewOutcome[CandidateOf[a.revision]] = "approve" /\ a.compliant
  /\ CandidateOf[a.revision] \notin SevereFindings

(* Evidence is what a call of the action recorded.                         *)
EvidenceIsSettled ==
  \A r \in AcceptedRevisions :
    acceptEvidence[r] # NoSource => \E a \in acceptSettled : a.revision = r

(* A gate linked to its evidence has been passed on it.                    *)
LinkedGates ==
  \A r \in AcceptedRevisions :
    acceptGate[r] # NoGateRow /\ acceptGate[r].linked => HasReceipt(r)

(* What a call has read, each at its moment, as far as it cannot be undone.*)
ReadOK(k) ==
  /\ k.prior # NoSource => acceptEvidence[k.revision] = k.prior
  /\ k.outcome = "approve" => reviewOutcome[CandidateOf[k.revision]] = "approve"
  /\ k.gate # NoGateRow /\ k.gate.linked => HasReceipt(k.revision)
  /\ k.at # "page" => k.run \in FinalRuns
  /\ k.at \in Verifying =>
       /\ PreflightReady(k.revision, k.outcome, k.compliant)
       /\ "run" \notin k.todo \/ k.at # "github" => PassedOn(k.run, k.revision)
       /\ "artifacts" \notin k.todo \/ k.at # "github" =>
            k.source # NoSource /\ k.source.run = k.run /\ UploadOf(k.source)
       /\ k.at \in {"evidence", "pass"} => k.gate # NoGateRow /\ k.gate.status = "not-ready"
       /\ k.at = "pass" => acceptEvidence[k.revision] = k.source

ReportOK(k) ==
  /\ k.at = "accepted" =>
       \E a \in acceptReceipts : a.revision = k.revision /\ a.source = k.source
  /\ k.at = "shown" =>
       /\ k.compass = "complete" =>
            \E a \in acceptReceipts : a.revision = k.revision /\ a.source = k.source
       /\ (k.compass = "complete") <=> (k.page = "receipt")

CallOK(k) == (k \in AcceptanceReading => ReadOK(k)) /\ ReportOK(k)

TablesOK ==
  /\ RunsKeepPasses /\ LinkedGates /\ EvidenceIsSettled
  /\ \A a \in acceptReceipts \union acceptSettled : ReceiptOK(a)

AcceptanceInv ==
  AcceptanceTypes /\ TablesOK /\ \A c \in AcceptanceCalls : CallOK(accepting[c])

(* Nothing of that is taken back. *)
NothingUndone ==
  /\ \A r \in AcceptedRevisions :
       acceptEvidence[r] # NoSource => acceptEvidence'[r] = acceptEvidence[r]
  /\ \A c \in ReviewCandidates : reviewOutcome[c] = "approve" => reviewOutcome'[c] = "approve"
  /\ \A run \in FinalRuns : finalRuns[run].passed => finalRuns'[run].passed
  /\ \A u \in finalUploads : \E v \in finalUploads' : v.id = u.id /\ v.run = u.run
  /\ acceptReceipts \subseteq acceptReceipts'

LEMMA UploadsStay ==
  ASSUME NothingUndone, NEW source, UploadOf(source)
  PROVE  UploadOf(source)'
BY DEF NothingUndone, UploadOf

LEMMA ReadsStay ==
  ASSUME AcceptanceTypes, NothingUndone, NEW k \in AcceptanceReading, ReadOK(k)
  PROVE  ReadOK(k)'
<1>1. CandidateOf[k.revision] \in ReviewCandidates /\ k.revision \in AcceptedRevisions
  BY DEF AcceptanceReading, ReviewCandidates
<1>2. k.prior # NoSource => acceptEvidence'[k.revision] = k.prior
  BY <1>1 DEF ReadOK, NothingUndone
<1>3. k.outcome = "approve" => reviewOutcome'[CandidateOf[k.revision]] = "approve"
  BY <1>1 DEF ReadOK, NothingUndone
<1>4. HasReceipt(k.revision) => HasReceipt(k.revision)'
  BY DEF HasReceipt, NothingUndone
<1>5. k.run \in FinalRuns /\ PassedOn(k.run, k.revision) => PassedOn(k.run, k.revision)'
  BY DEF PassedOn, NothingUndone
<1>6. k.source # NoSource /\ acceptEvidence[k.revision] = k.source
        => acceptEvidence'[k.revision] = k.source
  BY <1>1 DEF NothingUndone
<1>7. k.at \in Verifying => k.at # "page"
  BY DEF Verifying
<1> QED
  BY <1>2, <1>3, <1>4, <1>5, <1>6, <1>7, UploadsStay DEF ReadOK, PreflightReady

LEMMA ReceiptsStay ==
  ASSUME AcceptanceTypes, NothingUndone, NEW a \in ReceiptRows, ReceiptOK(a)
  PROVE  ReceiptOK(a)'
<1>1. /\ CandidateOf[a.revision] \in ReviewCandidates /\ a.revision \in AcceptedRevisions
      /\ a.source \in Sources
  BY DEF ReceiptRows, ReviewCandidates
<1>2. a.source.run \in FinalRuns
  BY <1>1 DEF ReceiptOK, Sources
<1>3. PassedOn(a.source.run, a.revision)'
  BY <1>2 DEF ReceiptOK, PassedOn, NothingUndone
<1>4. acceptEvidence'[a.revision] = acceptEvidence[a.revision]
  BY <1>1 DEF ReceiptOK, NothingUndone
<1>5. reviewOutcome'[CandidateOf[a.revision]] = "approve"
  BY <1>1 DEF ReceiptOK, NothingUndone
<1> QED
  BY <1>3, <1>4, <1>5, UploadsStay DEF ReceiptOK

LEMMA CallsStay ==
  ASSUME AcceptanceTypes, NothingUndone, NEW k, CallOK(k)
  PROVE  CallOK(k)'
<1>1. k \in AcceptanceReading => ReadOK(k)'
  BY ReadsStay DEF CallOK
<1>2. ReportOK(k)'
  BY DEF CallOK, ReportOK, NothingUndone
<1> QED BY <1>1, <1>2 DEF CallOK

LEMMA AcceptanceInit == InitAcceptance => AcceptanceInv
<1> SUFFICES ASSUME InitAcceptance PROVE AcceptanceInv
  OBVIOUS
<1>1. AcceptanceTypes
  BY FS_EmptySet DEF InitAcceptance, AcceptanceTypes, Sources
<1>2. TablesOK
  BY DEF InitAcceptance, TablesOK, RunsKeepPasses, LinkedGates, EvidenceIsSettled
<1>3. ASSUME NEW c \in AcceptanceCalls PROVE CallOK(accepting[c])
  <2>1. accepting[c] = Resting
    BY DEF InitAcceptance
  <2>2. Resting.at = "resting" /\ Resting \notin AcceptanceReading
    BY DEF Resting, AcceptanceReading, Verifying
  <2> QED BY <2>1, <2>2 DEF CallOK, ReportOK
<1> QED BY <1>1, <1>2, <1>3 DEF AcceptanceInv

LEMMA RestingIsNoCall == CallOK(Resting)
<1>1. Resting.at = "resting" /\ Resting \notin AcceptanceReading
  BY DEF Resting, AcceptanceReading, Verifying
<1> QED BY <1>1 DEF CallOK, ReportOK

(* The rest of the world moves. *)
LEMMA WorldKeepsAcceptance ==
  ASSUME AcceptanceInv, NothingUndone, UNCHANGED <<accepting, acceptSettled>>,
         acceptReceipts' \subseteq acceptReceipts \union acceptSettled,
         AcceptanceTypes', RunsKeepPasses', LinkedGates', EvidenceIsSettled'
  PROVE  AcceptanceInv'
<1>1. \A a \in (acceptReceipts \union acceptSettled)' : ReceiptOK(a)'
  BY ReceiptsStay DEF AcceptanceInv, AcceptanceTypes, TablesOK
<1>2. ASSUME NEW c \in AcceptanceCalls PROVE CallOK(accepting[c])'
  <2>1. \A k : CallOK(k) => CallOK(k)'
    BY CallsStay DEF AcceptanceInv
  <2>2. CallOK(accepting[c])
    BY DEF AcceptanceInv
  <2> QED BY <2>1, <2>2
<1> QED BY <1>1, <1>2 DEF AcceptanceInv, TablesOK

(* One call of the action, or of a page, moves. *)
LEMMA CallKeepsAcceptance ==
  ASSUME AcceptanceInv, NothingUndone, NEW c \in AcceptanceCalls, NEW k,
         Become(c, k), CallOK(k)', AcceptanceTypes',
         RunsKeepPasses', LinkedGates', EvidenceIsSettled',
         \A a \in (acceptReceipts \union acceptSettled)' :
           a \in acceptReceipts \union acceptSettled \/ ReceiptOK(a)'
  PROVE  AcceptanceInv'
<1>1. \A a \in (acceptReceipts \union acceptSettled)' : ReceiptOK(a)'
  BY ReceiptsStay DEF AcceptanceInv, AcceptanceTypes, TablesOK
<1>2. ASSUME NEW d \in AcceptanceCalls PROVE CallOK(accepting[d])'
  <2>1. \A j : CallOK(j) => CallOK(j)'
    BY CallsStay DEF AcceptanceInv
  <2>2. CallOK(accepting[d])
    BY DEF AcceptanceInv
  <2>3. accepting'[d] = IF d = c THEN k ELSE accepting[d]
    BY DEF Become, AcceptanceInv, AcceptanceTypes
  <2> QED BY <2>1, <2>2, <2>3
<1> QED BY <1>1, <1>2 DEF AcceptanceInv, TablesOK

(* A call moves without writing to the tables. *)
LEMMA QuietKeepsAcceptance ==
  ASSUME AcceptanceInv, NothingWritten, NEW c \in AcceptanceCalls,
         NEW k \in AcceptanceReading \union Reported \union {Resting}, Become(c, k), CallOK(k)
  PROVE  AcceptanceInv'
<1>1. NothingUndone
  BY DEF NothingWritten, World, NothingUndone
<1>2. CallOK(k)'
  BY <1>1, CallsStay DEF AcceptanceInv
<1>3. AcceptanceTypes'
  BY DEF NothingWritten, World, AcceptanceInv, AcceptanceTypes, Become
<1>4. RunsKeepPasses' /\ LinkedGates' /\ EvidenceIsSettled'
  BY DEF NothingWritten, World, AcceptanceInv, TablesOK, RunsKeepPasses, LinkedGates, HasReceipt,
         EvidenceIsSettled
<1>5. UNCHANGED <<acceptReceipts, acceptSettled>>
  BY DEF NothingWritten
<1> QED BY <1>1, <1>2, <1>3, <1>4, <1>5, CallKeepsAcceptance

WorldMoves ==
  \/ \E candidate \in ReviewCandidates, outcome \in {"approve", "reject"} :
       Review(candidate, outcome)
  \/ Reassess
  \/ \E r \in AcceptedRevisions :
       \/ DeployCompass(r)
       \/ \E s \in {"not-ready", "blocked", "pass"}, linked \in BOOLEAN : ReviseGate(r, s, linked)
  \/ \E run \in FinalRuns :
       RunFinalAgain(run) \/ \E s \in {"success", "failure"} : FinishRun(run, s)
  \/ \E u \in finalUploads : ExpireUpload(u)

LEMMA WorldStep ==
  ASSUME AcceptanceInv, WorldMoves
  PROVE  AcceptanceInv'
<1> USE DEF AcceptanceInv, TablesOK, EvidenceIsSettled
<1>1. ASSUME NEW d \in ReviewCandidates, NEW o \in {"approve", "reject"}, Review(d, o)
      PROVE  AcceptanceInv'
  <2>1. NothingUndone
    BY <1>1 DEF Review, NothingUndone, AcceptanceTypes
  <2>2. AcceptanceTypes'
    BY <1>1 DEF Review, AcceptanceTypes
  <2>3. RunsKeepPasses' /\ LinkedGates'
    BY <1>1 DEF Review, RunsKeepPasses, LinkedGates, HasReceipt
  <2> QED BY <1>1, <2>1, <2>2, <2>3, WorldKeepsAcceptance DEF Review
<1>2. CASE Reassess
  <2>1. NothingUndone
    BY <1>2 DEF Reassess, NothingUndone
  <2>2. AcceptanceTypes'
    BY <1>2 DEF Reassess, AcceptanceTypes
  <2>3. RunsKeepPasses' /\ LinkedGates'
    BY <1>2 DEF Reassess, RunsKeepPasses, LinkedGates, HasReceipt
  <2> QED BY <1>2, <2>1, <2>2, <2>3, WorldKeepsAcceptance DEF Reassess
<1>3. ASSUME NEW r \in AcceptedRevisions, DeployCompass(r) PROVE AcceptanceInv'
  <2>1. NothingUndone
    BY <1>3 DEF DeployCompass, NothingUndone
  <2>2. AcceptanceTypes'
    BY <1>3 DEF DeployCompass, AcceptanceTypes
  <2>3. RunsKeepPasses' /\ LinkedGates'
    BY <1>3 DEF DeployCompass, RunsKeepPasses, LinkedGates, HasReceipt
  <2> QED BY <1>3, <2>1, <2>2, <2>3, WorldKeepsAcceptance DEF DeployCompass
<1>4. ASSUME NEW r \in AcceptedRevisions, NEW s \in {"not-ready", "blocked", "pass"},
             NEW linked \in BOOLEAN, ReviseGate(r, s, linked)
      PROVE  AcceptanceInv'
  <2> DEFINE row == [version |-> acceptGate[r].version + 1, status |-> s, linked |-> linked]
  <2>1. NothingUndone /\ acceptReceipts' \subseteq acceptReceipts \union acceptSettled
    BY <1>4 DEF ReviseGate, NothingUndone
  <2>2. acceptGate' = [acceptGate EXCEPT ![r] = row]
    BY <1>4 DEF ReviseGate
  <2>3. row \in GateRows
    <3>1. acceptGate[r] \in GateRows \union {NoGateRow} /\ acceptGate[r].version < MaxAcceptVersion
      BY <1>4 DEF ReviseGate, AcceptanceTypes
    <3>2. acceptGate[r].version \in 0..MaxAcceptVersion - 1
      BY <3>1, AcceptanceAssumption DEF GateRows, NoGateRow
    <3> QED BY <3>2, AcceptanceAssumption DEF GateRows
  <2>4. AcceptanceTypes'
    BY <1>4, <2>1, <2>2, <2>3 DEF ReviseGate, AcceptanceTypes
  <2>5. LinkedGates'
    <3>1. \A q \in AcceptedRevisions :
            acceptGate'[q] = acceptGate[q] \/ (q = r /\ acceptGate'[q].linked = linked)
      BY <2>2 DEF AcceptanceTypes
    <3>2. linked => HasReceipt(r)'
      BY <1>4 DEF ReviseGate, HasReceipt
    <3>3. \A q \in AcceptedRevisions : HasReceipt(q) => HasReceipt(q)'
      BY <2>1 DEF NothingUndone, HasReceipt
    <3> QED BY <3>1, <3>2, <3>3 DEF LinkedGates
  <2>6. RunsKeepPasses' /\ UNCHANGED <<accepting, acceptSettled, acceptEvidence>>
    BY <1>4 DEF ReviseGate, RunsKeepPasses
  <2> QED BY <2>1, <2>4, <2>5, <2>6, WorldKeepsAcceptance
<1>5. ASSUME NEW run \in FinalRuns, RunFinalAgain(run) PROVE AcceptanceInv'
  <2>1. NothingUndone
    BY <1>5 DEF RunFinalAgain, NothingUndone, AcceptanceTypes
  <2>2. AcceptanceTypes'
    BY <1>5 DEF RunFinalAgain, AcceptanceTypes
  <2>3. RunsKeepPasses' /\ LinkedGates'
    BY <1>5 DEF RunFinalAgain, RunsKeepPasses, LinkedGates, HasReceipt, AcceptanceTypes
  <2> QED BY <1>5, <2>1, <2>2, <2>3, WorldKeepsAcceptance DEF RunFinalAgain
<1>6. ASSUME NEW run \in FinalRuns, NEW s \in {"success", "failure"}, FinishRun(run, s)
      PROVE  AcceptanceInv'
  <2> DEFINE new == [id |-> Cardinality(finalUploads) + 1, run |-> run, expired |-> FALSE]
  <2>1. NothingUndone
    BY <1>6 DEF FinishRun, NothingUndone, AcceptanceTypes
  <2>2. finalUploads' = finalUploads \union {new}
    BY <1>6 DEF FinishRun
  <2>3. new \in Uploads /\ IsFiniteSet(finalUploads')
    <3>1. Cardinality(finalUploads) \in Nat
      BY FS_CardinalityType DEF AcceptanceTypes
    <3>2. IsFiniteSet(finalUploads')
      BY <2>2, FS_AddElement DEF AcceptanceTypes
    <3> QED BY <3>1, <3>2 DEF Uploads
  <2>4. AcceptanceTypes'
    BY <1>6, <2>2, <2>3 DEF FinishRun, AcceptanceTypes
  <2>5. RunsKeepPasses' /\ LinkedGates'
    BY <1>6 DEF FinishRun, RunsKeepPasses, LinkedGates, HasReceipt, AcceptanceTypes
  <2> QED BY <1>6, <2>1, <2>4, <2>5, WorldKeepsAcceptance DEF FinishRun
<1>7. ASSUME NEW u \in finalUploads, ExpireUpload(u) PROVE AcceptanceInv'
  <2> DEFINE late == [u EXCEPT !.expired = TRUE]
  <2>1. finalUploads' = (finalUploads \ {u}) \union {late}
    BY <1>7 DEF ExpireUpload
  <2>2. late \in Uploads /\ late.id = u.id /\ late.run = u.run
    BY DEF AcceptanceTypes, Uploads
  <2>3. NothingUndone
    BY <1>7, <2>1, <2>2 DEF ExpireUpload, NothingUndone
  <2>4. IsFiniteSet(finalUploads')
    BY <2>1, FS_AddElement, FS_RemoveElement DEF AcceptanceTypes
  <2>5. AcceptanceTypes'
    BY <1>7, <2>1, <2>2, <2>4 DEF ExpireUpload, AcceptanceTypes
  <2>6. RunsKeepPasses' /\ LinkedGates'
    BY <1>7 DEF ExpireUpload, RunsKeepPasses, LinkedGates, HasReceipt
  <2> QED BY <1>7, <2>3, <2>5, <2>6, WorldKeepsAcceptance DEF ExpireUpload
<1> QED BY <1>1, <1>2, <1>3, <1>4, <1>5, <1>6, <1>7 DEF WorldMoves

LEMMA ReadingIsOK ==
  ASSUME NEW k \in AcceptanceReading, ReadOK(k)
  PROVE  CallOK(k)
<1>1. k.at \notin {"accepted", "shown"}
  BY DEF AcceptanceReading, Verifying
<1> QED BY <1>1 DEF CallOK, ReportOK

LEMMA ReportedIsOK ==
  ASSUME NEW k \in Reported, ReportOK(k)
  PROVE  CallOK(k)
<1>1. k \notin AcceptanceReading
  BY DEF AcceptanceReading, Reported, Verifying
<1> QED BY <1>1 DEF CallOK

(* What a call read was so, and is what its receipt says. *)
LEMMA LinkedReadIsReceipt ==
  ASSUME AcceptanceInv, NEW k \in AcceptanceReading, ReadOK(k), ReceiptOf(k.gate, k.prior)
  PROVE  \E a \in acceptReceipts : a.revision = k.revision /\ a.source = k.prior
<1>1. PICK a \in acceptReceipts : a.revision = k.revision
  BY DEF ReceiptOf, ReadOK, HasReceipt
<1>2. a.source = acceptEvidence[k.revision] /\ acceptEvidence[k.revision] = k.prior
  BY <1>1 DEF ReceiptOf, ReadOK, AcceptanceInv, TablesOK, ReceiptOK
<1> QED BY <1>1, <1>2

LEMMA CanonicalReadOK ==
  ASSUME AcceptanceInv, NEW k \in AcceptanceReading, ReadOK(k), k.at \in {"canonical", "page"},
         NEW what \in {"decision", "gates"}
  PROVE  CanonicalRead(k, what) \in AcceptanceReading /\ ReadOK(CanonicalRead(k, what))
           /\ CanonicalRead(k, what).at = k.at
<1> DEFINE read == CanonicalRead(k, what)
<1>0. k.revision \in AcceptedRevisions /\ CandidateOf[k.revision] \in ReviewCandidates
  BY DEF AcceptanceReading, ReviewCandidates
<1>1. CASE what = "decision"
  <2>1. read = [k EXCEPT !.todo = @ \ {what}, !.outcome = reviewOutcome[CandidateOf[k.revision]]]
    BY <1>1 DEF CanonicalRead
  <2>2. reviewOutcome[CandidateOf[k.revision]] \in {"none", "approve", "reject"}
    BY <1>0 DEF AcceptanceInv, AcceptanceTypes
  <2>3. read \in AcceptanceReading
    BY <2>1, <2>2 DEF AcceptanceReading
  <2>4. /\ read.at = k.at /\ read.revision = k.revision /\ read.run = k.run
        /\ read.gate = k.gate /\ read.prior = k.prior
        /\ read.outcome = reviewOutcome[CandidateOf[k.revision]]
    BY <2>1 DEF AcceptanceReading
  <2> QED BY <2>3, <2>4 DEF ReadOK, Verifying
<1>2. CASE what = "gates"
  <2>1. read = [k EXCEPT !.todo = @ \ {what}, !.compliant = constitutionOk,
                         !.gate = acceptGate[k.revision], !.prior = acceptEvidence[k.revision]]
    BY <1>2 DEF CanonicalRead
  <2>2. /\ acceptGate[k.revision] \in GateRows \union {NoGateRow}
        /\ acceptEvidence[k.revision] \in Sources /\ constitutionOk \in BOOLEAN
    BY <1>0 DEF AcceptanceInv, AcceptanceTypes
  <2>3. /\ read \in AcceptanceReading /\ read.at = k.at /\ read.revision = k.revision /\ read.run = k.run
        /\ read.gate = acceptGate[k.revision] /\ read.prior = acceptEvidence[k.revision]
        /\ read.outcome = k.outcome
    <3>1. k.todo \ {what} \in SUBSET {"decision", "gates", "run", "jobs", "artifacts"}
      BY DEF AcceptanceReading
    <3> HIDE DEF read
    <3>2. read \in AcceptanceReading
      BY <2>1, <2>2, <3>1 DEF AcceptanceReading
    <3> QED BY <2>1, <3>2 DEF AcceptanceReading
  <2>4. read.gate # NoGateRow /\ read.gate.linked => HasReceipt(k.revision)
    BY <1>0, <2>3 DEF AcceptanceInv, TablesOK, LinkedGates
  <2> QED BY <2>3, <2>4 DEF ReadOK, Verifying
<1> QED BY <1>1, <1>2

LEMMA BeginsKeepAcceptance ==
  ASSUME AcceptanceInv, NEW c \in AcceptanceCalls,
         \/ \E run \in FinalRuns : BeginAcceptance(c, run)
         \/ OpenCompass(c) \/ AbandonAcceptance(c) \/ TryAgain(c)
  PROVE  AcceptanceInv'
<1>1. ASSUME NEW at \in {"canonical", "page"}, NEW run \in FinalRuns \union {0},
             at # "page" => run \in FinalRuns
      PROVE  Begun(at, run) \in AcceptanceReading /\ ReadOK(Begun(at, run))
  <2>1. Begun(at, run) \in AcceptanceReading
    BY DEF AcceptanceInv, AcceptanceTypes, Begun, AcceptanceReading, Sources
  <2>2. NoGateRow = NoGateRow /\ at \notin Verifying
    BY DEF Verifying
  <2> QED BY <1>1, <2>1, <2>2 DEF Begun, ReadOK
<1>2. CASE \E run \in FinalRuns : BeginAcceptance(c, run)
  <2>1. PICK run \in FinalRuns : BeginAcceptance(c, run)
    BY <1>2
  <2> QED BY <1>1, <2>1, ReadingIsOK, QuietKeepsAcceptance DEF BeginAcceptance
<1>3. CASE OpenCompass(c)
  BY <1>1, <1>3, ReadingIsOK, QuietKeepsAcceptance DEF OpenCompass
<1>4. CASE AbandonAcceptance(c) \/ TryAgain(c)
  BY <1>4, RestingIsNoCall, QuietKeepsAcceptance DEF AbandonAcceptance, TryAgain
<1> QED BY <1>2, <1>3, <1>4

LEMMA PreflightOK ==
  ASSUME AcceptanceInv, NEW k \in AcceptanceReading, ReadOK(k), k.at = "canonical"
  PROVE  /\ Preflighted(k) \in AcceptanceReading \union Reported \union {Resting}
         /\ CallOK(Preflighted(k))
<1> DEFINE next == [k EXCEPT !.at = "github", !.todo = {"run", "jobs", "artifacts"}]
<1>1. CASE Preflighted(k) = Resting
  BY <1>1, RestingIsNoCall
<1>2. CASE Preflighted(k) = AcceptedOn(k, k.prior) /\ ReceiptOf(k.gate, k.prior)
  <2>1. AcceptedOn(k, k.prior) \in Reported /\ ReportOK(AcceptedOn(k, k.prior))
    BY <1>2, LinkedReadIsReceipt DEF AcceptedOn, Reported, AcceptanceReading, ReportOK
  <2> QED BY <1>2, <2>1, ReportedIsOK
<1>3. CASE Preflighted(k) = next /\ PreflightReady(k.revision, k.outcome, k.compliant)
  <2>1. /\ next \in AcceptanceReading /\ next.at = "github" /\ next.todo = {"run", "jobs", "artifacts"}
        /\ next.revision = k.revision /\ next.run = k.run /\ next.gate = k.gate
        /\ next.prior = k.prior /\ next.outcome = k.outcome /\ next.compliant = k.compliant
    BY DEF AcceptanceReading, Verifying
  <2>2. ReadOK(next)
    BY <1>3, <2>1 DEF ReadOK
  <2> QED BY <1>3, <2>1, <2>2, ReadingIsOK
<1> QED BY <1>1, <1>2, <1>3 DEF Preflighted

LEMMA ReadsKeepAcceptance ==
  ASSUME AcceptanceInv, NEW c \in AcceptanceCalls, NEW what \in {"decision", "gates"},
         ReadForAcceptance(c, what) \/ ReadForCompass(c, what)
  PROVE  AcceptanceInv'
<1> DEFINE k == CanonicalRead(accepting[c], what)
<1>0. accepting[c] \in AcceptanceReading /\ accepting[c].at \in {"canonical", "page"} /\ ReadOK(accepting[c])
  <2>1. accepting[c] \in AcceptanceReading \union Reported \union {Resting} /\ CallOK(accepting[c])
    BY DEF AcceptanceInv, AcceptanceTypes
  <2>2. accepting[c].at \in {"canonical", "page"}
    BY DEF ReadForAcceptance, ReadForCompass, Accepting
  <2>3. accepting[c] \notin Reported \union {Resting}
    BY <2>2 DEF Reported, Resting
  <2> QED BY <2>1, <2>2, <2>3 DEF CallOK
<1>1. k \in AcceptanceReading /\ ReadOK(k) /\ k.at = accepting[c].at
  BY <1>0, CanonicalReadOK
<1>2. CASE ReadForAcceptance(c, what)
  <2>1. k.at = "canonical"
    BY <1>1, <1>2 DEF ReadForAcceptance, Accepting
  <2>2. CASE k.todo = {}
    BY <1>1, <1>2, <2>1, <2>2, PreflightOK, QuietKeepsAcceptance DEF ReadForAcceptance
  <2>3. CASE k.todo # {}
    BY <1>1, <1>2, <2>3, ReadingIsOK, QuietKeepsAcceptance DEF ReadForAcceptance
  <2> QED BY <2>2, <2>3
<1>3. CASE ReadForCompass(c, what)
  <2> DEFINE page == [at |-> "shown", revision |-> k.revision, source |-> k.prior,
                      compass |-> CompassShows(k).status, page |-> AcceptancePageShows(k)]
  <2>1. CASE k.todo = {}
    <3>1. CompassShows(k).status = "complete" <=>
            /\ k.outcome = "approve" /\ ReceiptOf(k.gate, k.prior)
            /\ PreflightReady(k.revision, k.outcome, k.compliant)
      BY DEF CompassShows
    <3>2. AcceptancePageShows(k) = "receipt" <=>
            /\ ReceiptOf(k.gate, k.prior)
            /\ PreflightReady(k.revision, k.outcome, k.compliant)
      BY DEF AcceptancePageShows
    <3>3. /\ CompassShows(k).status \in {"complete", "active"}
          /\ AcceptancePageShows(k) \in {"blockers", "receipt", "panel"}
      BY DEF CompassShows, AcceptancePageShows
    <3>4. page \in Reported
      BY <1>1, <3>3 DEF Reported, AcceptanceReading
    <3>5. (CompassShows(k).status = "complete") <=> (AcceptancePageShows(k) = "receipt")
      BY <3>1, <3>2 DEF PreflightReady
    <3>6. CompassShows(k).status = "complete" =>
            \E a \in acceptReceipts : a.revision = k.revision /\ a.source = k.prior
      BY <1>1, <3>1, LinkedReadIsReceipt
    <3>7. ReportOK(page)
      BY <3>5, <3>6 DEF ReportOK
    <3> QED
      BY <1>3, <2>1, <3>4, <3>7, ReportedIsOK, QuietKeepsAcceptance DEF ReadForCompass
  <2>2. CASE k.todo # {}
    BY <1>1, <1>3, <2>2, ReadingIsOK, QuietKeepsAcceptance DEF ReadForCompass
  <2> QED BY <2>1, <2>2
<1> QED BY <1>2, <1>3

LEMMA VerifiedOK ==
  ASSUME NEW k \in AcceptanceReading, ReadOK(k), k.at = "github", k.todo = {}
  PROVE  Verified(k) \in AcceptanceReading \union {Resting} /\ CallOK(Verified(k))
<1> DEFINE At(at) == [k EXCEPT !.at = at]
<1>1. ASSUME NEW at \in {"create", "evidence", "pass"}
      PROVE  /\ At(at) \in AcceptanceReading /\ At(at).at = at /\ At(at).revision = k.revision
             /\ At(at).run = k.run /\ At(at).gate = k.gate /\ At(at).prior = k.prior
             /\ At(at).outcome = k.outcome /\ At(at).compliant = k.compliant
             /\ At(at).source = k.source /\ At(at).todo = k.todo
  BY DEF AcceptanceReading, Verifying
<1> HIDE DEF At
<1>2. ASSUME NEW at \in {"create", "evidence", "pass"},
             at # "create" => k.gate # NoGateRow /\ k.gate.status = "not-ready",
             at = "pass" => k.prior # NoSource /\ k.prior = k.source
      PROVE  ReadOK(At(at))
  <2>1. k.at \in Verifying /\ at \in Verifying
    BY DEF Verifying
  <2> QED BY <1>1, <1>2, <2>1 DEF ReadOK
<1>3. CASE k.gate = NoGateRow
  BY <1>1, <1>2, <1>3, ReadingIsOK DEF Verified, At
<1>4. CASE k.gate # NoGateRow /\ (k.gate.status # "not-ready" \/ k.prior \notin {NoSource, k.source})
  BY <1>4, RestingIsNoCall DEF Verified
<1>5. CASE /\ k.gate # NoGateRow /\ k.gate.status = "not-ready"
           /\ k.prior \in {NoSource, k.source}
  <2>1. Verified(k) = At(IF k.prior = NoSource THEN "evidence" ELSE "pass")
    BY <1>5 DEF Verified, At
  <2>2. ReadOK(Verified(k)) /\ Verified(k) \in AcceptanceReading
    BY <1>1, <1>2, <1>5, <2>1
  <2> QED BY <2>2, ReadingIsOK
<1> QED BY <1>3, <1>4, <1>5

LEMMA InHand ==
  ASSUME AcceptanceInv, NEW c \in AcceptanceCalls, NEW at \in Verifying, Accepting(c, at)
  PROVE  accepting[c] \in AcceptanceReading /\ ReadOK(accepting[c])
<1>1. accepting[c] \in AcceptanceReading \union Reported \union {Resting} /\ CallOK(accepting[c])
  BY DEF AcceptanceInv, AcceptanceTypes
<1>2. accepting[c] \notin Reported \union {Resting}
  BY DEF Accepting, Verifying, Reported, Resting
<1> QED BY <1>1, <1>2 DEF CallOK

LEMMA GitHubKeepsAcceptance ==
  ASSUME AcceptanceInv, NEW c \in AcceptanceCalls, NEW what \in {"run", "jobs", "artifacts"},
         ReadGitHub(c, what)
  PROVE  AcceptanceInv'
<1> DEFINE k == accepting[c]
           left == [k EXCEPT !.todo = @ \ {what}]
<1>0. /\ k \in AcceptanceReading /\ ReadOK(k) /\ k.at = "github" /\ "github" \in Verifying
      /\ k.run \in FinalRuns /\ NothingWritten
  <2>1. k \in AcceptanceReading /\ ReadOK(k) /\ k.at = "github" /\ NothingWritten
    BY InHand DEF ReadGitHub, Accepting, Verifying
  <2> QED BY <2>1 DEF ReadOK, Verifying
<1>1. /\ left \in AcceptanceReading /\ left.at = "github" /\ left.revision = k.revision
      /\ left.run = k.run /\ left.gate = k.gate /\ left.prior = k.prior
      /\ left.outcome = k.outcome /\ left.compliant = k.compliant
      /\ left.source = k.source /\ left.todo = k.todo \ {what}
  BY <1>0 DEF AcceptanceReading
<1> HIDE DEF left
<1>2. ASSUME NEW read \in AcceptanceReading, ReadOK(read), read.at = "github",
             Become(c, IF read.todo = {} THEN Verified(read) ELSE read)
      PROVE  AcceptanceInv'
  <2>1. CASE read.todo = {}
    BY <1>0, <1>2, <2>1, VerifiedOK, QuietKeepsAcceptance
  <2>2. CASE read.todo # {}
    BY <1>0, <1>2, <2>2, ReadingIsOK, QuietKeepsAcceptance
  <2> QED BY <2>1, <2>2
<1>3. CASE Refused(c)
  BY <1>0, <1>3, RestingIsNoCall, QuietKeepsAcceptance DEF Refused
<1>4. ASSUME what = "artifacts", NEW u \in finalUploads, u.run = k.run,
             NEW read, read = [left EXCEPT !.source = [run |-> k.run, upload |-> u.id]]
      PROVE  read \in AcceptanceReading /\ ReadOK(read) /\ read.at = "github"
  <2> DEFINE source == [run |-> k.run, upload |-> u.id]
  <2>1. u.id \in Nat \ {0}
    BY DEF AcceptanceInv, AcceptanceTypes, Uploads
  <2>2. source \in Sources /\ source # NoSource /\ source.run = k.run /\ UploadOf(source)
    BY <1>0, <1>4, <2>1 DEF Sources, NoSource, UploadOf
  <2> HIDE DEF source
  <2>3. read = [left EXCEPT !.source = source]
    BY <1>4 DEF source
  <2>4. /\ read \in AcceptanceReading /\ read.at = "github" /\ read.revision = k.revision
        /\ read.run = k.run /\ read.gate = k.gate /\ read.prior = k.prior
        /\ read.outcome = k.outcome /\ read.compliant = k.compliant
        /\ read.source = source /\ read.todo = k.todo \ {"artifacts"}
    BY <1>1, <1>4, <2>2, <2>3 DEF AcceptanceReading
  <2>5. ReadOK(read)
    BY <1>0, <2>2, <2>4 DEF ReadOK
  <2> QED BY <2>4, <2>5
<1>5. ASSUME what # "artifacts", FinalRevisionOf[k.run] = k.revision,
             finalRuns[k.run].conclusion = "success"
      PROVE  ReadOK(left)
  <2>1. PassedOn(k.run, k.revision)
    BY <1>0, <1>5 DEF PassedOn, AcceptanceInv, TablesOK, RunsKeepPasses
  <2> QED BY <1>0, <1>1, <1>5, <2>1 DEF ReadOK
<1>6. CASE what = "artifacts"
  <2>1. Refused(c) \/ \E u \in finalUploads : u.run = k.run
          /\ LET read == [left EXCEPT !.source = [run |-> k.run, upload |-> u.id]]
             IN Become(c, IF read.todo = {} THEN Verified(read) ELSE read)
    BY <1>6 DEF ReadGitHub, left
  <2> QED BY <1>2, <1>3, <1>4, <1>6, <2>1
<1>7. CASE what # "artifacts"
  <2>1. \/ Refused(c)
        \/ /\ FinalRevisionOf[k.run] = k.revision /\ finalRuns[k.run].conclusion = "success"
           /\ Become(c, IF left.todo = {} THEN Verified(left) ELSE left)
    BY <1>7 DEF ReadGitHub, left
  <2> QED BY <1>1, <1>2, <1>3, <1>5, <1>7, <2>1
<1> QED BY <1>6, <1>7

LEMMA CreateGateKeeps ==
  ASSUME AcceptanceInv, NEW c \in AcceptanceCalls, CreateGate(c)
  PROVE  AcceptanceInv'
<1> SUFFICES ASSUME NEW k, k = accepting[c] PROVE AcceptanceInv'
  OBVIOUS
<1> DEFINE new == [version |-> 1, status |-> "not-ready", linked |-> FALSE]
           next == [k EXCEPT !.at = "evidence", !.gate = new]
<1>0. k \in AcceptanceReading /\ ReadOK(k) /\ k.at = "create" /\ World
        /\ UNCHANGED <<acceptEvidence, acceptReceipts, acceptSettled>>
  BY InHand DEF CreateGate, Accepting, Verifying
<1>1. CASE Refused(c) /\ UNCHANGED acceptGate
  BY <1>0, <1>1, RestingIsNoCall, QuietKeepsAcceptance DEF Refused, NothingWritten
<1>2. CASE /\ acceptGate[k.revision] = NoGateRow /\ Become(c, next)
           /\ acceptGate' = [acceptGate EXCEPT ![k.revision] = new]
  <2>1. new \in GateRows /\ new # NoGateRow
    BY AcceptanceAssumption DEF GateRows, NoGateRow
  <2>2. /\ next \in AcceptanceReading /\ next.at = "evidence" /\ next.revision = k.revision
        /\ next.run = k.run /\ next.gate = new /\ next.prior = k.prior
        /\ next.outcome = k.outcome /\ next.compliant = k.compliant
        /\ next.source = k.source /\ next.todo = k.todo
    <3> HIDE DEF new
    <3> QED BY <1>0, <2>1 DEF AcceptanceReading, Verifying
  <2>3. NothingUndone
    BY <1>0 DEF World, NothingUndone
  <2>4. AcceptanceTypes'
    <3> HIDE DEF new, next
    <3> QED
      BY <1>0, <1>2, <2>1, <2>2 DEF World, AcceptanceInv, AcceptanceTypes, Become
  <2>5. RunsKeepPasses' /\ LinkedGates' /\ EvidenceIsSettled'
    <3>1. \A q \in AcceptedRevisions :
            acceptGate'[q] = acceptGate[q] \/ ~acceptGate'[q].linked
      BY <1>2 DEF AcceptanceInv, AcceptanceTypes
    <3> QED
      BY <1>0, <3>1
      DEF World, AcceptanceInv, TablesOK, RunsKeepPasses, LinkedGates, HasReceipt,
          EvidenceIsSettled
  <2>6. CallOK(next)
    <3>1. ReadOK(next)
      BY <1>0, <2>1, <2>2 DEF ReadOK, Verifying
    <3> QED BY <2>2, <3>1, ReadingIsOK
  <2>7. CallOK(next)'
    BY <2>3, <2>6, CallsStay DEF AcceptanceInv
  <2> QED
    BY <1>0, <1>2, <2>3, <2>4, <2>5, <2>7, CallKeepsAcceptance
<1> QED BY <1>1, <1>2 DEF CreateGate

LEMMA AddGateEvidenceKeeps ==
  ASSUME AcceptanceInv, NEW c \in AcceptanceCalls, AddGateEvidence(c)
  PROVE  AcceptanceInv'
<1> SUFFICES ASSUME NEW k, k = accepting[c] PROVE AcceptanceInv'
  OBVIOUS
<1> SUFFICES ASSUME NEW row, row = Vouched(k, k.source) PROVE AcceptanceInv'
  OBVIOUS
<1> DEFINE next == [k EXCEPT !.at = "pass"]
<1>0. k \in AcceptanceReading /\ ReadOK(k) /\ k.at = "evidence" /\ World
        /\ UNCHANGED <<acceptGate, acceptReceipts>>
  BY InHand DEF AddGateEvidence, Accepting, Verifying
<1>1. CASE Refused(c) /\ UNCHANGED <<acceptEvidence, acceptSettled>>
  BY <1>0, <1>1, RestingIsNoCall, QuietKeepsAcceptance DEF Refused, NothingWritten
<1>2. CASE /\ acceptEvidence[k.revision] = NoSource /\ Become(c, next)
           /\ acceptEvidence' = [acceptEvidence EXCEPT ![k.revision] = k.source]
           /\ acceptSettled' = acceptSettled \union {row}
  <2>1. k.revision \in AcceptedRevisions /\ k.source \in Sources
    BY <1>0 DEF AcceptanceReading
  <2>2. /\ next \in AcceptanceReading /\ next.at = "pass" /\ next.revision = k.revision
        /\ next.run = k.run /\ next.gate = k.gate /\ next.prior = k.prior
        /\ next.outcome = k.outcome /\ next.compliant = k.compliant
        /\ next.source = k.source /\ next.todo = k.todo
    BY <1>0 DEF AcceptanceReading, Verifying
  <2>3. NothingUndone
    BY <1>0, <1>2 DEF World, NothingUndone, AcceptanceInv, AcceptanceTypes
  <2>8. row \in ReceiptRows
    BY <1>0, <2>1 DEF AcceptanceReading, Vouched, ReceiptRows
  <2>4. AcceptanceTypes'
    <3> HIDE DEF next
    <3> QED
      BY <1>0, <1>2, <2>1, <2>2, <2>8 DEF World, AcceptanceInv, AcceptanceTypes, Become
  <2>5. RunsKeepPasses' /\ LinkedGates'
    BY <1>0 DEF World, AcceptanceInv, TablesOK, RunsKeepPasses, LinkedGates, HasReceipt
  <2>9. EvidenceIsSettled'
    <3>1. \A q \in AcceptedRevisions :
            q # k.revision => acceptEvidence'[q] = acceptEvidence[q]
      BY <1>2 DEF AcceptanceInv, AcceptanceTypes
    <3>2. row.revision = k.revision /\ row \in acceptSettled'
      BY <1>2 DEF Vouched
    <3> QED BY <1>2, <3>1, <3>2 DEF AcceptanceInv, TablesOK, EvidenceIsSettled
  <2>10. ReceiptOK(row)'
    <3>1. /\ row.revision = k.revision /\ row.source = k.source /\ row.verified = k.source
          /\ row.compliant = k.compliant
      BY DEF Vouched
    <3>2. /\ PreflightReady(k.revision, k.outcome, k.compliant) /\ PassedOn(k.run, k.revision)
          /\ k.source # NoSource /\ k.source.run = k.run /\ UploadOf(k.source)
          /\ reviewOutcome[CandidateOf[k.revision]] = "approve"
      BY <1>0 DEF ReadOK, Verifying, PreflightReady
    <3>3. acceptEvidence'[k.revision] = k.source
      BY <1>2, <2>1 DEF AcceptanceInv, AcceptanceTypes
    <3> QED
      BY <1>0, <3>1, <3>2, <3>3 DEF World, ReceiptOK, PassedOn, UploadOf, PreflightReady
  <2>6. CallOK(next)'
    <3>1. ReadOK(k)'
      BY <1>0, <2>3, ReadsStay DEF AcceptanceInv
    <3>2. acceptEvidence'[k.revision] = k.source
      BY <1>2, <2>1 DEF AcceptanceInv, AcceptanceTypes
    <3> HIDE DEF next
    <3>3. ReadOK(next)'
      BY <1>0, <2>2, <3>1, <3>2 DEF ReadOK, Verifying
    <3>4. ReportOK(next)'
      BY <2>2 DEF ReportOK
    <3> QED BY <3>3, <3>4 DEF CallOK
  <2> QED
    BY <1>0, <1>2, <2>3, <2>4, <2>5, <2>6, <2>9, <2>10, CallKeepsAcceptance
<1> QED BY <1>0, <1>1, <1>2 DEF AddGateEvidence

LEMMA PassGateKeeps ==
  ASSUME AcceptanceInv, NEW c \in AcceptanceCalls, PassGate(c)
  PROVE  AcceptanceInv'
<1> SUFFICES ASSUME NEW k, k = accepting[c] PROVE AcceptanceInv'
  OBVIOUS
<1> SUFFICES ASSUME NEW row,
                    row = [version |-> acceptGate[k.revision].version + 1,
                           status |-> "pass", linked |-> TRUE],
                    NEW receipt,
                    receipt = Vouched(k, acceptEvidence[k.revision])
             PROVE  AcceptanceInv'
  OBVIOUS
<1> DEFINE next == AcceptedOn(k, k.source)
<1>0. k \in AcceptanceReading /\ ReadOK(k) /\ k.at = "pass" /\ World
        /\ UNCHANGED <<acceptEvidence, acceptSettled>>
  BY InHand DEF PassGate, Accepting, Verifying
<1>1. CASE Refused(c) /\ UNCHANGED <<acceptGate, acceptReceipts>>
  BY <1>0, <1>1, RestingIsNoCall, QuietKeepsAcceptance DEF Refused, NothingWritten
<1>2. CASE /\ acceptGate[k.revision].version = k.gate.version
           /\ acceptEvidence[k.revision] # NoSource
           /\ acceptGate' = [acceptGate EXCEPT ![k.revision] = row]
           /\ acceptReceipts' = acceptReceipts \union {receipt}
           /\ Become(c, next)
  <2>1. /\ k.revision \in AcceptedRevisions /\ k.source \in Sources
        /\ k.outcome \in {"none", "approve", "reject"} /\ k.compliant \in BOOLEAN
        /\ k.gate \in GateRows \union {NoGateRow}
    BY <1>0 DEF AcceptanceReading
  <2>2. /\ PreflightReady(k.revision, k.outcome, k.compliant) /\ PassedOn(k.run, k.revision)
        /\ k.source # NoSource /\ k.source.run = k.run /\ UploadOf(k.source)
        /\ k.gate # NoGateRow /\ k.gate.status = "not-ready"
        /\ acceptEvidence[k.revision] = k.source
        /\ reviewOutcome[CandidateOf[k.revision]] = "approve"
    BY <1>0 DEF ReadOK, Verifying, PreflightReady
  <2>3. row \in GateRows
    <3>1. k.gate.version \in 1..MaxAcceptVersion
      BY <2>1, <2>2, AcceptanceAssumption DEF GateRows
    <3> QED BY <1>2, <3>1, AcceptanceAssumption DEF GateRows
  <2>4. NothingUndone
    BY <1>0, <1>2 DEF World, NothingUndone
  <2>5. receipt \in ReceiptRows /\ receipt.revision = k.revision
    BY <2>1, <2>2 DEF Vouched, ReceiptRows
  <2>6. next \in Reported
    BY <2>1 DEF AcceptedOn, Reported
  <2>7. AcceptanceTypes'
    <3> HIDE DEF next
    <3> QED
      BY <1>0, <1>2, <2>3, <2>5, <2>6 DEF World, AcceptanceInv, AcceptanceTypes, Become
  <2>8. LinkedGates'
    <3>1. \A q \in AcceptedRevisions : q # k.revision => acceptGate'[q] = acceptGate[q]
      BY <1>2 DEF AcceptanceInv, AcceptanceTypes
    <3>2. HasReceipt(k.revision)'
      BY <1>2, <2>5 DEF HasReceipt
    <3> QED BY <1>2, <3>1, <3>2 DEF AcceptanceInv, TablesOK, LinkedGates, HasReceipt
  <2>9. RunsKeepPasses' /\ EvidenceIsSettled'
    BY <1>0 DEF World, AcceptanceInv, TablesOK, RunsKeepPasses, EvidenceIsSettled
  <2>10. ReceiptOK(receipt)'
    BY <1>0, <2>2 DEF World, Vouched, ReceiptOK, PassedOn, UploadOf, PreflightReady
  <2>11. CallOK(next)'
    <3>1. ReportOK(next)'
      BY <1>2, <2>2 DEF Vouched, ReportOK, AcceptedOn
    <3>2. next \notin AcceptanceReading
      BY DEF AcceptedOn, AcceptanceReading, Verifying
    <3> QED BY <3>1, <3>2 DEF CallOK
  <2> QED
    BY <1>0, <1>2, <2>4, <2>7, <2>8, <2>9, <2>10, <2>11, CallKeepsAcceptance
<1> QED BY <1>0, <1>1, <1>2 DEF PassGate

(* What the calls and the pages have read, each at its moment, is so for   *)
(* good or is compared again when they write.                              *)
THEOREM AcceptanceInvariant == SpecAcceptance => []AcceptanceInv
<1>1. AcceptanceInv /\ [NextAcceptance]_acceptanceVars => AcceptanceInv'
  <2> SUFFICES ASSUME AcceptanceInv, [NextAcceptance]_acceptanceVars PROVE AcceptanceInv'
    OBVIOUS
  <2>1. CASE WorldMoves
    BY <2>1, WorldStep
  <2>2. ASSUME NEW c \in AcceptanceCalls,
               \/ \E run \in FinalRuns : BeginAcceptance(c, run)
               \/ \E what \in {"decision", "gates"} : ReadForAcceptance(c, what)
               \/ \E what \in {"run", "jobs", "artifacts"} : ReadGitHub(c, what)
               \/ CreateGate(c) \/ AddGateEvidence(c) \/ PassGate(c)
               \/ AbandonAcceptance(c) \/ TryAgain(c) \/ OpenCompass(c)
               \/ \E what \in {"decision", "gates"} : ReadForCompass(c, what)
        PROVE  AcceptanceInv'
    BY <2>2, BeginsKeepAcceptance, ReadsKeepAcceptance, GitHubKeepsAcceptance, CreateGateKeeps,
       AddGateEvidenceKeeps, PassGateKeeps
  <2>3. CASE UNCHANGED acceptanceVars
    <3>1. NothingUndone
      BY <2>3 DEF acceptanceVars, NothingUndone
    <3>2. AcceptanceTypes' /\ RunsKeepPasses' /\ LinkedGates' /\ EvidenceIsSettled'
      BY <2>3
      DEF acceptanceVars, AcceptanceInv, AcceptanceTypes, TablesOK, RunsKeepPasses, LinkedGates,
          HasReceipt, EvidenceIsSettled
    <3> QED BY <2>3, <3>1, <3>2, WorldKeepsAcceptance DEF acceptanceVars
  <2> QED BY <2>1, <2>2, <2>3 DEF NextAcceptance, WorldMoves
<1> QED BY <1>1, AcceptanceInit, PTL DEF SpecAcceptance

(* However calls of recordCompassAcceptanceAction race with each other,    *)
(* with reviewers, the gates' other clients, GitHub and deployments: every *)
(* receipt is backed and one for its revision, and what a call or a page   *)
(* reports as accepted is such a receipt.                                  *)
THEOREM AcceptancesAreBacked == SpecAcceptance => []AcceptanceIsBacked
<1>1. AcceptanceInv => ReceiptsAreBacked
  BY DEF AcceptanceInv, TablesOK, ReceiptOK, PassedOn, UploadOf, ReceiptsAreBacked
<1>2. AcceptanceInv => ReportsAreReceipts
  BY DEF AcceptanceInv, CallOK, ReportOK, ReportsAreReceipts
<1> QED BY <1>1, <1>2, AcceptanceInvariant, PTL DEF AcceptanceIsBacked

(* A step of the world: a decision, an answer, a pass by another client,   *)
(* or a stutter.                                                           *)
LEMMA WorldRecords ==
  ASSUME AcceptanceInv, WorldMoves
  PROVE  [Acceptance!RecordNext]_(Acceptance!recordVars)
<1> USE DEF Acceptance!recordVars
<1>1. ASSUME NEW d \in ReviewCandidates, NEW o \in {"approve", "reject"}, Review(d, o)
      PROVE  Acceptance!RecordNext
  <2>1. d \in Acceptance!Candidates
    BY DEF ReviewCandidates, Acceptance!Candidates
  <2>2. Acceptance!Decide(d)
    BY <1>1 DEF Review, Acceptance!Decide, RunsPassed, UploadsMade, RevisionsAccepted
  <2> QED BY <2>1, <2>2 DEF Acceptance!RecordNext
<1>2. ASSUME NEW run \in FinalRuns, NEW s \in {"success", "failure"}, FinishRun(run, s)
      PROVE  Acceptance!RecordNext
  <2>1. \A q \in FinalRuns :
          finalRuns'[q] = IF q = run THEN [conclusion |-> s,
                                           passed |-> finalRuns[run].passed \/ s = "success"]
                          ELSE finalRuns[q]
    BY <1>2 DEF FinishRun, AcceptanceInv, AcceptanceTypes
  <2>2. RunsPassed' \in {RunsPassed, RunsPassed \union {run}}
    <3>1. \A q \in FinalRuns : q # run => finalRuns'[q].passed = finalRuns[q].passed
      BY <2>1
    <3>2. finalRuns[run].passed => finalRuns'[run].passed
      <4>1. finalRuns'[run].passed = (finalRuns[run].passed \/ s = "success")
        BY <2>1
      <4> QED BY <4>1, Zenon
    <3>3. CASE finalRuns'[run].passed
      <4>1. RunsPassed' = RunsPassed \union {run}
        BY <3>1, <3>3 DEF RunsPassed
      <4> QED BY <4>1
    <3>4. CASE ~finalRuns'[run].passed
      <4>1. RunsPassed' = RunsPassed
        BY <3>1, <3>2, <3>4 DEF RunsPassed
      <4> QED BY <4>1
    <3> QED BY <3>3, <3>4
  <2>3. UploadsMade \subseteq UploadsMade'
    BY <1>2 DEF FinishRun, UploadsMade
  <2>4. Acceptance!Finish(run)
    BY <1>2, <2>2, <2>3 DEF FinishRun, Acceptance!Finish, RevisionsAccepted
  <2> QED BY <2>4 DEF Acceptance!RecordNext
<1>3. ASSUME NEW run \in FinalRuns, RunFinalAgain(run)
      PROVE  UNCHANGED Acceptance!recordVars
  <2>1. \A q \in FinalRuns : finalRuns'[q].passed = finalRuns[q].passed
    BY <1>3 DEF RunFinalAgain, AcceptanceInv, AcceptanceTypes
  <2>2. RunsPassed' = RunsPassed
    BY <2>1 DEF RunsPassed
  <2> QED BY <1>3, <2>2 DEF RunFinalAgain, UploadsMade, RevisionsAccepted
<1>4. ASSUME NEW u \in finalUploads, ExpireUpload(u)
      PROVE  UNCHANGED Acceptance!recordVars
  <2>1. u \in Uploads
    BY DEF AcceptanceInv, AcceptanceTypes
  <2>2. PICK v : v = [u EXCEPT !.expired = TRUE]
    OBVIOUS
  <2>3. v.run = u.run /\ v.id = u.id /\ finalUploads' = (finalUploads \ {u}) \union {v}
    BY <1>4, <2>1, <2>2 DEF ExpireUpload, Uploads
  <2>4. UploadsMade' = UploadsMade
    BY <2>3 DEF UploadsMade
  <2> QED BY <1>4, <2>4 DEF ExpireUpload, RunsPassed, RevisionsAccepted
<1>5. ASSUME Reassess \/ \E r \in AcceptedRevisions : DeployCompass(r)
      PROVE  UNCHANGED Acceptance!recordVars
  BY <1>5 DEF Reassess, DeployCompass, RunsPassed, UploadsMade, RevisionsAccepted
<1>6. ASSUME NEW r \in AcceptedRevisions, NEW s \in {"not-ready", "blocked", "pass"},
             NEW linked \in BOOLEAN, ReviseGate(r, s, linked)
      PROVE  [Acceptance!RecordNext]_(Acceptance!recordVars)
  <2>1. CASE linked
    <3>1. acceptEvidence[r] # NoSource
            /\ acceptReceipts' = acceptReceipts \union {a \in acceptSettled : a.revision = r}
      BY <1>6, <2>1 DEF ReviseGate
    <3>2. \E a \in acceptSettled : a.revision = r
      BY <3>1 DEF AcceptanceInv, TablesOK, EvidenceIsSettled
    <3>3. RevisionsAccepted' = RevisionsAccepted \union {r}
      BY <3>1, <3>2 DEF RevisionsAccepted
    <3>4. Acceptance!Accept(r)
      BY <1>6, <3>1, <3>3 DEF ReviseGate, Acceptance!Accept, RunsPassed, UploadsMade
    <3> QED BY <3>4 DEF Acceptance!RecordNext
  <2>2. CASE ~linked
    BY <1>6, <2>2 DEF ReviseGate, RunsPassed, UploadsMade, RevisionsAccepted
  <2> QED BY <2>1, <2>2
<1> QED BY <1>1, <1>2, <1>3, <1>4, <1>5, <1>6 DEF WorldMoves

(* A step of a call: evidence settles its revision, a pass accepts it.     *)
LEMMA CallRecords ==
  ASSUME AcceptanceInv, NEW c \in AcceptanceCalls,
         \/ \E run \in FinalRuns : BeginAcceptance(c, run)
         \/ \E what \in {"decision", "gates"} : ReadForAcceptance(c, what)
         \/ \E what \in {"run", "jobs", "artifacts"} : ReadGitHub(c, what)
         \/ CreateGate(c) \/ AddGateEvidence(c) \/ PassGate(c)
         \/ AbandonAcceptance(c) \/ TryAgain(c) \/ OpenCompass(c)
         \/ \E what \in {"decision", "gates"} : ReadForCompass(c, what)
  PROVE  [Acceptance!RecordNext]_(Acceptance!recordVars)
<1> USE DEF Acceptance!recordVars
<1>1. ASSUME NothingWritten \/ CreateGate(c)
      PROVE  UNCHANGED Acceptance!recordVars
  BY <1>1 DEF NothingWritten, World, CreateGate, RunsPassed, UploadsMade, RevisionsAccepted
<1>2. CASE AddGateEvidence(c)
  <2> SUFFICES ASSUME NEW k, k = accepting[c],
                      acceptEvidence[k.revision] = NoSource,
                      acceptEvidence' = [acceptEvidence EXCEPT ![k.revision] = k.source]
               PROVE  Acceptance!RecordNext
    BY <1>2 DEF AddGateEvidence, World, RunsPassed, UploadsMade, RevisionsAccepted
  <2>1. k \in AcceptanceReading /\ ReadOK(k) /\ k.at = "evidence"
    BY <1>2, InHand DEF AddGateEvidence, Accepting, Verifying
  <2>2. k.revision \in AcceptedRevisions /\ k.source \in Sources
    BY <2>1 DEF AcceptanceReading
  <2>3. /\ PreflightReady(k.revision, k.outcome, k.compliant) /\ PassedOn(k.run, k.revision)
        /\ k.run \in FinalRuns /\ k.source # NoSource /\ k.source.run = k.run
        /\ UploadOf(k.source) /\ reviewOutcome[CandidateOf[k.revision]] = "approve"
    BY <2>1 DEF ReadOK, Verifying, PreflightReady
  <2>4. k.source = [run |-> k.source.run, upload |-> k.source.upload]
    BY <2>2, <2>3 DEF Sources
  <2>5. k.source \in UploadsMade
    BY <2>3, <2>4 DEF UploadOf, UploadsMade
  <2>6. Acceptance!Fit(k.revision) /\ k.source.run \in RunsPassed
    BY <2>3 DEF Acceptance!Fit, PreflightReady, PassedOn, RunsPassed
  <2>7. Acceptance!Settle(k.revision, k.source)
    BY <1>2, <2>3, <2>6
    DEF AddGateEvidence, World, PassedOn, Acceptance!Settle, RunsPassed, UploadsMade,
        RevisionsAccepted
  <2> QED BY <2>2, <2>5, <2>7 DEF Acceptance!RecordNext
<1>3. CASE PassGate(c)
  <2> SUFFICES ASSUME NEW k, k = accepting[c], acceptEvidence[k.revision] # NoSource,
                      NEW receipt, receipt.revision = k.revision,
                      acceptReceipts' = acceptReceipts \union {receipt}
               PROVE  Acceptance!RecordNext
    BY <1>3 DEF PassGate, Vouched, World, RunsPassed, UploadsMade, RevisionsAccepted
  <2>1. k.revision \in AcceptedRevisions
    BY <1>3, InHand DEF PassGate, Accepting, Verifying, AcceptanceReading
  <2>2. RevisionsAccepted' = RevisionsAccepted \union {k.revision}
    BY DEF RevisionsAccepted
  <2>3. Acceptance!Accept(k.revision)
    BY <1>3, <2>2 DEF PassGate, World, Acceptance!Accept, RunsPassed, UploadsMade
  <2> QED BY <2>1, <2>3 DEF Acceptance!RecordNext
<1>4. NothingWritten \/ CreateGate(c) \/ AddGateEvidence(c) \/ PassGate(c)
  BY DEF BeginAcceptance, ReadForAcceptance, ReadGitHub, AbandonAcceptance, TryAgain,
         OpenCompass, ReadForCompass
<1> QED BY <1>1, <1>2, <1>3, <1>4

(* The acceptance action, with its reads and its three writes, implements  *)
(* RevisionAcceptance: whatever was read when, a revision is settled on a  *)
(* source that is fit at that instant, and accepted only after that.       *)
THEOREM AcceptanceImplementsRecord == SpecAcceptance => AcceptanceContract
<1>1. InitAcceptance => Acceptance!RecordInit
  BY DEF InitAcceptance, ReviewCandidates, RunsPassed, UploadsMade, RevisionsAccepted,
         Acceptance!RecordInit, Acceptance!Candidates
<1>2. AcceptanceInv /\ [NextAcceptance]_acceptanceVars
        => [Acceptance!RecordNext]_(Acceptance!recordVars)
  <2>1. UNCHANGED acceptanceVars => UNCHANGED Acceptance!recordVars
    BY DEF acceptanceVars, Acceptance!recordVars, RunsPassed, UploadsMade, RevisionsAccepted
  <2> QED BY <2>1, WorldRecords, CallRecords DEF NextAcceptance, WorldMoves
<1> QED BY <1>1, <1>2, AcceptanceInvariant, PTL
  DEF SpecAcceptance, AcceptanceContract, Acceptance!RecordSpec

(* Versions, sources and stages of the calls stay within their types.      *)
THEOREM AcceptanceIsTyped == SpecAcceptance => []TypeOKAcceptance
<1>1. AcceptanceInv => TypeOKAcceptance
  <2> SUFFICES ASSUME AcceptanceInv PROVE TypeOKAcceptance
    OBVIOUS
  <2>1. ASSUME NEW r \in AcceptedRevisions PROVE acceptGate[r].version \in 0..MaxAcceptVersion + 1
    <3>1. acceptGate[r] \in GateRows \union {NoGateRow}
      BY DEF AcceptanceInv, AcceptanceTypes
    <3> QED BY <3>1, AcceptanceAssumption DEF GateRows, NoGateRow
  <2>2. ASSUME NEW r \in AcceptedRevisions PROVE acceptEvidence[r].run \in FinalRuns \union {0}
    <3>1. acceptEvidence[r] \in Sources
      BY DEF AcceptanceInv, AcceptanceTypes
    <3> QED BY <3>1 DEF Sources, NoSource
  <2>3. ASSUME NEW c \in AcceptanceCalls
        PROVE  accepting[c].at \in {"resting", "canonical", "github", "create", "evidence",
                                    "pass", "accepted", "page", "shown"}
    <3>1. accepting[c] \in AcceptanceReading \union Reported \union {Resting}
      BY DEF AcceptanceInv, AcceptanceTypes
    <3> QED BY <3>1 DEF AcceptanceReading, Reported, Resting, Verifying
  <2> QED BY <2>1, <2>2, <2>3 DEF TypeOKAcceptance
<1> QED BY <1>1, AcceptanceInvariant, PTL

-----------------------------------------------------------------------------
(* The publication of a ratified law.  A request holds an attempt and an   *)
(* artifact that it read at different moments: an attempt that succeeded   *)
(* never changes, and an artifact only expires.                            *)

Conclusions == {"running", "success", "failure"}
GateAttempts == [gate : Conclusions, other : Conclusions]
RunsHaveAttempts ==
  /\ gateRuns \in [GateRuns -> Seq(GateAttempts)]
  /\ \A r \in GateRuns : Len(gateRuns[r]) >= 1

(* Evidence is written by a candidate check that held. *)
Archives == {NoEvidence} \union {EvidenceOf(r, n) : r \in GateRuns, n \in Nat}
EvidenceUploads ==
  {u \in [run : GateRuns, revision : {GateRevisionOf[r] : r \in GateRuns},
          evidence : Archives, expired : BOOLEAN] :
     u.evidence.written => CandidateChecks(GateRevisionOf[u.run])}

FoundArtifact == {"archive", "prepared", "main", "active", "verified"}
FoundAttempt == {"evidence"} \union FoundArtifact
Compared == {"prepared", "main", "active", "verified"}

RequestOK(k) ==
  /\ k.at \in FoundAttempt =>
       /\ k.attempt \in DOMAIN gateRuns[k.run]
       /\ Succeeded(gateRuns[k.run][k.attempt])
       /\ GateRevisionOf[k.run] = Sealed
  /\ k.at \in FoundArtifact =>
       /\ k.artifact \in DOMAIN uploads
       /\ uploads[k.artifact].run = k.run
       /\ PatchApplies(Originals[Sealed], PatchAt[Sealed])
  /\ k.at \in Compared => SealHolds(uploads[k.artifact].evidence, k.run, k.attempt)
  /\ k.at = "main" => (mainHead = k.runtime => k.wasMain)
  /\ k.at \in {"active", "verified"} => k.wasMain
  /\ k.at = "verified" => Originals[k.runtime] = Patched(PatchAt[Sealed])

PublicationInv ==
  /\ TypeOKPublication /\ RunsHaveAttempts /\ uploads \in Seq(EvidenceUploads)
  /\ \A u \in Publishers : RequestOK(publishing[u])

(* What a request knows of runs and artifacts stays true. *)
NothingTakenBack ==
  /\ \A r \in GateRuns : \A n \in DOMAIN gateRuns[r] :
       Succeeded(gateRuns[r][n]) =>
         n \in DOMAIN gateRuns'[r] /\ gateRuns'[r][n] = gateRuns[r][n]
  /\ \A i \in DOMAIN uploads :
       /\ i \in DOMAIN uploads' /\ uploads'[i].run = uploads[i].run
       /\ uploads'[i].evidence = uploads[i].evidence

Requests == Publications \union {NoPublication, RefusedPublication}

LEMMA RequestKeepsKnowing ==
  ASSUME NothingTakenBack, NEW k \in Requests, RequestOK(k),
         k.at = "main" => (mainHead' = k.runtime => k.wasMain)
  PROVE  RequestOK(k)'
<1>1. CASE k.at \in FoundAttempt
  <2>1. k \in Publications
    BY <1>1 DEF Requests, NoPublication, RefusedPublication, FoundAttempt, FoundArtifact
  <2>2. k.run \in GateRuns
    BY <2>1 DEF Publications
  <2>3. /\ k.attempt \in DOMAIN gateRuns'[k.run]
        /\ gateRuns'[k.run][k.attempt] = gateRuns[k.run][k.attempt]
    BY <1>1, <2>2 DEF NothingTakenBack, RequestOK
  <2>4. k.at \in FoundArtifact =>
          /\ k.artifact \in DOMAIN uploads' /\ uploads'[k.artifact].run = uploads[k.artifact].run
          /\ uploads'[k.artifact].evidence = uploads[k.artifact].evidence
    BY DEF NothingTakenBack, RequestOK
  <2>5. Compared \subseteq FoundArtifact
    BY DEF Compared, FoundArtifact
  <2> QED BY <2>3, <2>4, <2>5 DEF RequestOK
<1>2. CASE k.at \notin FoundAttempt
  BY <1>2 DEF RequestOK, FoundAttempt, FoundArtifact, Compared
<1> QED BY <1>1, <1>2

(* The newest of some artifacts is one of them. *)
LEMMA NewestIsOne ==
  ASSUME NEW n \in Nat, NEW s \in SUBSET (1..n), s # {}
  PROVE  Newest(s) \in s
<1> DEFINE after(i) == {j \in s : i <= j}
           T == {after(i) : i \in s}
<1>1. IsFiniteSet(s)
  <2>1. IsFiniteSet(1..n)
    BY FS_Interval
  <2> QED BY <2>1, FS_Subset
<1>2. T \subseteq SUBSET s /\ T # {}
  OBVIOUS
<1>3. PICK t \in T : \A v \in SUBSET t : v # t => v \notin T
  <2> HIDE DEF T
  <2> QED BY <1>1, <1>2, MinimalCounterexample
<1>4. PICK i \in s : t = after(i)
  BY <1>3
<1>5. ASSUME NEW j \in s PROVE j <= i
  <2>1. SUFFICES ASSUME j > i PROVE FALSE
    OBVIOUS
  <2>2. after(j) \subseteq after(i) /\ i \in after(i) /\ i \notin after(j)
    <3>1. i \in Int /\ j \in Int
      OBVIOUS
    <3>2. ASSUME NEW k \in s, j <= k PROVE i <= k
      <4>1. k \in Int
        OBVIOUS
      <4> QED BY <2>1, <3>1, <3>2, <4>1
    <3>3. ~(j <= i) /\ i <= i
      BY <2>1, <3>1
    <3> QED BY <3>2, <3>3
  <2>3. after(j) \in T
    OBVIOUS
  <2> QED BY <1>3, <1>4, <2>2, <2>3
<1> QED BY <1>5 DEF Newest

LEMMA OneAttempt == ASSUME NEW S, NEW x \in S PROVE <<x>> \in Seq(S) /\ Len(<<x>>) = 1
  OBVIOUS

LEMMA ReplaceOne ==
  ASSUME NEW S, NEW s \in Seq(S), NEW n \in 1..Len(s), NEW x \in S,
         NEW t, t = [s EXCEPT ![n] = x]
  PROVE  /\ t \in Seq(S) /\ Len(t) = Len(s) /\ DOMAIN t = DOMAIN s
         /\ \A m \in DOMAIN s : t[m] = IF m = n THEN x ELSE s[m]
  OBVIOUS

LEMMA AddOne ==
  ASSUME NEW S, NEW s \in Seq(S), NEW x \in S
  PROVE  /\ Append(s, x) \in Seq(S) /\ Len(Append(s, x)) = Len(s) + 1
         /\ \A m \in DOMAIN s : m \in DOMAIN Append(s, x) /\ Append(s, x)[m] = s[m]
  OBVIOUS

LEMMA PublicationInit == ASSUME InitPublication PROVE PublicationInv
<1>1. RunsHaveAttempts
  <2> DEFINE first == [gate |-> "running", other |-> "running"]
  <2>1. first \in GateAttempts
    BY DEF GateAttempts, Conclusions
  <2>2. gateRuns = [r \in GateRuns |-> <<first>>]
    BY DEF InitPublication
  <2> HIDE DEF first
  <2>3. <<first>> \in Seq(GateAttempts) /\ Len(<<first>>) = 1
    BY <2>1, OneAttempt
  <2>4. gateRuns \in [GateRuns -> Seq(GateAttempts)]
    BY <2>2, <2>3
  <2>5. \A r \in GateRuns : Len(gateRuns[r]) >= 1
    BY <2>2, <2>3
  <2> QED BY <2>4, <2>5 DEF RunsHaveAttempts
<1>2. TypeOKPublication
  BY PublicationAssumption DEF InitPublication, TypeOKPublication
<1>3. uploads \in Seq(EvidenceUploads)
  BY DEF InitPublication
<1>4. \A u \in Publishers : RequestOK(publishing[u])
  BY DEF InitPublication, RequestOK, FoundAttempt, FoundArtifact, Compared, NoPublication
<1> QED BY <1>1, <1>2, <1>3, <1>4 DEF PublicationInv

(* A step of the gate, of its uploads or of the deployment. *)
LEMMA OutsideKeepsRequests ==
  ASSUME PublicationInv, NothingTakenBack, UNCHANGED <<mainHead, publishing>>,
         RunsHaveAttempts', uploads' \in Seq(EvidenceUploads), liveRevision' \in GitRevisions
  PROVE  PublicationInv'
<1>1. TypeOKPublication'
  BY DEF PublicationInv, TypeOKPublication
<1>2. ASSUME NEW u \in Publishers PROVE RequestOK(publishing[u])'
  <2>1. publishing[u] \in Requests /\ RequestOK(publishing[u]) /\ publishing'[u] = publishing[u]
    BY DEF PublicationInv, TypeOKPublication, Requests
  <2>2. publishing[u].at = "main" => (mainHead' = publishing[u].runtime => publishing[u].wasMain)
    BY <2>1 DEF RequestOK
  <2>3. SUFFICES ASSUME NEW k, k = publishing[u] PROVE RequestOK(k)'
    BY <2>1 DEF RequestOK
  <2> QED BY <2>1, <2>2, <2>3, RequestKeepsKnowing
<1> QED BY <1>1, <1>2 DEF PublicationInv

(* An attempt that still runs changes, or another one begins. *)
LEMMA AttemptsKeepRuns ==
  ASSUME RunsHaveAttempts, NEW r \in GateRuns, NEW s \in Seq(GateAttempts),
         Len(s) >= Len(gateRuns[r]), gateRuns' = [gateRuns EXCEPT ![r] = s],
         \A n \in DOMAIN gateRuns[r] :
           Succeeded(gateRuns[r][n]) => n \in DOMAIN s /\ s[n] = gateRuns[r][n]
  PROVE  /\ RunsHaveAttempts'
         /\ \A q \in GateRuns : \A n \in DOMAIN gateRuns[q] :
              Succeeded(gateRuns[q][n]) =>
                n \in DOMAIN gateRuns'[q] /\ gateRuns'[q][n] = gateRuns[q][n]
<1>1. \A q \in GateRuns : gateRuns'[q] = IF q = r THEN s ELSE gateRuns[q]
  BY DEF RunsHaveAttempts
<1>2. gateRuns' \in [GateRuns -> Seq(GateAttempts)]
  BY DEF RunsHaveAttempts
<1>3. Len(gateRuns[r]) \in Nat /\ Len(s) \in Nat
  BY DEF RunsHaveAttempts
<1>4. \A q \in GateRuns : Len(gateRuns'[q]) >= 1
  BY <1>1, <1>3 DEF RunsHaveAttempts
<1> QED BY <1>1, <1>2, <1>4 DEF RunsHaveAttempts

LEMMA FinishKeepsPublication ==
  ASSUME PublicationInv, NEW r \in GateRuns, NEW conclusion \in {"success", "failure"},
         FinishGate(r, conclusion) \/ FinishOther(r, conclusion)
  PROVE  PublicationInv'
<1> DEFINE s == gateRuns[r]
           last == s[Len(s)]
           gate == [last EXCEPT !.gate = conclusion]
           other == [last EXCEPT !.other = conclusion]
<1>1. s \in Seq(GateAttempts) /\ Len(s) \in 1..Len(s) /\ Len(s) \in Nat
  <2>1. s \in Seq(GateAttempts) /\ Len(s) >= 1
    BY DEF PublicationInv, RunsHaveAttempts
  <2> HIDE DEF s
  <2> QED BY <2>1
<1>2. last \in GateAttempts
  <2> HIDE DEF s
  <2> QED BY <1>1
<1>3. gate \in GateAttempts /\ other \in GateAttempts
  BY <1>2 DEF GateAttempts, Conclusions
<1>4. ~Succeeded(last)
  BY DEF FinishGate, FinishOther, LastAttempt, Last, Succeeded
<1>5. \E next \in {gate, other} : gateRuns' = [gateRuns EXCEPT ![r] = [s EXCEPT ![Len(s)] = next]]
  <2>1. CASE FinishGate(r, conclusion)
    BY <2>1 DEF FinishGate
  <2>2. CASE FinishOther(r, conclusion)
    BY <2>2 DEF FinishOther
  <2> QED BY <2>1, <2>2
<1>6. PICK next \in {gate, other} : gateRuns' = [gateRuns EXCEPT ![r] = [s EXCEPT ![Len(s)] = next]]
  BY <1>5
<1>7. PICK t : t = [s EXCEPT ![Len(s)] = next]
  OBVIOUS
<1>8. next \in GateAttempts
  BY <1>3
<1> HIDE DEF gate, other
<1>9. /\ t \in Seq(GateAttempts) /\ Len(t) = Len(s)
      /\ \A n \in DOMAIN s : Succeeded(s[n]) => n \in DOMAIN t /\ t[n] = s[n]
  <2> HIDE DEF s
  <2>1. /\ t \in Seq(GateAttempts) /\ Len(t) = Len(s) /\ DOMAIN t = DOMAIN s
        /\ \A n \in DOMAIN s : t[n] = IF n = Len(s) THEN next ELSE s[n]
    BY <1>1, <1>7, <1>8, ReplaceOne
  <2> QED BY <1>4, <2>1
<1>10. /\ RunsHaveAttempts'
       /\ \A q \in GateRuns : \A n \in DOMAIN gateRuns[q] :
            Succeeded(gateRuns[q][n]) =>
              n \in DOMAIN gateRuns'[q] /\ gateRuns'[q][n] = gateRuns[q][n]
  <2>1. Len(t) >= Len(gateRuns[r]) /\ gateRuns' = [gateRuns EXCEPT ![r] = t]
    BY <1>1, <1>6, <1>7, <1>9
  <2> QED BY <1>9, <2>1, AttemptsKeepRuns DEF PublicationInv
<1>11. /\ uploads' \in Seq(EvidenceUploads)
       /\ \A i \in DOMAIN uploads : i \in DOMAIN uploads' /\ uploads'[i] = uploads[i]
  <2>1. CASE FinishOther(r, conclusion)
    BY <2>1 DEF FinishOther, PublicationInv
  <2>2. CASE FinishGate(r, conclusion)
    <3> DEFINE evidence == IF conclusion = "success" THEN EvidenceOf(r, Len(gateRuns[r]))
                           ELSE NoEvidence
    <3>1. evidence \in Archives
      BY <1>1 DEF Archives
    <3>2. evidence.written => CandidateChecks(GateRevisionOf[r])
      BY <2>2 DEF FinishGate, NoEvidence
    <3>3. uploads' = Append(uploads, Upload(r, evidence))
      BY <2>2 DEF FinishGate
    <3> HIDE DEF evidence
    <3>4. Upload(r, evidence) \in EvidenceUploads
      BY <3>1, <3>2 DEF Upload, EvidenceUploads
    <3>5. uploads \in Seq(EvidenceUploads)
      BY DEF PublicationInv
    <3> QED BY <3>3, <3>4, <3>5, AddOne
  <2> QED BY <2>1, <2>2
<1>12. UNCHANGED <<mainHead, publishing, liveRevision>>
  BY DEF FinishGate, FinishOther
<1>13. NothingTakenBack
  BY <1>10, <1>11 DEF NothingTakenBack
<1> QED BY <1>10, <1>11, <1>12, <1>13, OutsideKeepsRequests
    DEF PublicationInv, TypeOKPublication

LEMMA RunAgainKeepsPublication ==
  ASSUME PublicationInv, NEW r \in GateRuns, NEW all \in BOOLEAN, RunAgain(r, all)
  PROVE  PublicationInv'
<1> DEFINE s == gateRuns[r]
           last == s[Len(s)]
           again(result) == IF all \/ result = "failure" THEN "running" ELSE result
           next == [gate |-> again(last.gate), other |-> again(last.other)]
<1>1. s \in Seq(GateAttempts) /\ Len(s) \in 1..Len(s) /\ Len(s) \in Nat
  <2>1. s \in Seq(GateAttempts) /\ Len(s) >= 1
    BY DEF PublicationInv, RunsHaveAttempts
  <2> HIDE DEF s
  <2> QED BY <2>1
<1>2. last \in GateAttempts
  <2> HIDE DEF s
  <2> QED BY <1>1
<1>3. next \in GateAttempts
  BY <1>2 DEF GateAttempts, Conclusions
<1>4. gateRuns' = [gateRuns EXCEPT ![r] = Append(s, next)]
  BY DEF RunAgain, LastAttempt, Last
<1> HIDE DEF next
<1>5. /\ Append(s, next) \in Seq(GateAttempts) /\ Len(Append(s, next)) = Len(s) + 1
      /\ \A n \in DOMAIN s : n \in DOMAIN Append(s, next) /\ Append(s, next)[n] = s[n]
  <2> HIDE DEF s
  <2> QED BY <1>1, <1>3, AddOne
<1>6. PICK t : t = Append(s, next)
  OBVIOUS
<1>7. Len(t) >= Len(gateRuns[r])
  BY <1>1, <1>5, <1>6
<1>8. /\ RunsHaveAttempts'
      /\ \A q \in GateRuns : \A n \in DOMAIN gateRuns[q] :
           Succeeded(gateRuns[q][n]) =>
             n \in DOMAIN gateRuns'[q] /\ gateRuns'[q][n] = gateRuns[q][n]
  BY <1>4, <1>5, <1>6, <1>7, AttemptsKeepRuns DEF PublicationInv
<1>9. UNCHANGED <<uploads, mainHead, publishing, liveRevision>>
  BY DEF RunAgain
<1> QED BY <1>8, <1>9, OutsideKeepsRequests DEF NothingTakenBack, PublicationInv, TypeOKPublication

LEMMA ExpiryKeepsPublication ==
  ASSUME PublicationInv, NEW i \in DOMAIN uploads, Expire14Days(i)
  PROVE  PublicationInv'
<1>1. uploads \in Seq(EvidenceUploads) /\ i \in 1..Len(uploads)
  BY DEF PublicationInv
<1>2. uploads[i] \in EvidenceUploads
  BY <1>1
<1>3. [uploads[i] EXCEPT !.expired = TRUE] \in EvidenceUploads
  <2> DEFINE u == [uploads[i] EXCEPT !.expired = TRUE]
  <2>1. /\ u.run = uploads[i].run /\ u.evidence = uploads[i].evidence
        /\ u \in [run : GateRuns, revision : {GateRevisionOf[r] : r \in GateRuns},
                  evidence : Archives, expired : BOOLEAN]
    BY <1>2 DEF EvidenceUploads
  <2> HIDE DEF u
  <2>2. uploads[i].evidence.written => CandidateChecks(GateRevisionOf[uploads[i].run])
    BY <1>2 DEF EvidenceUploads
  <2>3. u \in EvidenceUploads
    BY <2>1, <2>2 DEF EvidenceUploads
  <2> QED BY <2>3 DEF u
<1>4. PICK u : u = [uploads[i] EXCEPT !.expired = TRUE]
  OBVIOUS
<1>5. uploads' = [uploads EXCEPT ![i] = u]
  BY <1>4 DEF Expire14Days
<1>6. u.run = uploads[i].run /\ u.evidence = uploads[i].evidence
  BY <1>2, <1>4 DEF EvidenceUploads
<1>7. /\ uploads' \in Seq(EvidenceUploads) /\ DOMAIN uploads' = DOMAIN uploads
      /\ \A j \in DOMAIN uploads : uploads'[j] = IF j = i THEN u ELSE uploads[j]
  BY <1>1, <1>3, <1>4, <1>5, ReplaceOne
<1>8. NothingTakenBack
  BY <1>6, <1>7 DEF Expire14Days, NothingTakenBack
<1> QED BY <1>7, <1>8, OutsideKeepsRequests
    DEF Expire14Days, PublicationInv, TypeOKPublication, RunsHaveAttempts

LEMMA DeploymentKeepsPublication ==
  ASSUME PublicationInv, DeployMain
  PROVE  PublicationInv'
<1>1. NothingTakenBack
  BY DEF DeployMain, NothingTakenBack
<1> QED BY <1>1, OutsideKeepsRequests DEF DeployMain, PublicationInv, TypeOKPublication, RunsHaveAttempts

LEMMA MainKeepsPublication ==
  ASSUME PublicationInv, NEW revision \in GitRevisions, MoveMain(revision)
  PROVE  PublicationInv'
<1>1. NothingTakenBack
  BY DEF MoveMain, NothingTakenBack
<1>2. ASSUME NEW u \in Publishers
      PROVE  publishing'[u] \in Requests /\ RequestOK(publishing'[u])
             /\ (publishing'[u].at = "main" => (mainHead' = publishing'[u].runtime => publishing'[u].wasMain))
  <2> DEFINE k == publishing[u]
             moved == [k EXCEPT !.wasMain = @ \/ revision = k.runtime]
  <2>1. k \in Requests /\ RequestOK(k)
    BY DEF PublicationInv, TypeOKPublication, Requests
  <2>2. CASE k.at \in {"main", "active"}
    <3>1. k \in Publications
      BY <2>1, <2>2 DEF Requests, NoPublication, RefusedPublication
    <3>2. /\ moved \in Publications /\ moved.at = k.at /\ moved.run = k.run
          /\ moved.runtime = k.runtime /\ moved.attempt = k.attempt /\ moved.artifact = k.artifact
          /\ moved.wasMain = (k.wasMain \/ revision = k.runtime)
      BY <3>1 DEF Publications
    <3>3. publishing'[u] = moved /\ mainHead' = revision
      BY <2>2 DEF MoveMain
    <3> HIDE DEF moved, k
    <3>4. RequestOK(moved)
      <4>1. moved.at = "active" => k.wasMain
        BY <2>1, <3>2 DEF RequestOK
      <4>2. moved.at = "main" /\ mainHead = moved.runtime => moved.wasMain
        BY <2>1, <3>2 DEF RequestOK
      <4>3. moved.at \notin {"prepared", "verified"}
        BY <2>2, <3>2
      <4> QED BY <2>1, <3>2, <4>1, <4>2, <4>3 DEF RequestOK
    <3> QED BY <3>2, <3>3, <3>4 DEF Requests
  <2>3. CASE k.at \notin {"main", "active"}
    <3>1. publishing'[u] = k
      BY <2>3 DEF MoveMain
    <3> HIDE DEF k
    <3> QED BY <2>1, <2>3, <3>1
  <2> QED BY <2>2, <2>3
<1>3. \A u \in Publishers : RequestOK(publishing[u])'
  <2> SUFFICES ASSUME NEW u \in Publishers PROVE RequestOK(publishing[u])'
    OBVIOUS
  <2>1. SUFFICES ASSUME NEW k, k = publishing'[u] PROVE RequestOK(k)'
    BY DEF RequestOK
  <2> QED BY <1>1, <1>2, <2>1, RequestKeepsKnowing
<1>4. TypeOKPublication'
  <2>1. publishing' = [u \in Publishers |-> publishing'[u]]
    BY DEF MoveMain
  <2>2. publishing' \in [Publishers -> Requests]
    BY <1>2, <2>1
  <2> QED BY <2>2 DEF MoveMain, TypeOKPublication, Requests, PublicationInv
<1> QED BY <1>3, <1>4 DEF PublicationInv, MoveMain, RunsHaveAttempts

(* A request reads, and goes on as k or is refused. *)
LEMMA RequestKeepsPublication ==
  ASSUME PublicationInv, Reading, NEW u \in Publishers, NEW k \in Requests, RequestOK(k),
         Proceed(u, k)
  PROVE  PublicationInv'
<1>1. publishing \in [Publishers -> Requests] /\ publishing' = [publishing EXCEPT ![u] = k]
  BY DEF PublicationInv, TypeOKPublication, Requests, Proceed
<1>2. publishing' \in [Publishers -> Requests]
  BY <1>1
<1>3. \A v \in Publishers : publishing'[v] = IF v = u THEN k ELSE publishing[v]
  BY <1>1
<1>4. ASSUME NEW v \in Publishers PROVE RequestOK(publishing[v])'
  <2>1. RequestOK(publishing'[v])
    BY <1>3 DEF PublicationInv
  <2> QED BY <2>1 DEF RequestOK, Reading
<1> QED BY <1>2, <1>4
    DEF PublicationInv, TypeOKPublication, RunsHaveAttempts, Requests, Reading

LEMMA RefusalKeepsPublication ==
  ASSUME PublicationInv, Reading, NEW u \in Publishers, Refuse(u)
  PROVE  PublicationInv'
<1>1. RequestOK(RefusedPublication) /\ RefusedPublication \in Requests
  BY DEF RequestOK, RefusedPublication, Requests, FoundAttempt, FoundArtifact, Compared
<1> QED BY <1>1, RequestKeepsPublication DEF Refuse

LEMMA RequestAt ==
  ASSUME PublicationInv, NEW u \in Publishers,
         publishing[u].at \in {"run", "evidence", "archive", "main", "active"}
  PROVE  publishing[u] \in Publications /\ RequestOK(publishing[u])
BY DEF PublicationInv, TypeOKPublication, NoPublication, RefusedPublication

LEMMA BeginKeepsPublication ==
  ASSUME PublicationInv, NEW u \in Publishers, NEW op \in {"prepare", "publish"},
         NEW r \in GateRuns, BeginPublication(u, op, r)
  PROVE  PublicationInv'
<1> DEFINE k == [at |-> "run", op |-> op, run |-> r, runtime |-> liveRevision,
                 verifying |-> FALSE, wasMain |-> FALSE, attempt |-> 0, artifact |-> 0]
<1>1. k \in Requests
  BY DEF PublicationInv, TypeOKPublication, Requests, Publications
<1>2. RequestOK(k)
  BY DEF RequestOK, FoundAttempt, FoundArtifact, Compared
<1>3. Proceed(u, k) /\ Reading
  BY DEF BeginPublication
<1> HIDE DEF k
<1> QED BY <1>1, <1>2, <1>3, RequestKeepsPublication

LEMMA RunKeepsPublication ==
  ASSUME PublicationInv, NEW u \in Publishers, ReadRun(u)
  PROVE  PublicationInv'
<1> DEFINE call == publishing[u]
           n == Len(gateRuns[call.run])
           k == [call EXCEPT !.at = "evidence", !.attempt = n]
<1>1. call \in Publications
  BY RequestAt DEF ReadRun, PublisherAt
<1>2. call.run \in GateRuns /\ n \in Nat /\ n \in DOMAIN gateRuns[call.run]
  <2>1. call.run \in GateRuns
    BY <1>1 DEF Publications
  <2>2. gateRuns[call.run] \in Seq(GateAttempts) /\ Len(gateRuns[call.run]) >= 1
    BY <2>1 DEF PublicationInv, RunsHaveAttempts
  <2> HIDE DEF call
  <2> QED BY <2>1, <2>2
<1>3. CASE GateRevisionOf[call.run] = Sealed /\ Succeeded(LastAttempt(call.run))
  <2>1. Proceed(u, k) /\ Reading
    BY <1>3 DEF ReadRun
  <2>2. Succeeded(gateRuns[call.run][n])
    BY <1>3 DEF LastAttempt, Last
  <2>3. /\ k \in Publications /\ k.at = "evidence" /\ k.run = call.run /\ k.attempt = n
    BY <1>1, <1>2 DEF Publications
  <2> HIDE DEF k, n
  <2>4. RequestOK(k)
    BY <1>2, <1>3, <2>2, <2>3 DEF RequestOK, FoundArtifact, Compared
  <2> QED BY <2>1, <2>3, <2>4, RequestKeepsPublication DEF Requests
<1>4. CASE ~(GateRevisionOf[call.run] = Sealed /\ Succeeded(LastAttempt(call.run)))
  BY <1>4, RefusalKeepsPublication DEF ReadRun
<1> QED BY <1>3, <1>4

LEMMA EvidenceKeepsPublication ==
  ASSUME PublicationInv, NEW u \in Publishers, ReadEvidence(u)
  PROVE  PublicationInv'
<1> DEFINE call == publishing[u]
           found == Newest(Available(call.run))
           k == [call EXCEPT !.at = "archive", !.artifact = found]
<1>1. call \in Publications /\ RequestOK(call) /\ call.at = "evidence"
  BY RequestAt DEF ReadEvidence, PublisherAt
<1>2. CASE Refuse(u)
  BY <1>2, RefusalKeepsPublication DEF ReadEvidence
<1>3. CASE /\ Available(call.run) # {} /\ PatchApplies(Originals[Sealed], PatchAt[Sealed])
           /\ Proceed(u, k)
  <2>1. Reading
    BY DEF ReadEvidence
  <2>2. found \in DOMAIN uploads /\ uploads[found].run = call.run /\ found \in Nat
    <3>1. Len(uploads) \in Nat /\ DOMAIN uploads = 1..Len(uploads)
      BY DEF PublicationInv
    <3>2. Available(call.run) \in SUBSET (1..Len(uploads))
      BY <3>1 DEF Available
    <3>3. found \in Available(call.run)
      BY <1>3, <3>1, <3>2, NewestIsOne
    <3> QED BY <3>1, <3>3 DEF Available
  <2> HIDE DEF found
  <2>3. /\ k \in Publications /\ k.at = "archive" /\ k.run = call.run
        /\ k.attempt = call.attempt /\ k.artifact = found
    BY <1>1, <2>2 DEF Publications
  <2> HIDE DEF k
  <2>4. RequestOK(k)
    BY <1>1, <1>3, <2>2, <2>3 DEF RequestOK, FoundAttempt, FoundArtifact, Compared
  <2> QED BY <1>3, <2>1, <2>3, <2>4, RequestKeepsPublication DEF Requests
<1> QED BY <1>2, <1>3 DEF ReadEvidence

LEMMA ArchiveKeepsPublication ==
  ASSUME PublicationInv, NEW u \in Publishers, ReadArchive(u)
  PROVE  PublicationInv'
<1> DEFINE call == publishing[u]
           read == Entries(call.artifact)
           main == [call EXCEPT !.at = "main", !.wasMain = (mainHead = call.runtime)]
           again == [call EXCEPT !.at = "run", !.verifying = TRUE]
           done == [call EXCEPT !.at = "prepared"]
<1>1. call \in Publications /\ RequestOK(call) /\ call.at = "archive" /\ Reading
  BY RequestAt DEF ReadArchive, PublisherAt
<1>2. CASE Refuse(u)
  BY <1>1, <1>2, RefusalKeepsPublication
<1>3. ASSUME SealHolds(read, call.run, call.attempt), NEW k \in {main, again, done}, Proceed(u, k)
      PROVE  PublicationInv'
  <2>1. uploads[call.artifact].evidence = read
    BY <1>3 DEF Entries, SealHolds, NoEvidence
  <2>2. /\ k \in Publications /\ k.run = call.run /\ k.runtime = call.runtime
        /\ k.attempt = call.attempt /\ k.artifact = call.artifact
        /\ k.at \in {"main", "run", "prepared"}
        /\ k.at = "main" => k.wasMain = (mainHead = call.runtime)
    <3>1. CASE k = main
      BY <1>1, <3>1 DEF Publications
    <3>2. CASE k = again
      BY <1>1, <3>2 DEF Publications
    <3>3. CASE k = done
      BY <1>1, <3>3 DEF Publications
    <3> QED BY <1>3, <3>1, <3>2, <3>3
  <2> HIDE DEF main, again, done, read
  <2>3. RequestOK(k)
    BY <1>1, <1>3, <2>1, <2>2 DEF RequestOK, FoundAttempt, FoundArtifact, Compared
  <2> QED BY <1>1, <1>3, <2>2, <2>3, RequestKeepsPublication DEF Requests
<1> QED BY <1>2, <1>3 DEF ReadArchive

LEMMA VerificationKeepsPublication ==
  ASSUME PublicationInv, NEW u \in Publishers, ReadMain(u) \/ ReadActive(u)
  PROVE  PublicationInv'
<1> DEFINE call == publishing[u]
<1>1. call \in Publications /\ RequestOK(call) /\ call.at \in {"main", "active"} /\ Reading
  BY RequestAt DEF ReadMain, ReadActive, PublisherAt
<1>2. CASE Refuse(u)
  BY <1>1, <1>2, RefusalKeepsPublication
<1>3. ASSUME NEW place \in {"active", "verified"}, Proceed(u, [call EXCEPT !.at = place]),
             call.wasMain, place = "verified" => Originals[call.runtime] = Patched(PatchAt[Sealed])
      PROVE  PublicationInv'
  <2> DEFINE k == [call EXCEPT !.at = place]
  <2>1. /\ k \in Publications /\ k.at = place /\ k.run = call.run /\ k.runtime = call.runtime
        /\ k.attempt = call.attempt /\ k.artifact = call.artifact /\ k.wasMain = call.wasMain
    BY <1>1 DEF Publications
  <2> HIDE DEF k
  <2>2. RequestOK(k)
    BY <1>1, <1>3, <2>1 DEF RequestOK, FoundAttempt, FoundArtifact, Compared
  <2>3. Proceed(u, k)
    BY <1>3 DEF k
  <2> QED BY <1>1, <2>1, <2>2, <2>3, RequestKeepsPublication DEF Requests
<1>4. CASE ReadMain(u) /\ mainHead = call.runtime
  BY <1>1, <1>3, <1>4 DEF ReadMain, PublisherAt, RequestOK
<1>5. CASE ReadActive(u) /\ Originals[call.runtime] = Patched(PatchAt[Sealed])
  BY <1>1, <1>3, <1>5 DEF ReadActive, PublisherAt, RequestOK
<1> QED BY <1>2, <1>4, <1>5 DEF ReadMain, ReadActive

(* However runs are started again, artifacts expire, main moves and other  *)
(* revisions are deployed while a request reads.                           *)
THEOREM PublicationInvariant == SpecPublication => []PublicationInv
<1>1. PublicationInv /\ [NextPublication]_publicationVars => PublicationInv'
  <2> SUFFICES ASSUME PublicationInv, [NextPublication]_publicationVars PROVE PublicationInv'
    OBVIOUS
  <2>1. CASE NextPublication
    <3>1. ASSUME NEW r \in GateRuns,
                 \/ \E conclusion \in {"success", "failure"} :
                      FinishGate(r, conclusion) \/ FinishOther(r, conclusion)
                 \/ \E all \in BOOLEAN : RunAgain(r, all)
          PROVE  PublicationInv'
      BY <3>1, FinishKeepsPublication, RunAgainKeepsPublication
    <3>2. ASSUME NEW u \in Publishers,
                 \/ \E op \in {"prepare", "publish"}, r \in GateRuns : BeginPublication(u, op, r)
                 \/ ReadRun(u) \/ ReadEvidence(u) \/ ReadArchive(u)
                 \/ ReadMain(u) \/ ReadActive(u) \/ RequestFails(u)
          PROVE  PublicationInv'
      <4>1. CASE RequestFails(u)
        BY <4>1, RefusalKeepsPublication DEF RequestFails
      <4> QED BY <3>2, <4>1, BeginKeepsPublication, RunKeepsPublication,
              EvidenceKeepsPublication, ArchiveKeepsPublication, VerificationKeepsPublication
    <3> QED BY <2>1, <3>1, <3>2, ExpiryKeepsPublication, MainKeepsPublication,
            DeploymentKeepsPublication DEF NextPublication
  <2>2. CASE UNCHANGED publicationVars
    BY <2>2 DEF publicationVars, PublicationInv, TypeOKPublication, RunsHaveAttempts, RequestOK
  <2> QED BY <2>1, <2>2
<1> QED BY <1>1, PublicationInit, PTL DEF SpecPublication

(* prepare and verify of GitHubConstitutionPublicationVerifier, for any    *)
(* revisions, runs and requests: what they accept rests on one attempt of  *)
(* the gate that succeeded whole and on the archive of that attempt; and a *)
(* law is verified as active by a revision that was main meanwhile, is not *)
(* the sealed one and holds every file as it was ratified.                 *)
THEOREM PublicationsAreBacked == SpecPublication => []PublicationIsBacked
<1>1. PublicationInv => EvidenceIsWhole
  <2> SUFFICES ASSUME PublicationInv, NEW u \in Publishers,
                      publishing[u].at \in {"prepared", "main", "active", "verified"}
               PROVE  LET call == publishing[u]
                          source == uploads[call.artifact]
                      IN /\ Succeeded(gateRuns[call.run][call.attempt])
                         /\ source.run = call.run /\ GateRevisionOf[source.run] = Sealed
                         /\ source.evidence.runAttempt = call.attempt
                         /\ source.evidence.authoritySet.authoritySetDigest = SealedDigest
    BY DEF EvidenceIsWhole
  <2>1. RequestOK(publishing[u])
    BY DEF PublicationInv
  <2> QED BY <2>1
      DEF RequestOK, FoundAttempt, FoundArtifact, Compared, SealHolds, SealedDigest, AttestSources
<1>2. PublicationInv => ActivationWasMain
  <2> SUFFICES ASSUME PublicationInv, NEW u \in Publishers, PublisherAt(u, "verified")
               PROVE  LET files == Originals[publishing[u].runtime]
                      IN /\ publishing[u].wasMain
                         /\ publishing[u].runtime # Sealed
                         /\ AttestSources(files, Sealed, 0).authoritySetDigest = SealedDigest
                         /\ \A path \in PublicationPaths : files[path] = PatchAt[Sealed][path].to
    BY DEF ActivationWasMain
  <2> DEFINE call == publishing[u]
  <2>1. /\ call.wasMain /\ Originals[call.runtime] = Patched(PatchAt[Sealed])
        /\ PatchApplies(Originals[Sealed], PatchAt[Sealed])
        /\ SealHolds(uploads[call.artifact].evidence, call.run, call.attempt)
        /\ call.artifact \in DOMAIN uploads /\ uploads[call.artifact].run = call.run
        /\ GateRevisionOf[call.run] = Sealed
    BY DEF PublicationInv, RequestOK, FoundAttempt, FoundArtifact, Compared, PublisherAt
  <2>2. \A path \in PublicationPaths : Patched(PatchAt[Sealed])[path] = PatchAt[Sealed][path].to
    BY <2>1 DEF PatchApplies, Patched
  <2>3. uploads[call.artifact] \in EvidenceUploads
    BY <2>1 DEF PublicationInv
  <2>4. CandidateChecks(Sealed)
    BY <2>1, <2>3 DEF EvidenceUploads, SealHolds
  <2>5. PICK path : path \in PublicationPaths
    BY DEF PublicationPaths
  <2>6. call.runtime # Sealed
    BY <2>1, <2>2, <2>4, <2>5 DEF CandidateChecks, PatchApplies
  <2> QED BY <2>1, <2>2, <2>6 DEF SealedDigest, AttestSources
<1> QED BY <1>1, <1>2, PublicationInvariant, PTL DEF PublicationIsBacked
-----------------------------------------------------------------------------
(* The compliance of the ecosystem.  An attestation may be wrong about one *)
(* thing, and about its verdict only by contradicting itself; files are    *)
(* recorded row by row, of revisions that stay where they are.             *)

Verdicts == {"compliant", "non-compliant"}
AttestationFields ==
  {"repository", "sourceRevision", "blueprintLevel", "policyVersion", "state",
   "pillars", "gates", "blockers"}

(* The audit's verdict is the one its entries give.                        *)
LEMMA AuditAddsUp ==
  ASSUME NEW q
  PROVE  /\ EvaluateCompliance(q).state \in Verdicts
         /\ EvaluateCompliance(q).state = "compliant"
              <=> CalculatedCompliant(EvaluateCompliance(q))
<1> DEFINE gates == [g \in ConstitutionalGates |-> GateAudit(q, g)]
           pillars == [p \in Pillars |-> PillarAudit(q, gates, p)]
           blockers == {g \in ConstitutionalGates : gates[g].state # "pass"}
                         \union UNION {pillars[p].missing : p \in Pillars}
           state == IF blockers = {} THEN "compliant" ELSE "non-compliant"
           audit == EvaluateCompliance(q)
<1>1. /\ audit.state = state /\ audit.pillars = pillars
      /\ audit.gates = gates /\ audit.blockers = blockers
  BY DEF EvaluateCompliance
<1>2. DOMAIN gates = ConstitutionalGates /\ DOMAIN pillars = Pillars
  OBVIOUS
<1>3. ASSUME NEW p \in Pillars, \A g \in ConstitutionalGates : gates[g].state = "pass"
      PROVE  pillars[p].state = "compliant" <=> pillars[p].missing = {}
  <2>1. pillars[p] = PillarAudit(q, gates, p)
    OBVIOUS
  <2> HIDE DEF gates, pillars
  <2> QED BY <1>3, <2>1 DEF PillarAudit
<1> HIDE DEF gates, pillars
<1>4. blockers = {} <=> /\ \A g \in ConstitutionalGates : gates[g].state = "pass"
                        /\ \A p \in Pillars : pillars[p].missing = {}
  OBVIOUS
<1> HIDE DEF blockers
<1>5. state \in Verdicts /\ (state = "compliant" <=> blockers = {})
  BY DEF Verdicts
<1> QED BY <1>1, <1>2, <1>3, <1>4, <1>5 DEF CalculatedCompliant

(* Of all that may be wrong in a file, only a wrong verdict is about the   *)
(* verdict, and the entries then contradict it.                            *)
LEMMA WrongOnce ==
  ASSUME NEW file, DOMAIN file = AttestationFields, file.state \in Verdicts,
         file.state = "compliant" <=> CalculatedCompliant(file),
         NEW doubted, NEW att \in Written(file, doubted)
  PROVE  /\ att.repository = file.repository /\ att.sourceRevision = file.sourceRevision
         /\ att.state \in Verdicts
         /\ Coherent(att) => att.state = file.state
<1>1. CASE att = [file EXCEPT !.state = Flip(@)]
  <2>1. /\ att.repository = file.repository /\ att.sourceRevision = file.sourceRevision
        /\ att.state = Flip(file.state) /\ att.pillars = file.pillars
        /\ att.gates = file.gates /\ att.blockers = file.blockers
    BY <1>1 DEF AttestationFields
  <2>2. att.state \in Verdicts /\ att.state # file.state
    BY <2>1 DEF Flip, Verdicts
  <2>3. ~Coherent(att)
    BY <2>1, <2>2 DEF Coherent, CalculatedCompliant, Verdicts
  <2> QED BY <2>1, <2>2, <2>3
<1>2. CASE att # [file EXCEPT !.state = Flip(@)]
  <2>1. \/ att = file \/ att = [file EXCEPT !.blockers = {}]
        \/ \E p \in Pillars : \/ att = [file EXCEPT !.pillars[p].state = Flip(@)]
                              \/ att = [file EXCEPT !.pillars = [h \in Pillars \ {p} |-> @[h]]]
        \/ \E g \in ConstitutionalGates :
             \/ att = [file EXCEPT !.gates[g].state = "pass"]
             \/ att = [file EXCEPT !.gates = [h \in ConstitutionalGates \ {g} |-> @[h]]]
    BY <1>2 DEF Written
  <2>2. ASSUME NEW x, NEW f \in {"blockers", "pillars", "gates"}, att = [file EXCEPT ![f] = x]
        PROVE  /\ att.repository = file.repository
               /\ att.sourceRevision = file.sourceRevision /\ att.state = file.state
    BY <2>2 DEF AttestationFields
  <2>3. CASE att = file \/ att = [file EXCEPT !.blockers = {}]
    BY <2>2, <2>3
  <2>4. CASE \E p \in Pillars : \/ att = [file EXCEPT !.pillars[p].state = Flip(@)]
                               \/ att = [file EXCEPT !.pillars = [h \in Pillars \ {p} |-> @[h]]]
    BY <2>2, <2>4
  <2>5. CASE \E g \in ConstitutionalGates :
               \/ att = [file EXCEPT !.gates[g].state = "pass"]
               \/ att = [file EXCEPT !.gates = [h \in ConstitutionalGates \ {g} |-> @[h]]]
    BY <2>2, <2>5
  <2>6. /\ att.repository = file.repository /\ att.sourceRevision = file.sourceRevision
        /\ att.state = file.state
    BY <2>1, <2>2, <2>3, <2>4, <2>5
  <2> QED BY <2>6
<1> QED BY <1>1, <1>2

(* An attestation on file comes from an audit of the revision it names, of *)
(* the repository it names.                                                *)
Told(att, events) ==
  /\ att.state \in Verdicts
  /\ \E a \in events : /\ a.repository = att.repository
                       /\ a.sourceRevision = att.sourceRevision
                       /\ Coherent(att) => a.state = att.state

HistoryGrows ==
  /\ commits \in [Repositories -> Seq(Manifests)]
  /\ \A r \in Repositories : Len(commits[r]) \in 1..MaxCommits[r] + activePolicy - 1

AdoptionOf(r) ==
  /\ adoption[r].sourceRevision \in 1..Len(commits[r])
  /\ adoption[r].manifest = commits[r][adoption[r].sourceRevision]

EcosystemInv ==
  /\ activePolicy \in 2..MaxPolicy /\ HistoryGrows
  /\ DOMAIN adoption \subseteq Repositories /\ \A r \in DOMAIN adoption : AdoptionOf(r)
  /\ DOMAIN attested = Repositories
  /\ \A r \in Repositories : attested[r] # NoAttestation => Told(attested[r], audits)
  /\ DOMAIN observations \subseteq Repositories
  /\ \A r \in DOMAIN observations :
       observations[r].attestation # NoAttestation => Told(observations[r].attestation, audits)

LEMMA EcosystemInit == ASSUME InitEcosystem PROVE EcosystemInv
<1>1. HistoryGrows
  <2> DEFINE first(r) == [policyVersion |-> 2, blueprintLevel |-> LevelOf[r],
                          inheritedPillars |-> Pillars, weakened |-> FALSE]
  <2>1. ASSUME NEW r \in Repositories PROVE first(r) \in Manifests
    BY EcosystemAssumption DEF Manifests
  <2>2. commits = [r \in Repositories |-> <<first(r)>>]
    BY DEF InitEcosystem
  <2> HIDE DEF first
  <2>3. \A r \in Repositories : commits[r] \in Seq(Manifests) /\ Len(commits[r]) = 1
    BY <2>1, <2>2
  <2>4. \A r \in Repositories : 1 \in 1..MaxCommits[r] + activePolicy - 1
    BY EcosystemAssumption DEF InitEcosystem
  <2> QED BY <2>2, <2>3, <2>4 DEF HistoryGrows
<1>2. \A r \in Repositories : AdoptionOf(r)
  <2>1. \A r \in Repositories : adoption[r].sourceRevision = 1 /\ adoption[r].manifest = commits[r][1]
    BY DEF InitEcosystem
  <2> QED BY <1>1, <2>1 DEF HistoryGrows, AdoptionOf
<1>3. \A r \in Repositories :
        attested[r] = NoAttestation /\ observations[r].attestation = NoAttestation
  BY DEF InitEcosystem
<1> QED BY <1>1, <1>2, <1>3, EcosystemAssumption DEF InitEcosystem, EcosystemInv

(* What the files rest on is not taken back. *)
Appended ==
  /\ audits \subseteq audits'
  /\ \A r \in Repositories :
       /\ Len(commits[r]) <= Len(commits'[r])
       /\ \A i \in 1..Len(commits[r]) : commits'[r][i] = commits[r][i]

LEMMA ToldStays ==
  ASSUME NEW att, NEW events, NEW more, Told(att, events), events \subseteq more
  PROVE  Told(att, more)
BY DEF Told

LEMMA AdoptionStays ==
  ASSUME NEW r \in Repositories, AdoptionOf(r), Appended, HistoryGrows, HistoryGrows',
         adoption'[r] = adoption[r]
  PROVE  AdoptionOf(r)'
<1>1. Len(commits[r]) \in Nat /\ Len(commits'[r]) \in Nat
  BY DEF HistoryGrows
<1> QED BY <1>1 DEF AdoptionOf, Appended

(* A manifest is appended to the history of one repository. *)
LEMMA CommitAppends ==
  ASSUME EcosystemInv, NEW r \in Repositories, NEW m \in Manifests,
         commits' = [commits EXCEPT ![r] = Append(@, m)],
         activePolicy' \in Nat,
         Len(commits[r]) + 1 <= MaxCommits[r] + activePolicy' - 1,
         activePolicy <= activePolicy', audits' = audits
  PROVE  HistoryGrows' /\ Appended
<1>1. /\ commits \in [Repositories -> Seq(Manifests)] /\ activePolicy \in Nat
      /\ \A s \in Repositories : MaxCommits[s] \in Nat /\ Len(commits[s]) \in Nat
      /\ \A s \in Repositories : Len(commits[s]) \in 1..MaxCommits[s] + activePolicy - 1
  <2>1. activePolicy \in 2..MaxPolicy /\ MaxPolicy \in Nat /\ HistoryGrows
    BY EcosystemAssumption DEF EcosystemInv
  <2>2. \A s \in Repositories : MaxCommits[s] \in Nat
    BY EcosystemAssumption
  <2>3. \A s \in Repositories : Len(commits[s]) \in Nat
    BY <2>1 DEF HistoryGrows
  <2> QED BY <2>1, <2>2, <2>3 DEF HistoryGrows
<1>2. commits' \in [Repositories -> Seq(Manifests)]
  BY <1>1
<1>3. /\ Len(commits'[r]) = Len(commits[r]) + 1
      /\ \A i \in 1..Len(commits[r]) : commits'[r][i] = commits[r][i]
  BY <1>1
<1>4. \A s \in Repositories : s # r => commits'[s] = commits[s]
  BY <1>1
<1>5. ASSUME NEW s \in Repositories
      PROVE  /\ Len(commits'[s]) \in 1..MaxCommits[s] + activePolicy' - 1
             /\ Len(commits[s]) <= Len(commits'[s])
             /\ \A i \in 1..Len(commits[s]) : commits'[s][i] = commits[s][i]
  <2>1. CASE s = r
    BY <1>1, <1>3, <2>1
  <2>2. CASE s # r
    BY <1>1, <1>4, <2>2
  <2> QED BY <2>1, <2>2
<1> QED BY <1>2, <1>5 DEF HistoryGrows, Appended

(* A step that leaves both files and the attestations alone.               *)
LEMMA HistoryKeepsEcosystem ==
  ASSUME EcosystemInv, HistoryGrows', Appended, activePolicy' \in 2..MaxPolicy,
         UNCHANGED <<attested, adoption, observations>>
  PROVE  EcosystemInv'
<1>1. \A r \in DOMAIN adoption : AdoptionOf(r)'
  BY AdoptionStays DEF EcosystemInv
<1>2. \A r \in Repositories : attested[r] # NoAttestation => Told(attested[r], audits')
  BY ToldStays DEF EcosystemInv, Appended
<1>3. \A r \in DOMAIN observations :
        observations[r].attestation # NoAttestation => Told(observations[r].attestation, audits')
  BY ToldStays DEF EcosystemInv, Appended
<1> QED BY <1>1, <1>2, <1>3 DEF EcosystemInv

LEMMA CommitKeepsEcosystem ==
  ASSUME EcosystemInv,
         \/ \E r \in Repositories, m \in Adoptions : CommitManifest(r, m)
         \/ PublishVersion
  PROVE  EcosystemInv'
<1>1. activePolicy \in Nat /\ MaxPolicy \in Nat /\ activePolicy \in 2..MaxPolicy
  BY EcosystemAssumption DEF EcosystemInv
<1>2. ASSUME NEW r \in Repositories, NEW m \in Adoptions, CommitManifest(r, m)
      PROVE  EcosystemInv'
  <2>1. MaxCommits[r] \in Nat /\ Len(commits[r]) \in Nat /\ m \in Manifests
    BY EcosystemAssumption DEF EcosystemInv, HistoryGrows
  <2>2. /\ commits' = [commits EXCEPT ![r] = Append(@, m)]
        /\ activePolicy' = activePolicy /\ audits' = audits
        /\ activePolicy' \in Nat /\ activePolicy <= activePolicy'
        /\ Len(commits[r]) + 1 <= MaxCommits[r] + activePolicy' - 1
    BY <1>1, <1>2, <2>1 DEF CommitManifest
  <2>3. HistoryGrows' /\ Appended
    BY <1>1, <2>1, <2>2, CommitAppends
  <2> QED BY <1>1, <1>2, <2>3, HistoryKeepsEcosystem DEF CommitManifest
<1>3. ASSUME PublishVersion PROVE EcosystemInv'
  <2> DEFINE h == HubRepository
             last == Last(commits[h])
             m == [last EXCEPT !.policyVersion = activePolicy']
  <2>1. /\ h \in Repositories /\ commits[h] \in Seq(Manifests)
        /\ MaxCommits[h] \in Nat /\ Len(commits[h]) \in 1..MaxCommits[h] + activePolicy - 1
    BY EcosystemAssumption DEF EcosystemInv, HistoryGrows
  <2>2. last \in Manifests
    BY <1>1, <2>1 DEF Last
  <2>3. activePolicy' = activePolicy + 1 /\ activePolicy' \in Nat /\ activePolicy' \in 2..MaxPolicy
    BY <1>1, <1>3 DEF PublishVersion
  <2> HIDE DEF last
  <2>4. m \in Manifests
    <3>1. CASE last = NoManifest
      BY <3>1 DEF NoManifest, Manifests
    <3>2. CASE last # NoManifest
      BY <2>2, <2>3, <3>2 DEF Manifests
    <3> QED BY <3>1, <3>2
  <2>5. commits' = [commits EXCEPT ![h] = Append(@, m)]
    BY <1>3 DEF PublishVersion, last
  <2> HIDE DEF h, m
  <2>6. /\ Len(commits[h]) + 1 <= MaxCommits[h] + activePolicy' - 1
        /\ audits' = audits /\ activePolicy <= activePolicy'
    BY <1>1, <1>3, <2>1, <2>3 DEF PublishVersion
  <2>7. HistoryGrows' /\ Appended
    BY <1>1, <2>1, <2>3, <2>4, <2>5, <2>6, CommitAppends
  <2> QED BY <1>3, <2>3, <2>7, HistoryKeepsEcosystem DEF PublishVersion
<1> QED BY <1>2, <1>3

LEMMA AttestKeepsEcosystem ==
  ASSUME EcosystemInv,
         NEW r \in Repositories, NEW q \in Qualities[r], AuditAndAttest(r, q)
  PROVE  EcosystemInv'
<1> DEFINE audit == EvaluateCompliance(q)
           level == Last(commits[r]).blueprintLevel
           version == Last(commits[r]).policyVersion
           file == [repository |-> r, sourceRevision |-> Len(commits[r]),
                    blueprintLevel |-> level, policyVersion |-> audit.policyVersion,
                    state |-> audit.state, pillars |-> audit.pillars,
                    gates |-> audit.gates, blockers |-> audit.blockers]
           event == [repository |-> r, sourceRevision |-> Len(commits[r]),
                     state |-> audit.state]
<1>1. /\ audits' = audits \union {event}
      /\ UNCHANGED <<activePolicy, commits, adoption, observations>>
  BY DEF AuditAndAttest
<1>2. PICK att \in Written(file, Doubted[r]) \union {[file EXCEPT !.policyVersion = version]} :
        attested' = [attested EXCEPT ![r] = att]
  BY DEF AuditAndAttest
<1>3. /\ DOMAIN file = AttestationFields
      /\ file.repository = r /\ file.sourceRevision = Len(commits[r])
      /\ file.state = audit.state /\ file.pillars = audit.pillars
      /\ file.gates = audit.gates /\ file.blockers = audit.blockers
  BY DEF AttestationFields
<1>4. /\ event \in audits' /\ event.repository = r /\ event.sourceRevision = Len(commits[r])
      /\ event.state = audit.state
  BY <1>1
<1> HIDE DEF file, event
<1>5. file.state \in Verdicts /\ (file.state = "compliant" <=> CalculatedCompliant(file))
  <2>1. CalculatedCompliant(file) <=> CalculatedCompliant(audit)
    BY <1>3 DEF CalculatedCompliant
  <2> QED BY <1>3, <2>1, AuditAddsUp
<1>6. /\ att.repository = r /\ att.sourceRevision = Len(commits[r])
      /\ att.state \in Verdicts /\ (Coherent(att) => att.state = audit.state)
  <2>1. CASE att \in Written(file, Doubted[r])
    <3>1. /\ att.repository = file.repository /\ att.sourceRevision = file.sourceRevision
          /\ att.state \in Verdicts /\ (Coherent(att) => att.state = file.state)
      BY <1>3, <1>5, <2>1, WrongOnce
    <3> QED BY <1>3, <3>1
  <2>2. CASE att = [file EXCEPT !.policyVersion = version]
    <3>1. /\ att.repository = file.repository /\ att.sourceRevision = file.sourceRevision
          /\ att.state = file.state
      BY <1>3, <2>2 DEF AttestationFields
    <3> QED BY <1>3, <1>5, <3>1
  <2> QED BY <1>2, <2>1, <2>2
<1>7. Told(att, audits')
  BY <1>4, <1>6 DEF Told
<1>8. DOMAIN attested' = Repositories
  BY <1>2 DEF EcosystemInv
<1>9. \A s \in Repositories : attested'[s] # NoAttestation => Told(attested'[s], audits')
  <2> SUFFICES ASSUME NEW s \in Repositories, attested'[s] # NoAttestation
               PROVE  Told(attested'[s], audits')
    OBVIOUS
  <2>1. CASE s = r
    <3>1. attested'[s] = att
      BY <1>2, <2>1 DEF EcosystemInv
    <3> QED BY <1>7, <3>1 DEF Told
  <2>2. CASE s # r
    <3>1. attested'[s] = attested[s]
      BY <1>2, <2>2 DEF EcosystemInv
    <3>2. Told(attested[s], audits)
      BY <3>1 DEF EcosystemInv
    <3>3. Told(attested[s], audits')
      BY <1>1, <3>2, ToldStays
    <3> QED BY <3>1, <3>3 DEF Told
  <2> QED BY <2>1, <2>2
<1>10. HistoryGrows' /\ Appended
  BY <1>1 DEF EcosystemInv, HistoryGrows, Appended
<1>11. \A s \in DOMAIN adoption : AdoptionOf(s)'
  BY <1>1 DEF EcosystemInv, AdoptionOf
<1>12. \A s \in DOMAIN observations :
         observations[s].attestation # NoAttestation => Told(observations[s].attestation, audits')
  BY <1>1, ToldStays DEF EcosystemInv
<1> QED BY <1>1, <1>8, <1>9, <1>10, <1>11, <1>12 DEF EcosystemInv

LEMMA CopyKeepsEcosystem ==
  ASSUME EcosystemInv, NEW r \in Repositories, NEW s \in Repositories, CopyAttestation(r, s)
  PROVE  EcosystemInv'
<1>1. /\ attested' = [attested EXCEPT ![r] = attested[s]] /\ DOMAIN attested = Repositories
      /\ UNCHANGED <<activePolicy, commits, audits, adoption, observations>>
  BY DEF CopyAttestation, EcosystemInv
<1>2. \A t \in Repositories : attested'[t] = IF t = r THEN attested[s] ELSE attested[t]
  BY <1>1
<1>3. \A t \in Repositories : attested[t] # NoAttestation => Told(attested[t], audits')
  BY <1>1, ToldStays DEF EcosystemInv
<1>4. \A t \in Repositories : attested'[t] # NoAttestation => Told(attested'[t], audits')
  BY <1>2, <1>3
<1>5. \A t \in DOMAIN observations :
        observations[t].attestation # NoAttestation => Told(observations[t].attestation, audits')
  BY <1>1, ToldStays DEF EcosystemInv
<1>6. HistoryGrows' /\ \A t \in DOMAIN adoption : AdoptionOf(t)'
  BY <1>1 DEF EcosystemInv, HistoryGrows, AdoptionOf
<1> QED BY <1>1, <1>4, <1>5, <1>6 DEF EcosystemInv

(* The operator's steps. *)
LEMMA RecordKeepsEcosystem ==
  ASSUME EcosystemInv, NEW r \in Repositories,
         \/ RecordAdoption(r) \/ DropRow(r)
         \/ \E found \in BOOLEAN : RecordObservation(r, found)
  PROVE  EcosystemInv'
<1>1. UNCHANGED <<activePolicy, commits, audits, attested>>
  BY DEF RecordAdoption, DropRow, RecordObservation
<1>2. /\ DOMAIN adoption' \subseteq Repositories
      /\ \A s \in DOMAIN adoption' : AdoptionOf(s)'
  <2>1. CASE RecordAdoption(r)
    <3> DEFINE row == [sourceRevision |-> Len(commits[r]), manifest |-> Last(commits[r])]
    <3>1. DOMAIN adoption' = DOMAIN adoption \union {r}
      BY <2>1 DEF RecordAdoption, Recorded
    <3>2. adoption'[r] = row /\ \A s \in DOMAIN adoption : s # r => adoption'[s] = adoption[s]
      BY <2>1 DEF RecordAdoption, Recorded
    <3>3. AdoptionOf(r)'
      <4>1. Len(commits[r]) \in 1..Len(commits[r])
        BY EcosystemAssumption DEF EcosystemInv, HistoryGrows
      <4> QED BY <1>1, <3>2, <4>1 DEF AdoptionOf, Last
    <3> HIDE DEF row
    <3>4. \A s \in DOMAIN adoption : s # r => AdoptionOf(s)'
      BY <1>1, <3>2 DEF EcosystemInv, AdoptionOf
    <3> QED BY <3>1, <3>3, <3>4 DEF EcosystemInv
  <2>2. CASE adoption' = [s \in DOMAIN adoption \ {r} |-> adoption[s]]
    BY <1>1, <2>2 DEF EcosystemInv, AdoptionOf
  <2>3. CASE adoption' = adoption
    BY <1>1, <2>3 DEF EcosystemInv, AdoptionOf
  <2> QED BY <2>1, <2>2, <2>3 DEF DropRow, RecordObservation
<1>3. /\ DOMAIN observations' \subseteq Repositories
      /\ \A s \in DOMAIN observations' :
           observations'[s].attestation # NoAttestation
             => Told(observations'[s].attestation, audits)
  <2>1. ASSUME NEW found \in BOOLEAN, RecordObservation(r, found)
        PROVE  <1>3!1 /\ <1>3!2
    <3> DEFINE told == IF found THEN attested[r] ELSE NoAttestation
               row == [sourceRevision |-> Len(commits[r]), attestation |-> told]
    <3>1. DOMAIN observations' = DOMAIN observations \union {r}
      BY <2>1 DEF RecordObservation, Recorded
    <3>2. /\ observations'[r] = row
          /\ \A s \in DOMAIN observations : s # r => observations'[s] = observations[s]
      BY <2>1 DEF RecordObservation, Recorded
    <3>3. row.attestation = told /\ (told # NoAttestation => Told(told, audits))
      BY DEF EcosystemInv
    <3> HIDE DEF told, row
    <3> QED BY <3>1, <3>2, <3>3 DEF EcosystemInv
  <2>2. CASE observations' = [s \in DOMAIN observations \ {r} |-> observations[s]]
    BY <2>2 DEF EcosystemInv
  <2>3. CASE observations' = observations
    BY <2>3 DEF EcosystemInv
  <2> QED BY <2>1, <2>2, <2>3 DEF DropRow, RecordAdoption
<1>4. \A s \in DOMAIN observations' :
        observations'[s].attestation # NoAttestation => Told(observations'[s].attestation, audits')
  BY <1>1, <1>3, ToldStays
<1>5. \A s \in Repositories : attested[s] # NoAttestation => Told(attested[s], audits')
  BY <1>1, ToldStays DEF EcosystemInv
<1>6. HistoryGrows'
  BY <1>1 DEF EcosystemInv, HistoryGrows
<1> QED BY <1>1, <1>2, <1>3, <1>4, <1>5, <1>6 DEF EcosystemInv

(* EcosystemInv always holds: what the operator records of a repository is *)
(* of a revision that stays as it is, and every attestation on file comes  *)
(* from an audit of the revision it names (the two snapshot files).        *)
THEOREM EcosystemInvariant == SpecEcosystem => []EcosystemInv
<1>1. EcosystemInv /\ [NextEcosystem]_ecosystemVars => EcosystemInv'
  <2> SUFFICES ASSUME EcosystemInv, [NextEcosystem]_ecosystemVars PROVE EcosystemInv'
    OBVIOUS
  <2>1. ASSUME NEW r \in Repositories, \E m \in Adoptions : CommitManifest(r, m)
        PROVE  EcosystemInv'
    BY <2>1, CommitKeepsEcosystem
  <2>2. ASSUME NEW r \in Repositories, \E q \in Qualities[r] : AuditAndAttest(r, q)
        PROVE  EcosystemInv'
    BY <2>2, AttestKeepsEcosystem
  <2>3. ASSUME NEW r \in Repositories,
               \/ RecordAdoption(r) \/ DropRow(r)
               \/ \E found \in BOOLEAN : RecordObservation(r, found)
        PROVE  EcosystemInv'
    BY <2>3, RecordKeepsEcosystem
  <2>4. ASSUME NEW r \in Repositories, \E s \in Repositories : CopyAttestation(r, s)
        PROVE  EcosystemInv'
    BY <2>4, CopyKeepsEcosystem
  <2>5. CASE PublishVersion
    BY <2>5, CommitKeepsEcosystem
  <2>6. CASE UNCHANGED ecosystemVars
    <3>1. /\ HistoryGrows' /\ Appended /\ activePolicy' = activePolicy
          /\ UNCHANGED <<attested, adoption, observations>>
      BY <2>6 DEF EcosystemInv, HistoryGrows, Appended, ecosystemVars
    <3> QED BY <3>1, HistoryKeepsEcosystem DEF EcosystemInv
  <2> QED BY <2>1, <2>2, <2>3, <2>4, <2>5, <2>6 DEF NextEcosystem
<1> QED BY <1>1, EcosystemInit, PTL DEF SpecEcosystem

(* Classes without a common member are counted one by one. *)
LEMMA CountSplits ==
  ASSUME NEW states, IsFiniteSet(DOMAIN states), NEW A, NEW B, \A x \in A : x \notin B
  PROVE  /\ CountOf(states, A) \in Nat /\ CountOf(states, B) \in Nat
         /\ CountOf(states, A \union B) = CountOf(states, A) + CountOf(states, B)
<1> DEFINE a == {r \in DOMAIN states : states[r] \in A}
           b == {r \in DOMAIN states : states[r] \in B}
           c == {r \in DOMAIN states : states[r] \in A \union B}
<1>1. IsFiniteSet(a) /\ IsFiniteSet(b)
  BY FS_Subset
<1>2. a \intersect b = {} /\ c = a \union b
  OBVIOUS
<1>3. /\ CountOf(states, A) = Cardinality(a) /\ CountOf(states, B) = Cardinality(b)
      /\ CountOf(states, A \union B) = Cardinality(c)
  BY DEF CountOf
<1> HIDE DEF a, b, c
<1>4. Cardinality(a) \in Nat /\ Cardinality(b) \in Nat
  BY <1>1, FS_CardinalityType
<1>5. Cardinality(c) = Cardinality(a) + Cardinality(b) - Cardinality(a \intersect b)
  BY <1>1, <1>2, FS_Union
<1>6. Cardinality(a \intersect b) = 0
  BY <1>2, FS_EmptySet
<1>7. Cardinality(c) = Cardinality(a) + Cardinality(b)
  BY <1>4, <1>5, <1>6
<1> QED BY <1>3, <1>4, <1>7

LEMMA CountIsAll ==
  ASSUME NEW states, IsFiniteSet(DOMAIN states), NEW A
  PROVE  /\ (\A r \in DOMAIN states : states[r] \in A)
              <=> CountOf(states, A) = Cardinality(DOMAIN states)
         /\ (\A r \in DOMAIN states : states[r] \notin A) <=> CountOf(states, A) = 0
<1> DEFINE In == {r \in DOMAIN states : states[r] \in A}
<1>1. In \subseteq DOMAIN states /\ CountOf(states, A) = Cardinality(In)
  BY DEF CountOf
<1>2. (\A r \in DOMAIN states : states[r] \in A) <=> In = DOMAIN states
  OBVIOUS
<1>3. (\A r \in DOMAIN states : states[r] \notin A) <=> In = {}
  OBVIOUS
<1> HIDE DEF In
<1>4. IsFiniteSet(In) /\ (Cardinality(In) = Cardinality(DOMAIN states) => In = DOMAIN states)
  BY <1>1, FS_Subset
<1>5. Cardinality(In) = 0 <=> In = {}
  BY <1>4, FS_EmptySet
<1> QED BY <1>1, <1>2, <1>3, <1>4, <1>5

PropagationStates ==
  {"current", "migration-required", "invalid-adoption", "policy-ahead", "unverified"}
ComplianceStates ==
  {"compliant", "non-compliant", "unverified", "migration-required", "blocked"}

LEMMA PropagationStateIs ==
  ASSUME EcosystemInv, NEW r
  PROVE  /\ PropagationState(r) \in PropagationStates
         /\ PropagationState(r) = "current" =>
              /\ r \in DOMAIN adoption /\ ValidManifest(r, adoption[r].manifest)
              /\ adoption[r].manifest.policyVersion = activePolicy
         /\ r \in DOMAIN adoption /\ ValidManifest(r, adoption[r].manifest)
              /\ adoption[r].manifest.policyVersion = activePolicy
                => PropagationState(r) = "current"
<1>1. CASE r \notin DOMAIN adoption
  <2>1. PropagationState(r) = "unverified"
    BY <1>1 DEF PropagationState
  <2> QED BY <1>1, <2>1 DEF PropagationStates
<1>2. CASE r \in DOMAIN adoption /\ ~ValidManifest(r, adoption[r].manifest)
  <2>1. PropagationState(r) = "invalid-adoption"
    BY <1>2 DEF PropagationState
  <2> QED BY <1>2, <2>1 DEF PropagationStates
<1>3. CASE r \in DOMAIN adoption /\ ValidManifest(r, adoption[r].manifest)
  <2> DEFINE version == adoption[r].manifest.policyVersion
  <2>1. version \in Nat /\ activePolicy \in Nat
    <3>1. adoption[r].manifest \in Manifests
      BY <1>3 DEF EcosystemInv, AdoptionOf, HistoryGrows
    <3> QED BY <1>3, <3>1, EcosystemAssumption DEF Manifests, ValidManifest, EcosystemInv
  <2>2. PropagationState(r) = CASE version = activePolicy -> "current"
                                [] version < activePolicy -> "migration-required"
                                [] OTHER -> "policy-ahead"
    BY <1>3 DEF PropagationState
  <2> HIDE DEF version
  <2>3. /\ version = activePolicy => PropagationState(r) = "current"
        /\ version < activePolicy => PropagationState(r) = "migration-required"
        /\ version > activePolicy => PropagationState(r) = "policy-ahead"
    BY <2>1, <2>2
  <2> QED BY <1>3, <2>1, <2>3 DEF PropagationStates, version
<1> QED BY <1>1, <1>2, <1>3

(* What a row is counted for. *)
Judged(r) ==
  /\ r \in DOMAIN observations /\ observations[r].attestation # NoAttestation
  /\ observations[r].sourceRevision = adoption[r].sourceRevision
  /\ ValidAttestation(r, observations[r].attestation)

LEMMA ComplianceStateIs ==
  ASSUME EcosystemInv, NEW r
  PROVE  /\ ComplianceState(r) \in ComplianceStates
         /\ ComplianceState(r) \in Verdicts =>
              /\ PropagationState(r) = "current" /\ Judged(r)
              /\ ComplianceState(r) = observations[r].attestation.state
         /\ PropagationState(r) = "current" /\ ComplianceState(r) = "blocked" =>
              /\ r \in DOMAIN observations /\ observations[r].attestation # NoAttestation
              /\ ~Judged(r)
<1>1. PropagationState(r) \in PropagationStates
  BY PropagationStateIs
<1>2. CASE PropagationState(r) # "current"
  BY <1>1, <1>2 DEF ComplianceState, ComplianceStates, PropagationStates, Verdicts
<1>3. CASE /\ PropagationState(r) = "current"
           /\ \/ r \notin DOMAIN observations
              \/ observations[r].attestation = NoAttestation
  <2>1. ComplianceState(r) = "unverified"
    BY <1>3 DEF ComplianceState
  <2> QED BY <1>3, <2>1 DEF ComplianceStates, Verdicts
<1>4. CASE /\ PropagationState(r) = "current"
           /\ r \in DOMAIN observations /\ observations[r].attestation # NoAttestation
  <2>1. observations[r].attestation.state \in Verdicts
    BY <1>4 DEF EcosystemInv, Told
  <2>2. ComplianceState(r) = IF Judged(r) THEN observations[r].attestation.state ELSE "blocked"
    BY <1>4 DEF ComplianceState, Judged
  <2> QED BY <1>4, <2>1, <2>2 DEF ComplianceStates, Verdicts
<1> QED BY <1>2, <1>3, <1>4

LEMMA CountsArePartition == ASSUME EcosystemInv PROVE CountsPartition
<1> DEFINE moves == [r \in Repositories |-> PropagationState(r)]
           rows == [r \in Repositories |-> ComplianceState(r)]
           n == Cardinality(Repositories)
<1>1. IsFiniteSet(Repositories) /\ n \in Nat /\ n >= 1
  BY EcosystemAssumption, FS_CardinalityType, FS_EmptySet
<1>2. DOMAIN moves = Repositories /\ DOMAIN rows = Repositories
  OBVIOUS
<1>3. \A r \in Repositories : moves[r] = PropagationState(r) /\ rows[r] = ComplianceState(r)
  OBVIOUS
<1>4. /\ Propagation.total = n /\ ComplianceMatrix.total = n
      /\ Propagation.current = CountOf(moves, {"current"})
      /\ Propagation.migrationRequired = CountOf(moves, {"migration-required"})
      /\ Propagation.blocked = CountOf(moves, {"invalid-adoption", "policy-ahead", "unverified"})
      /\ ComplianceMatrix.compliant = CountOf(rows, {"compliant"})
      /\ ComplianceMatrix.nonCompliant = CountOf(rows, {"non-compliant"})
      /\ ComplianceMatrix.unverified = CountOf(rows, {"unverified"})
      /\ ComplianceMatrix.migrationRequired = CountOf(rows, {"migration-required"})
      /\ ComplianceMatrix.blocked = CountOf(rows, {"blocked"})
  BY DEF Propagation, ComplianceMatrix
<1> HIDE DEF moves, rows
<1>5. PropagationCountsAccepted(Propagation)
  <2>1. /\ CountOf(moves, {"current"}) \in Nat
        /\ CountOf(moves, {"current"} \union {"migration-required"})
             = CountOf(moves, {"current"}) + CountOf(moves, {"migration-required"})
    BY <1>1, <1>2, CountSplits
  <2>2. CountOf(moves, ({"current"} \union {"migration-required"})
                         \union {"invalid-adoption", "policy-ahead", "unverified"})
          = CountOf(moves, {"current"} \union {"migration-required"})
              + CountOf(moves, {"invalid-adoption", "policy-ahead", "unverified"})
    BY <1>1, <1>2, CountSplits
  <2>3. \A r \in Repositories :
          moves[r] \in ({"current"} \union {"migration-required"})
                         \union {"invalid-adoption", "policy-ahead", "unverified"}
    BY <1>3, PropagationStateIs DEF PropagationStates
  <2>4. CountOf(moves, ({"current"} \union {"migration-required"})
                         \union {"invalid-adoption", "policy-ahead", "unverified"}) = n
    BY <1>1, <1>2, <2>3, CountIsAll
  <2> QED BY <1>1, <1>4, <2>1, <2>2, <2>4 DEF PropagationCountsAccepted
<1>6. VerificationCountsAccepted(ComplianceMatrix)
  <2> DEFINE s1 == {"compliant"}
             s2 == s1 \union {"non-compliant"}
             s3 == s2 \union {"unverified"}
             s4 == s3 \union {"migration-required"}
             s5 == s4 \union {"blocked"}
  <2>1. CountOf(rows, s2) = CountOf(rows, s1) + CountOf(rows, {"non-compliant"})
    BY <1>1, <1>2, CountSplits
  <2>2. CountOf(rows, s3) = CountOf(rows, s2) + CountOf(rows, {"unverified"})
    BY <1>1, <1>2, CountSplits
  <2>3. CountOf(rows, s4) = CountOf(rows, s3) + CountOf(rows, {"migration-required"})
    BY <1>1, <1>2, CountSplits
  <2>4. CountOf(rows, s5) = CountOf(rows, s4) + CountOf(rows, {"blocked"})
    BY <1>1, <1>2, CountSplits
  <2>5. \A r \in Repositories : rows[r] \in s5
    BY <1>3, ComplianceStateIs DEF ComplianceStates
  <2> HIDE DEF s5
  <2>6. CountOf(rows, s5) = n
    BY <1>1, <1>2, <2>5, CountIsAll
  <2> QED BY <1>1, <1>4, <2>1, <2>2, <2>3, <2>4, <2>6 DEF VerificationCountsAccepted
<1>7. AllCompliant => AllCurrent
  <2> SUFFICES ASSUME AllCompliant PROVE AllCurrent
    OBVIOUS
  <2>1. \A r \in Repositories : rows[r] \in {"compliant"}
    BY <1>1, <1>2, <1>4, CountIsAll DEF AllCompliant
  <2>2. \A r \in Repositories : moves[r] = "current"
    BY <1>3, <2>1, ComplianceStateIs DEF Verdicts
  <2>3. /\ CountOf(moves, {"migration-required"}) = 0
        /\ CountOf(moves, {"invalid-adoption", "policy-ahead", "unverified"}) = 0
    BY <1>1, <1>2, <2>2, CountIsAll
  <2> QED BY <1>4, <2>3 DEF AllCurrent
<1> QED BY <1>5, <1>6, <1>7 DEF CountsPartition

LEMMA RowsAreAuditedOnes == ASSUME EcosystemInv PROVE RowsAreAudited
<1> SUFFICES ASSUME NEW r \in Repositories, ComplianceState(r) \in Verdicts
             PROVE  LET revision == adoption[r].sourceRevision
                    IN /\ \E a \in audits : /\ a.repository = r /\ a.sourceRevision = revision
                                            /\ a.state = ComplianceState(r)
                       /\ commits[r][revision].policyVersion = activePolicy
                       /\ RequiredPillars(activePolicy)
                            \subseteq commits[r][revision].inheritedPillars
                       /\ ComplianceState(r) = "compliant" <=>
                            /\ \A p \in Pillars : PillarStates(r)[p] = "compliant"
                            /\ BlockingGates(r) = {} /\ observations[r].attestation.blockers = {}
  BY DEF RowsAreAudited, Verdicts
<1> DEFINE att == observations[r].attestation
<1>1. /\ PropagationState(r) = "current" /\ Judged(r) /\ ComplianceState(r) = att.state
  BY ComplianceStateIs
<1>2. /\ r \in DOMAIN adoption /\ ValidManifest(r, adoption[r].manifest)
      /\ adoption[r].manifest.policyVersion = activePolicy /\ AdoptionOf(r)
  BY <1>1, PropagationStateIs DEF EcosystemInv
<1>3. /\ Told(att, audits) /\ Coherent(att) /\ att.repository = r
      /\ att.sourceRevision = adoption[r].sourceRevision
  BY <1>1 DEF Judged, ValidAttestation, EcosystemInv
<1>4. DOMAIN att.pillars = Pillars /\ DOMAIN att.gates = ConstitutionalGates
  BY <1>3 DEF Coherent
<1>5. /\ PillarStates(r) = [p \in Pillars |-> att.pillars[p].state]
      /\ BlockingGates(r) = {g \in ConstitutionalGates : att.gates[g].state # "pass"}
  BY DEF PillarStates, BlockingGates, Verdicts
<1>6. att.state = "compliant" <=>
        /\ \A p \in Pillars : PillarStates(r)[p] = "compliant"
        /\ BlockingGates(r) = {} /\ att.blockers = {}
  <2>1. att.state = "compliant" <=> CalculatedCompliant(att)
    BY <1>3 DEF Coherent
  <2> HIDE DEF att
  <2> QED BY <1>4, <1>5, <2>1 DEF CalculatedCompliant
<1>7. \E a \in audits : /\ a.repository = r /\ a.sourceRevision = adoption[r].sourceRevision
                        /\ a.state = ComplianceState(r)
  BY <1>1, <1>3 DEF Told
<1>8. /\ commits[r][adoption[r].sourceRevision].policyVersion = activePolicy
      /\ RequiredPillars(activePolicy)
           \subseteq commits[r][adoption[r].sourceRevision].inheritedPillars
  BY <1>2 DEF ValidManifest, AdoptionOf
<1> QED BY <1>1, <1>6, <1>7, <1>8

LEMMA ChecksAgree == ASSUME EcosystemInv PROVE ChecksAgreeWithCenter
<1> SUFFICES ASSUME EcosystemSnapshotPasses, ComplianceSnapshotPasses
             PROVE  /\ \A r \in Repositories : PropagationState(r) = "current" =>
                         \/ ComplianceState(r) # "blocked"
                         \/ ~Coherent(observations[r].attestation)
                    /\ OwnAdoptionPasses
                         /\ adoption[HubRepository].sourceRevision = Len(commits[HubRepository])
                       => PropagationState(HubRepository) = "current"
  BY DEF ChecksAgreeWithCenter
<1>1. ASSUME NEW r \in Repositories, PropagationState(r) = "current",
             ComplianceState(r) = "blocked", Coherent(observations[r].attestation)
      PROVE  FALSE
  <2>1. /\ r \in DOMAIN observations /\ observations[r].attestation # NoAttestation /\ ~Judged(r)
    BY <1>1, ComplianceStateIs
  <2>2. ValidManifest(r, adoption[r].manifest)
    BY <1>1, PropagationStateIs
  <2> QED BY <1>1, <2>1, <2>2 DEF Judged, ValidAttestation, ValidManifest, ComplianceSnapshotPasses
<1>2. ASSUME OwnAdoptionPasses,
             adoption[HubRepository].sourceRevision = Len(commits[HubRepository])
      PROVE  PropagationState(HubRepository) = "current"
  <2> DEFINE h == HubRepository
             m == adoption[h].manifest
  <2>1. h \in Repositories /\ h \in DOMAIN adoption /\ AdoptionOf(h)
    BY EcosystemAssumption DEF EcosystemSnapshotPasses, EcosystemInv
  <2>2. m = Last(commits[h])
    BY <1>2, <2>1 DEF AdoptionOf, Last
  <2>3. /\ m # NoManifest /\ m.policyVersion = activePolicy
        /\ m.inheritedPillars = Pillars /\ ~m.weakened
    BY <1>2, <2>2 DEF OwnAdoptionPasses
  <2>4. m.blueprintLevel = LevelOf[h]
    BY <2>1, <2>3 DEF EcosystemSnapshotPasses
  <2>5. ValidManifest(h, m)
    BY <2>3, <2>4 DEF ValidManifest, RequiredPillars
  <2> QED BY <2>1, <2>3, <2>5, PropagationStateIs
<1> QED BY <1>1, <1>2

(* The history of a repository is as long as its own commits and the        *)
(* publications of its Hub allow, and no file has a row of another.         *)
THEOREM EcosystemIsTyped == SpecEcosystem => []TypeOKEcosystem
<1>1. EcosystemInv => TypeOKEcosystem
  <2> SUFFICES ASSUME EcosystemInv PROVE TypeOKEcosystem
    OBVIOUS
  <2>1. activePolicy \in 2..MaxPolicy
    BY DEF EcosystemInv
  <2>2. ASSUME NEW r \in Repositories PROVE Len(commits[r]) \in 1..MaxCommits[r] + MaxPolicy
    <3>1. Len(commits[r]) \in 1..MaxCommits[r] + activePolicy - 1
      BY DEF EcosystemInv, HistoryGrows
    <3> QED BY <2>1, <3>1, EcosystemAssumption
  <2> QED BY <2>1, <2>2 DEF EcosystemInv, TypeOKEcosystem
<1> QED BY <1>1, EcosystemInvariant, PTL

(* For any repositories, manifests, audits and recorded rows: a repository *)
(* is counted compliant only for an audit of the recorded revision, every  *)
(* row is counted once, and CI agrees with the Constitution Center (the    *)
(* two builders and the checks of the Hub's files).                        *)
THEOREM ComplianceIsAudited == SpecEcosystem => []ComplianceIsEvidenced
<1>1. EcosystemInv => ComplianceIsEvidenced
  BY RowsAreAuditedOnes, CountsArePartition, ChecksAgree DEF ComplianceIsEvidenced
<1> QED BY <1>1, EcosystemInvariant, PTL
================================================================================
