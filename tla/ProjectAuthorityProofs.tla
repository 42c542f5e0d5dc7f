------------------------- MODULE ProjectAuthorityProofs ------------------------
(***************************************************************************)
(* Proofs about roles and their audit trail, sign-on, reviews and the      *)
(* governance records, for any number of principals, accounts, candidates, *)
(* records and concurrent calls.  A call that was admitted, or has looked  *)
(* at a row, writes later, when its actor may have lost the role again or  *)
(* the row may have moved: CallState and GovCallState say what holds then. *)
(***************************************************************************)
EXTENDS ProjectServices, WorkflowEvidenceProofs, TLAPS

-----------------------------------------------------------------------------
(* Roles and their audit trail.                                            *)

Entitled(p) ==
  \E j \in DOMAIN audit : BootstrappedAs(j, p) \/ Given(j, p, {"OWNER"})

(* Who is admitted to grant roles is entitled; a bootstrap is its actor's. *)
CallState == \A c \in RoleCalls : Admitted(c, "ROLE_MANAGE") => Entitled(roleCall[c].actor)

RolesInv == TypeOKRoles /\ AuditReplays /\ RolesDescend /\ CallState

LEMMA RolesInit == InitRoles => RolesInv
<1> SUFFICES ASSUME InitRoles PROVE RolesInv
  OBVIOUS
<1>1. TypeOKRoles BY DEF InitRoles, TypeOKRoles
<1>2. AuditReplays /\ RolesDescend
  BY DEF InitRoles, AuditReplays, RolesDescend, Given, BootstrappedAs
<1>3. CallState BY DEF InitRoles, CallState, Admitted, NoRoleCall
<1> QED BY <1>1, <1>2, <1>3 DEF RolesInv

(* A step that leaves the tables alone: of a call on its way, or its end.  *)
LEMMA StepOfACall ==
  ASSUME RolesInv, NEW c \in RoleCalls, UNCHANGED <<owner, role, audit>>,
         NEW k \in RoleCallType \union {NoRoleCall},
         roleCall' = [roleCall EXCEPT ![c] = k],
         k.at = "admitted" /\ k.action = "ROLE_MANAGE" => Entitled(k.actor)
  PROVE  RolesInv'
<1>1. TypeOKRoles' BY DEF RolesInv, TypeOKRoles
<1>2. AuditReplays' /\ RolesDescend'
  BY DEF RolesInv, AuditReplays, RolesDescend, Given, BootstrappedAs
<1>3. CallState'
  <2> SUFFICES ASSUME NEW d \in RoleCalls, Admitted(d, "ROLE_MANAGE")'
               PROVE  Entitled(roleCall[d].actor)'
    BY DEF CallState
  <2>1. roleCall'[d] = IF d = c THEN k ELSE roleCall[d] BY DEF RolesInv, TypeOKRoles
  <2>2. Entitled(roleCall'[d].actor) BY <2>1 DEF RolesInv, CallState, Admitted
  <2> QED BY <2>2 DEF Entitled, BootstrappedAs, Given
<1> QED BY <1>1, <1>2, <1>3 DEF RolesInv

(* The call ends. *)
LEMMA EndOfACall ==
  ASSUME RolesInv, NEW c \in RoleCalls, EndRoleCall(c), UNCHANGED <<owner, role, audit>>
  PROVE  RolesInv'
BY StepOfACall DEF EndRoleCall, NoRoleCall

(* An event is added: who was entitled still is. *)
LEMMA EventAdded ==
  ASSUME TypeOKRoles, NEW e \in AuditEvents, audit' = Append(audit, e)
  PROVE  /\ audit' \in Seq(AuditEvents)
         /\ Len(audit') = Len(audit) + 1 /\ Len(audit) \in Nat
         /\ DOMAIN audit = 1..Len(audit) /\ DOMAIN audit' = 1..(Len(audit) + 1)
         /\ audit'[Len(audit) + 1] = e
         /\ \A i \in DOMAIN audit : audit'[i] = audit[i]
BY DEF TypeOKRoles

LEMMA StillEntitled ==
  ASSUME TypeOKRoles, NEW e \in AuditEvents, audit' = Append(audit, e), NEW p, Entitled(p)
  PROVE  Entitled(p)'
BY EventAdded DEF Entitled, BootstrappedAs, Given

LEMMA BeginKeepsRoles ==
  ASSUME RolesInv, NEW c \in RoleCalls, NEW action \in AuthorityActions,
         NEW p \in Principals, NEW to \in Principals, NEW give \in Roles,
         BeginGuarded(c, action, p, to, give)
  PROVE  RolesInv'
<1>1. RoleCall("owner?", action, p, to, give) \in RoleCallType
  BY DEF RoleCall, RoleCallType
<1> QED BY <1>1, StepOfACall DEF BeginGuarded, RoleCall

LEMMA ReadOwnerKeepsRoles ==
  ASSUME RolesInv, NEW c \in RoleCalls, ReadOwner(c)
  PROVE  RolesInv'
<1> DEFINE k == [roleCall[c] EXCEPT !.at =
                   IF owner = roleCall[c].actor THEN "admitted" ELSE "role?"]
<1>1. roleCall[c] \in RoleCallType
  BY DEF ReadOwner, RolesInv, TypeOKRoles, NoRoleCall
<1>2. k \in RoleCallType /\ k.actor = roleCall[c].actor /\ k.actor \in Principals
        /\ k.at = IF owner = k.actor THEN "admitted" ELSE "role?"
  BY <1>1 DEF RoleCallType
<1>3. owner = k.actor => Entitled(k.actor)
  BY <1>2, RolesAssumption DEF RolesInv, AuditReplays, Entitled
<1>4. roleCall' = [roleCall EXCEPT ![c] = k] /\ UNCHANGED <<owner, role, audit>>
  BY DEF ReadOwner, RolesInv, TypeOKRoles
<1> HIDE DEF k
<1> QED BY <1>2, <1>3, <1>4, StepOfACall

LEMMA ReadRoleKeepsRoles ==
  ASSUME RolesInv, NEW c \in RoleCalls, ReadRole(c)
  PROVE  RolesInv'
<1> DEFINE k == [roleCall[c] EXCEPT !.at = "admitted"]
<1>1. roleCall[c] \in RoleCallType
  BY DEF ReadRole, RolesInv, TypeOKRoles, NoRoleCall
<1>2. k \in RoleCallType /\ k.actor = roleCall[c].actor /\ k.actor \in Principals
        /\ k.action = roleCall[c].action
  BY <1>1 DEF RoleCallType
<1>3. ASSUME "ROLE_MANAGE" \in RoleActions(role[k.actor]) PROVE Entitled(k.actor)
  <2>1. role[k.actor] = "OWNER"
    BY <1>2, <1>3 DEF RolesInv, TypeOKRoles, RoleActions, Roles
  <2> QED BY <1>2, <2>1 DEF RolesInv, AuditReplays, Entitled
<1>4. CASE k.action \in RoleActions(role[k.actor])
  <2>1. roleCall' = [roleCall EXCEPT ![c] = k] /\ UNCHANGED <<owner, role, audit>>
    BY <1>2, <1>4 DEF ReadRole, RolesInv, TypeOKRoles
  <2> HIDE DEF k
  <2> QED BY <1>2, <1>3, <1>4, <2>1, StepOfACall
<1>5. CASE ~(k.action \in RoleActions(role[k.actor]))
  BY <1>2, <1>5, EndOfACall DEF ReadRole
<1> QED BY <1>4, <1>5

(* The grant itself: its event becomes the last one for its member, and    *)
(* whoever writes it is entitled by an earlier one.                        *)
LEMMA GrantKeepsRoles ==
  ASSUME RolesInv, NEW c \in RoleCalls, SetProjectRole(c)
  PROVE  RolesInv'
<1> DEFINE k == roleCall[c]
           e == [what |-> "role", actor |-> k.actor, to |-> k.to, give |-> k.give]
           n == Len(audit) + 1
<1>0. k \in RoleCallType
  BY DEF SetProjectRole, Admitted, RolesInv, TypeOKRoles, NoRoleCall
<1>1. k.actor \in Principals /\ k.to \in Principals /\ k.give \in Roles
  BY <1>0 DEF RoleCallType
<1>2. e \in AuditEvents /\ e.what = "role" /\ e.actor = k.actor
        /\ e.to = k.to /\ e.give = k.give
  BY <1>1 DEF AuditEvents
<1>3. /\ audit' = Append(audit, e) /\ role' = [role EXCEPT ![k.to] = k.give]
      /\ roleCall' = [roleCall EXCEPT ![c] = NoRoleCall] /\ owner' = owner
  BY <1>2 DEF SetProjectRole, Audited, EndRoleCall, RolesInv, TypeOKRoles
<1> HIDE DEF e
<1>4. Entitled(k.actor) BY DEF SetProjectRole, RolesInv, CallState
<1>5. /\ audit' \in Seq(AuditEvents) /\ n \in Nat /\ n \in DOMAIN audit' /\ audit'[n] = e
      /\ DOMAIN audit = 1..(n - 1) /\ DOMAIN audit' = 1..n
      /\ \A i \in DOMAIN audit : audit'[i] = audit[i]
  BY <1>2, <1>3, EventAdded DEF RolesInv
<1>6. TypeOKRoles' BY <1>1, <1>3, <1>5 DEF RolesInv, TypeOKRoles
<1>7. AuditReplays'
  <2>1. ASSUME NEW p \in Principals
        PROVE  (IF role[p] = "none"
                  THEN \A i \in DOMAIN audit : ~Given(i, p, Roles)
                  ELSE \E i \in DOMAIN audit :
                         /\ Given(i, p, {role[p]})
                         /\ \A j \in (i + 1)..Len(audit) : ~Given(j, p, Roles))'
    <3>1. CASE p = k.to
      <4>1. role'[p] = k.give BY <1>1, <1>3, <3>1 DEF RolesInv, TypeOKRoles
      <4>2. k.give # "none" BY <1>1 DEF Roles
      <4>3. PICK m \in DOMAIN audit' : m = n BY <1>5
      <4>4. Given(m, p, {role[p]})' BY <1>2, <1>5, <3>1, <4>1, <4>3 DEF Given
      <4>5. \A j \in (m + 1)..Len(audit') : ~Given(j, p, Roles)' BY <1>5, <4>3
      <4> QED BY <4>1, <4>2, <4>3, <4>4, <4>5
    <3>2. CASE p # k.to
      <4>1. role'[p] = role[p] BY <1>1, <1>3, <3>2 DEF RolesInv, TypeOKRoles
      <4>2. \A i \in DOMAIN audit' : \A rs : Given(i, p, rs)' <=> i # n /\ Given(i, p, rs)
        BY <1>2, <1>5, <3>2 DEF Given
      <4>3. Len(audit') = n /\ Len(audit) = n - 1 BY <1>5
      <4>4. CASE role[p] = "none"
        <5>1. \A i \in DOMAIN audit : ~Given(i, p, Roles)
          BY <4>4 DEF RolesInv, AuditReplays
        <5>2. \A i \in DOMAIN audit' : i # n => i \in DOMAIN audit BY <1>5
        <5>3. \A i \in DOMAIN audit' : ~Given(i, p, Roles)' BY <4>2, <5>1, <5>2
        <5> QED BY <4>1, <4>4, <5>3
      <4>5. CASE role[p] # "none"
        <5>1. PICK i \in DOMAIN audit :
                /\ Given(i, p, {role[p]})
                /\ \A j \in (i + 1)..Len(audit) : ~Given(j, p, Roles)
          BY <4>5 DEF RolesInv, AuditReplays
        <5>2. i \in DOMAIN audit' /\ i # n BY <1>5
        <5>3. Given(i, p, {role[p]})' BY <4>1, <4>2, <5>1, <5>2
        <5>4. \A j \in (i + 1)..Len(audit') : ~Given(j, p, Roles)'
          BY <1>5, <4>2, <4>3, <5>1
        <5> QED BY <4>1, <4>5, <5>2, <5>3, <5>4
      <4> QED BY <4>4, <4>5
    <3> QED BY <3>1, <3>2
  <2>2. (\A i \in DOMAIN audit : audit[i].what = "bootstrap" =>
           /\ audit[i].actor = owner
           /\ \A j \in DOMAIN audit : audit[j].what = "bootstrap" => j = i)'
    BY <1>2, <1>3, <1>5 DEF RolesInv, AuditReplays
  <2>3. (owner # NoOwner => \E i \in DOMAIN audit : BootstrappedAs(i, owner))'
    BY <1>3, <1>5 DEF RolesInv, AuditReplays, BootstrappedAs
  <2> QED BY <2>1, <2>2, <2>3 DEF AuditReplays
<1>8. RolesDescend'
  <2> SUFFICES ASSUME NEW i \in DOMAIN audit', audit'[i].what = "role"
               PROVE  \E j \in 1..(i - 1) : \/ BootstrappedAs(j, audit[i].actor)'
                                            \/ Given(j, audit[i].actor, {"OWNER"})'
    BY DEF RolesDescend
  <2>1. CASE i = n
    BY <1>2, <1>4, <1>5, <2>1 DEF Entitled, BootstrappedAs, Given
  <2>2. CASE i # n
    BY <1>5, <2>2 DEF RolesInv, RolesDescend, BootstrappedAs, Given
  <2> QED BY <2>1, <2>2
<1>9. CallState'
  BY <1>2, <1>3, StillEntitled DEF RolesInv, CallState, TypeOKRoles, Admitted, NoRoleCall
<1> QED BY <1>6, <1>7, <1>8, <1>9 DEF RolesInv

LEMMA BootstrapKeepsRoles ==
  ASSUME RolesInv, NEW c \in RoleCalls, BootstrapBy(c)
  PROVE  RolesInv'
<1>1. CASE BeginBootstrap(c)
  <2>1. PICK p \in Principals : roleCall' = [roleCall EXCEPT ![c] =
                      RoleCall("bootstrap read", "ROLE_MANAGE", p, p, "OWNER")]
    BY <1>1 DEF BeginBootstrap
  <2>2. RoleCall("bootstrap read", "ROLE_MANAGE", p, p, "OWNER") \in RoleCallType
    BY DEF RoleCall, RoleCallType, AuthorityActions, Roles
  <2> QED BY <1>1, <2>1, <2>2, StepOfACall DEF BeginBootstrap, RoleCall
<1>2. CASE ReadBootstrap(c)
  <2> DEFINE k == [roleCall[c] EXCEPT !.at = "bootstrap write"]
  <2>0. roleCall[c].at = "bootstrap read" BY <1>2 DEF ReadBootstrap
  <2>1. roleCall[c] \in RoleCallType
    <3>1. roleCall[c] \in RoleCallType \union {NoRoleCall} BY DEF RolesInv, TypeOKRoles
    <3>2. NoRoleCall.at = "idle" BY DEF NoRoleCall
    <3> QED BY <2>0, <3>1, <3>2
  <2>2. k \in RoleCallType /\ k.at = "bootstrap write" BY <2>1 DEF RoleCallType
  <2>3. CASE owner = NoOwner
    <3>1. roleCall' = [roleCall EXCEPT ![c] = k] /\ UNCHANGED <<owner, role, audit>>
      BY <1>2, <2>3 DEF ReadBootstrap, RolesInv, TypeOKRoles
    <3> HIDE DEF k
    <3> QED BY <2>2, <3>1, StepOfACall
  <2>4. CASE owner # NoOwner BY <1>2, <2>4, EndOfACall DEF ReadBootstrap
  <2> QED BY <2>3, <2>4
<1>3. CASE WriteBootstrap(c)
  <2>1. CASE owner # NoOwner
    BY <1>3, <2>1, EndOfACall DEF WriteBootstrap, NoBootstrapRow
  <2>2. CASE owner = NoOwner
    <3> DEFINE e == [what |-> "bootstrap", actor |-> roleCall[c].actor]
               n == Len(audit) + 1
    <3>0. roleCall[c].at = "bootstrap write" BY <1>3 DEF WriteBootstrap
    <3>1. roleCall[c].actor \in Principals
      <4>1. roleCall[c] \in RoleCallType \union {NoRoleCall} BY DEF RolesInv, TypeOKRoles
      <4>2. NoRoleCall.at = "idle" BY DEF NoRoleCall
      <4>3. roleCall[c] \in RoleCallType BY <3>0, <4>1, <4>2
      <4> QED BY <4>3 DEF RoleCallType
    <3>2. e \in AuditEvents /\ e.what = "bootstrap" /\ e.actor = roleCall[c].actor
      BY <3>1 DEF AuditEvents
    <3>3. /\ audit' = Append(audit, e) /\ owner' = e.actor /\ role' = role
          /\ roleCall' = [roleCall EXCEPT ![c] = NoRoleCall]
      BY <1>3, <2>2 DEF WriteBootstrap, NoBootstrapRow, EndRoleCall
    <3> HIDE DEF e
    <3>4. /\ audit' \in Seq(AuditEvents) /\ n \in Nat /\ n \in DOMAIN audit' /\ audit'[n] = e
          /\ DOMAIN audit = 1..(n - 1) /\ DOMAIN audit' = 1..n
          /\ \A i \in DOMAIN audit : audit'[i] = audit[i]
      BY <3>2, <3>3, EventAdded DEF RolesInv
    <3>5. TypeOKRoles' BY <3>1, <3>2, <3>3, <3>4 DEF RolesInv, TypeOKRoles
    <3>6. \A i \in DOMAIN audit : audit[i].what # "bootstrap"
      BY <2>2, RolesAssumption DEF RolesInv, AuditReplays, TypeOKRoles, AuditEvents
    <3>7. AuditReplays'
      <4>1. \A i \in DOMAIN audit' : \A p, rs : Given(i, p, rs)' <=> i # n /\ Given(i, p, rs)
        BY <3>2, <3>4 DEF Given
      <4>2. ASSUME NEW p \in Principals
            PROVE  (IF role[p] = "none"
                      THEN \A i \in DOMAIN audit : ~Given(i, p, Roles)
                      ELSE \E i \in DOMAIN audit :
                             /\ Given(i, p, {role[p]})
                             /\ \A j \in (i + 1)..Len(audit) : ~Given(j, p, Roles))'
        <5>1. CASE role[p] = "none"
          <6>1. \A i \in DOMAIN audit : ~Given(i, p, Roles)
            BY <5>1 DEF RolesInv, AuditReplays
          <6>2. \A i \in DOMAIN audit' : i # n => i \in DOMAIN audit BY <3>4
          <6>3. \A i \in DOMAIN audit' : ~Given(i, p, Roles)' BY <4>1, <6>1, <6>2
          <6> QED BY <3>3, <5>1, <6>3
        <5>2. CASE role[p] # "none"
          <6>1. PICK i \in DOMAIN audit :
                  /\ Given(i, p, {role[p]})
                  /\ \A j \in (i + 1)..Len(audit) : ~Given(j, p, Roles)
            BY <5>2 DEF RolesInv, AuditReplays
          <6>2. i \in DOMAIN audit' /\ i # n BY <3>4
          <6>3. Given(i, p, {role[p]})' BY <3>3, <4>1, <6>1, <6>2
          <6>4. \A j \in (i + 1)..Len(audit') : ~Given(j, p, Roles)'
            BY <3>4, <4>1, <6>1
          <6> QED BY <3>3, <5>2, <6>2, <6>3, <6>4
        <5> QED BY <5>1, <5>2
      <4>3. (\A i \in DOMAIN audit : audit[i].what = "bootstrap" =>
               /\ audit[i].actor = owner
               /\ \A j \in DOMAIN audit : audit[j].what = "bootstrap" => j = i)'
        BY <3>2, <3>3, <3>4, <3>6
      <4>4. (owner # NoOwner => \E i \in DOMAIN audit : BootstrappedAs(i, owner))'
        BY <3>2, <3>3, <3>4 DEF BootstrappedAs
      <4> QED BY <4>2, <4>3, <4>4 DEF AuditReplays
    <3>8. RolesDescend'
      <4> SUFFICES ASSUME NEW i \in DOMAIN audit', audit'[i].what = "role"
                   PROVE  \E j \in 1..(i - 1) : \/ BootstrappedAs(j, audit[i].actor)'
                                                \/ Given(j, audit[i].actor, {"OWNER"})'
        BY DEF RolesDescend
      <4>1. i # n BY <3>2, <3>4
      <4> QED BY <3>4, <4>1 DEF RolesInv, RolesDescend, BootstrappedAs, Given
    <3>9. CallState'
      BY <3>2, <3>3, StillEntitled DEF RolesInv, CallState, TypeOKRoles, Admitted, NoRoleCall
    <3> QED BY <3>5, <3>7, <3>8, <3>9 DEF RolesInv
  <2> QED BY <2>1, <2>2
<1> QED BY <1>1, <1>2, <1>3 DEF BootstrapBy

LEMMA RolesStep == RolesInv /\ [NextRoles]_roleVars => RolesInv'
<1> SUFFICES ASSUME RolesInv, [NextRoles]_roleVars PROVE RolesInv'
  OBVIOUS
<1>1. CASE Bootstrapping BY <1>1, BootstrapKeepsRoles DEF Bootstrapping
<1>2. ASSUME NEW c \in RoleCalls, NEW p \in Principals, NEW to \in Principals,
             NEW give \in Roles, BeginGrant(c, p, to, give)
      PROVE  RolesInv'
  BY <1>2, BeginKeepsRoles DEF BeginGrant, AuthorityActions
<1>3. ASSUME NEW c \in RoleCalls, ReadOwner(c) \/ ReadRole(c) \/ SetProjectRole(c)
      PROVE  RolesInv'
  BY <1>3, ReadOwnerKeepsRoles, ReadRoleKeepsRoles, GrantKeepsRoles
<1>4. ASSUME NEW c \in RoleCalls, DropRoleCall(c) PROVE RolesInv'
  BY <1>4, EndOfACall DEF DropRoleCall
<1>5. CASE UNCHANGED roleVars
  BY <1>5 DEF roleVars, RolesInv, TypeOKRoles, AuditReplays, RolesDescend, CallState,
              Given, BootstrappedAs, Admitted, Entitled
<1> QED BY <1>1, <1>2, <1>3, <1>4, <1>5 DEF NextRoles, Granting

(* The inductive invariant: the trail replays, and every call admitted to  *)
(* grant descends from one of its events.                                  *)
THEOREM RolesInvariant == SpecRoles => []RolesInv
BY RolesInit, RolesStep, PTL DEF SpecRoles

(* Whatever grants and bootstraps overlap, the trail alone tells the owner *)
(* and the roles, and every role descends from the bootstrap.              *)
THEOREM AuthorityAccounted == SpecRoles => []AuthorityIsAccounted
<1>1. RolesInv => AuthorityIsAccounted BY DEF RolesInv, AuthorityIsAccounted
<1> QED BY RolesInvariant, <1>1, PTL

-----------------------------------------------------------------------------
(* Sign-on, while the owner is bootstrapped and roles are granted.         *)

CookieType == [flow : BOOLEAN, pair : Subjects \union {NoSubject},
               session : Sessions \union {NoSession}, github : Principals \union {NoOwner}]

Linking == {"create", "reread", "finish find", "finish create", "finish reread", "answer"}

(* What a request holds is still so, whoever links or revokes meanwhile: a *)
(* principal it has chosen is the owner, and if the link of its subject is *)
(* live, or was when the answer was decided, it knows.                     *)
RequestOK(k) ==
  k # NoRequest =>
    /\ k.principal \in {owner, NoOwner}
    /\ k.at \in Linking => k.principal = owner /\ owner # NoOwner
    /\ Live(k.subject) => k.live
    /\ k.at = "answer" => k.live /\ link[k.subject] # NoLink

LinksAreTheOwners ==
  /\ \A s \in Subjects : link[s] # NoLink => link[s].principal = owner /\ owner # NoOwner
  /\ \A s, t \in Subjects : link[s] # NoLink /\ link[t] # NoLink => s = t

RequestState == \A q \in Requests : RequestOK(request[q])

SignOnInv == TypeOKSignOn /\ RolesInv /\ LinksAreTheOwners /\ RequestState

LEMMA SignOnTypes ==
  ASSUME TypeOKSignOn
  PROVE  /\ ownerEmail \in Subjects \union {NoSubject}
         /\ \A b \in Browsers : /\ jar[b] \in CookieType
                                /\ jar[b].flow \in BOOLEAN
                                /\ jar[b].pair \in Subjects \union {NoSubject}
                                /\ jar[b].session \in Sessions \union {NoSession}
                                /\ jar[b].github \in Principals \union {NoOwner}
         /\ jar \in [Browsers -> CookieType]
         /\ link \in [Subjects -> Links \union {NoLink}]
         /\ request \in [Requests -> RequestType \union {NoRequest}]
         /\ \A q \in Requests : request[q] \in RequestType \union {NoRequest}
<1>1. jar \in [Browsers -> CookieType] BY DEF TypeOKSignOn, CookieType
<1>2. \A b \in Browsers : jar[b] \in CookieType BY <1>1
<1> QED BY <1>1, <1>2 DEF TypeOKSignOn, CookieType

(* A cookie out of what is another. *)
LEMMA Cookie ==
  ASSUME NEW c \in CookieType
  PROVE  /\ \A x \in BOOLEAN : /\ [c EXCEPT !.flow = x] \in CookieType
                               /\ [c EXCEPT !.flow = x].session = c.session
         /\ \A x \in Subjects \union {NoSubject} :
               /\ [c EXCEPT !.pair = x] \in CookieType
               /\ [c EXCEPT !.pair = x].session = c.session
         /\ \A x \in Sessions \union {NoSession} :
               /\ [c EXCEPT !.session = x] \in CookieType
               /\ [c EXCEPT !.session = x].session = x
         /\ \A x \in Principals \union {NoOwner} :
               /\ [c EXCEPT !.github = x] \in CookieType
               /\ [c EXCEPT !.github = x].session = c.session
BY DEF CookieType

LEMMA Request ==
  ASSUME NEW k \in RequestType \union {NoRequest}, k.at \in {"exchange", "find link", "owner",
           "create", "reread", "finish owner", "finish find", "finish create",
           "finish reread", "answer"} \/ k # NoRequest
  PROVE  /\ k \in RequestType /\ k # NoRequest /\ k.browser \in Browsers
         /\ k.subject \in Subjects /\ k.principal \in Principals \union {NoOwner}
         /\ k.live \in BOOLEAN
<1>1. NoRequest.at = "none" BY DEF NoRequest
<1>2. k \in RequestType BY <1>1
<1>3. k.at # "none" BY <1>2 DEF RequestType
<1> QED BY <1>1, <1>2, <1>3 DEF RequestType

LEMMA InitSignOnOK == InitRoles /\ InitSignOn => SignOnInv
<1> SUFFICES ASSUME InitRoles, InitSignOn PROVE SignOnInv
  OBVIOUS
<1>1. TypeOKSignOn BY DEF InitSignOn, TypeOKSignOn
<1>2. LinksAreTheOwners BY DEF InitSignOn, LinksAreTheOwners
<1>3. RequestState BY DEF InitSignOn, RequestState, RequestOK
<1> QED BY <1>1, <1>2, <1>3, RolesInit DEF SignOnInv

(* A step of one request, or of none, that leaves the links alone. *)
LEMMA StepOfARequest ==
  ASSUME SignOnInv, UNCHANGED roleVars, UNCHANGED <<ownerEmail, link>>,
         NEW q \in Requests, NEW k \in RequestType \union {NoRequest}, RequestOK(k),
         request' = [request EXCEPT ![q] = k], jar' \in [Browsers -> CookieType]
  PROVE  SignOnInv'
<1>1. TypeOKSignOn' BY DEF SignOnInv, TypeOKSignOn, CookieType
<1>2. RolesInv' BY RolesStep DEF SignOnInv
<1>3. LinksAreTheOwners' BY DEF SignOnInv, LinksAreTheOwners, roleVars
<1>4. RequestState'
  <2> SUFFICES ASSUME NEW r \in Requests PROVE RequestOK(request[r])'
    BY DEF RequestState
  <2>1. request'[r] = IF r = q THEN k ELSE request[r] BY SignOnTypes DEF SignOnInv
  <2>2. RequestOK(request[r]) BY DEF SignOnInv, RequestState
  <2> QED BY <2>1, <2>2 DEF RequestOK, Live, roleVars
<1> QED BY <1>1, <1>2, <1>3, <1>4 DEF SignOnInv

LEMMA EndOfARequest ==
  ASSUME SignOnInv, UNCHANGED roleVars, UNCHANGED <<ownerEmail, link>>,
         NEW q \in Requests, NEW c \in CookieType, NEW b \in Browsers,
         request' = [request EXCEPT ![q] = NoRequest],
         jar' = [jar EXCEPT ![b] = c]
  PROVE  SignOnInv'
<1>1. jar' \in [Browsers -> CookieType] BY SignOnTypes DEF SignOnInv
<1>2. RequestOK(NoRequest) BY DEF RequestOK
<1> QED BY <1>1, <1>2, StepOfARequest

(* Steps around the routes. *)
LEMMA BrowserKeeps ==
  ASSUME SignOnInv, UNCHANGED roleVars, NEW b \in Browsers,
         GitHubSignIn(b) \/ Expire(b) \/ StartFlow(b) \/ Logout(b)
  PROVE  SignOnInv'
<1>1. jar[b] \in CookieType /\ jar \in [Browsers -> CookieType] BY SignOnTypes DEF SignOnInv
<1>2. NoSession \in Sessions \union {NoSession} /\ NoSubject \in Subjects \union {NoSubject}
        /\ FALSE \in BOOLEAN /\ TRUE \in BOOLEAN
  OBVIOUS
<1>3. PICK c \in CookieType : jar' = [jar EXCEPT ![b] = c]
  <2>1. CASE GitHubSignIn(b)
    <3>1. PICK p \in Principals : jar' = [jar EXCEPT ![b].github = p]
      BY <2>1 DEF GitHubSignIn
    <3>2. [jar[b] EXCEPT !.github = p] \in CookieType BY <1>1, Cookie
    <3> QED BY <1>1, <3>1, <3>2
  <2>2. CASE Expire(b)
    <3>1. [jar[b] EXCEPT !.flow = FALSE] \in CookieType BY <1>1, <1>2, Cookie
    <3>2. [jar[b] EXCEPT !.pair = NoSubject] \in CookieType BY <1>1, <1>2, Cookie
    <3>3. [jar[b] EXCEPT !.session = NoSession] \in CookieType BY <1>1, <1>2, Cookie
    <3> QED BY <2>2, <3>1, <3>2, <3>3 DEF Expire
  <2>3. CASE StartFlow(b)
    <3>1. [jar[b] EXCEPT !.flow = TRUE] \in CookieType BY <1>1, <1>2, Cookie
    <3> QED BY <1>1, <2>3, <3>1 DEF StartFlow
  <2>4. CASE Logout(b)
    <3>1. [jar[b] EXCEPT !.flow = FALSE] \in CookieType BY <1>1, <1>2, Cookie
    <3>2. [[jar[b] EXCEPT !.flow = FALSE] EXCEPT !.session = NoSession] \in CookieType
      BY <1>2, <3>1, Cookie
    <3> QED BY <1>1, <2>4, <3>2 DEF Logout
  <2> QED BY <2>1, <2>2, <2>3, <2>4
<1>4. jar' \in [Browsers -> CookieType] BY <1>1, <1>3
<1>5. UNCHANGED <<link, request>> /\ ownerEmail' \in Subjects \union {NoSubject}
  BY SignOnTypes DEF GitHubSignIn, Expire, StartFlow, Logout, SignOnInv
<1>6. TypeOKSignOn' BY <1>4, <1>5 DEF SignOnInv, TypeOKSignOn, CookieType
<1>7. LinksAreTheOwners' /\ RequestState'
  BY <1>5 DEF SignOnInv, LinksAreTheOwners, RequestState, RequestOK, Live, roleVars
<1> QED BY <1>6, <1>7, RolesStep DEF SignOnInv

LEMMA RevokeKeeps ==
  ASSUME SignOnInv, UNCHANGED roleVars, NEW s \in Subjects, Revoke(s)
  PROVE  SignOnInv'
<1>1. link[s] \in Links BY DEF Revoke, Live, SignOnInv, TypeOKSignOn
<1> DEFINE l == [link[s] EXCEPT !.revoked = TRUE]
<1>2. l \in Links /\ l.principal = link[s].principal /\ l.revoked = TRUE BY <1>1 DEF Links
<1>3. \A t \in Subjects : link'[t] = IF t = s THEN l ELSE link[t]
  BY SignOnTypes DEF Revoke, SignOnInv
<1>4. l # NoLink BY <1>2 DEF Links, NoLink
<1>5. UNCHANGED <<ownerEmail, jar, request>> /\ link' = [link EXCEPT ![s] = l]
  BY SignOnTypes DEF Revoke, SignOnInv
<1>6. link[s] # NoLink BY DEF Revoke, Live
<1> HIDE DEF l
<1>7. TypeOKSignOn' BY <1>2, <1>5 DEF SignOnInv, TypeOKSignOn
<1>8. LinksAreTheOwners'
  BY <1>2, <1>3, <1>6 DEF SignOnInv, LinksAreTheOwners, roleVars
<1>9. RequestState'
  <2> SUFFICES ASSUME NEW q \in Requests, request[q] # NoRequest PROVE RequestOK(request[q])'
    BY <1>5 DEF RequestState, RequestOK
  <2>1. request[q].subject \in Subjects BY Request, SignOnTypes DEF SignOnInv
  <2>2. Live(request[q].subject)' => Live(request[q].subject)
    BY <1>2, <1>3, <1>5, <2>1 DEF Live
  <2>3. link[request[q].subject] # NoLink => link'[request[q].subject] # NoLink
    BY <1>3, <1>4, <2>1
  <2>4. RequestOK(request[q]) BY DEF SignOnInv, RequestState
  <2> QED BY <1>5, <2>2, <2>3, <2>4 DEF RequestOK, roleVars
<1> QED BY <1>7, <1>8, <1>9, RolesStep DEF SignOnInv

(* What is known of a request in progress. *)
LEMMA Known ==
  ASSUME SignOnInv, NEW q \in Requests, request[q] # NoRequest
  PROVE  /\ request[q] \in RequestType /\ request[q].browser \in Browsers
         /\ request[q].subject \in Subjects
         /\ request[q].principal \in Principals \union {NoOwner}
         /\ Cookies(q) \in CookieType
         /\ RequestOK(request[q])
<1>1. request[q] \in RequestType /\ request[q].browser \in Browsers
  BY Request, SignOnTypes DEF SignOnInv
<1>2. Cookies(q) \in CookieType BY <1>1, SignOnTypes DEF Cookies, SignOnInv
<1>3. RequestOK(request[q]) BY DEF SignOnInv, RequestState
<1> QED BY <1>1, <1>2, <1>3 DEF RequestType

LEMMA Idle == NoRequest.at = "none"
BY DEF NoRequest

(* An answer that does not sign in. *)
LEMMA AnswerKeeps ==
  ASSUME SignOnInv, UNCHANGED roleVars, UNCHANGED <<ownerEmail, link>>,
         NEW q \in Requests, request[q] # NoRequest, NEW c \in CookieType, Answer(q, c)
  PROVE  SignOnInv'
<1>1. request[q].browser \in Browsers BY Known
<1> QED BY <1>1, EndOfARequest DEF Answer

LEMMA ErrorKeeps ==
  ASSUME SignOnInv, UNCHANGED roleVars, UNCHANGED <<ownerEmail, link>>,
         NEW q \in Requests, request[q] # NoRequest,
         CallbackError(q) \/ FinishError(q)
  PROVE  SignOnInv'
<1>1. Cookies(q) \in CookieType BY Known
<1>2. [Cookies(q) EXCEPT !.flow = FALSE] \in CookieType BY <1>1, Cookie
<1>3. [Cookies(q) EXCEPT !.pair = NoSubject] \in CookieType BY <1>1, Cookie
<1> QED BY <1>2, <1>3, AnswerKeeps DEF CallbackError, FinishError

(* A request goes on to its next await with what it holds. *)
LEMMA GoesOn ==
  ASSUME SignOnInv, UNCHANGED roleVars, UNCHANGED <<ownerEmail, link, jar>>,
         NEW q \in Requests, request[q] # NoRequest,
         NEW k \in RequestType, request' = [request EXCEPT ![q] = k],
         k.subject = request[q].subject, k.live = request[q].live,
         k.principal \in {owner, NoOwner},
         k.at \in Linking => k.principal = owner /\ owner # NoOwner,
         k.at = "answer" => Live(k.subject)
  PROVE  SignOnInv'
<1>1. RequestOK(request[q]) BY Known
<1>2. Live(k.subject) => k.live BY <1>1 DEF RequestOK
<1>3. RequestOK(k) BY <1>2 DEF RequestOK, Live
<1>4. jar' \in [Browsers -> CookieType] BY SignOnTypes DEF SignOnInv
<1> QED BY <1>3, <1>4, StepOfARequest

LEMMA CallbackKeeps ==
  ASSUME SignOnInv, UNCHANGED roleVars, NEW q \in Requests, NEW b \in Browsers,
         Callback(q, b) \/ Finish(q, b)
  PROVE  SignOnInv'
<1>1. CASE request' = request
  <2>1. UNCHANGED <<ownerEmail, link>> /\ (jar' = [jar EXCEPT ![b].flow = FALSE] \/ jar' = jar)
    BY <1>1 DEF Callback, Finish
  <2>2. [jar[b] EXCEPT !.flow = FALSE] \in CookieType BY Cookie, SignOnTypes DEF SignOnInv
  <2>3. jar' \in [Browsers -> CookieType] BY <2>1, <2>2, SignOnTypes DEF SignOnInv
  <2>4. request' = [request EXCEPT ![q] = request[q]]
    BY <1>1, SignOnTypes DEF SignOnInv
  <2>5. RequestOK(request[q]) /\ request[q] \in RequestType \union {NoRequest}
    BY SignOnTypes DEF SignOnInv, RequestState
  <2> QED BY <2>1, <2>3, <2>4, <2>5, StepOfARequest
<1>2. CASE request' # request
  <2>1. PICK k : /\ request' = [request EXCEPT ![q] = k] /\ k \in RequestType
                 /\ k.at \in {"exchange", "finish owner"} /\ k.principal = NoOwner
                 /\ k.live = Live(k.subject)
    <3>1. CASE Callback(q, b)
      <4>1. PICK s \in Subjects : request' = [request EXCEPT ![q] =
               [at |-> "exchange", browser |-> b, route |-> "callback",
                github |-> NoOwner, subject |-> s,
                principal |-> NoOwner, live |-> Live(s)]]
        BY <1>2, <3>1 DEF Callback
      <4> DEFINE k == [at |-> "exchange", browser |-> b, route |-> "callback",
                       github |-> NoOwner, subject |-> s,
                       principal |-> NoOwner, live |-> Live(s)]
      <4>2. /\ k \in RequestType /\ k.at = "exchange" /\ k.principal = NoOwner
            /\ k.live = Live(k.subject)
        BY DEF RequestType, Live
      <4>3. request' = [request EXCEPT ![q] = k] BY <4>1
      <4> HIDE DEF k
      <4> QED BY <4>2, <4>3
    <3>2. CASE Finish(q, b)
      <4> DEFINE k == [at |-> "finish owner", browser |-> b, route |-> "finish",
                       github |-> jar[b].github, subject |-> jar[b].pair,
                       principal |-> NoOwner, live |-> Live(jar[b].pair)]
      <4>1. jar[b].github \in Principals /\ jar[b].pair \in Subjects
        BY <3>2, SignOnTypes DEF Finish, SignOnInv
      <4>2. /\ k \in RequestType /\ k.at = "finish owner" /\ k.principal = NoOwner
            /\ k.live = Live(k.subject)
        BY <4>1 DEF RequestType, Live
      <4>3. request' = [request EXCEPT ![q] = k] BY <3>2 DEF Finish
      <4> HIDE DEF k
      <4> QED BY <4>2, <4>3
    <3> QED BY <3>1, <3>2
  <2>2. RequestOK(k) BY <2>1 DEF RequestOK, Linking
  <2>3. UNCHANGED <<ownerEmail, link, jar>> BY <1>2 DEF Callback, Finish
  <2>4. jar' \in [Browsers -> CookieType] BY <2>3, SignOnTypes DEF SignOnInv
  <2> QED BY <2>1, <2>2, <2>3, <2>4, StepOfARequest
<1> QED BY <1>1, <1>2

LEMMA GotoKeeps ==
  ASSUME SignOnInv, UNCHANGED roleVars, UNCHANGED <<ownerEmail, link, jar>>,
         NEW q \in Requests, request[q] # NoRequest,
         NEW x \in {"find link", "owner", "create", "reread", "finish find",
                    "finish create", "finish reread", "answer"}, Goto(q, x),
         x \in Linking => request[q].principal = owner /\ owner # NoOwner,
         x = "answer" => Live(request[q].subject)
  PROVE  SignOnInv'
<1> DEFINE n == [request[q] EXCEPT !.at = x]
<1>1. request[q] \in RequestType /\ RequestOK(request[q]) BY Known
<1>2. n \in RequestType /\ n.at = x /\ n.subject = request[q].subject
        /\ n.live = request[q].live /\ n.principal = request[q].principal
  BY <1>1 DEF RequestType
<1>3. request' = [request EXCEPT ![q] = n] BY SignOnTypes DEF Goto, SignOnInv
<1>4. n.principal \in {owner, NoOwner} BY <1>1, <1>2 DEF RequestOK
<1> HIDE DEF n
<1> QED BY <1>2, <1>3, <1>4, GoesOn

(* A request chooses its principal. *)
LEMMA ChoosesKeeps ==
  ASSUME SignOnInv, UNCHANGED roleVars, UNCHANGED <<ownerEmail, link, jar>>,
         NEW q \in Requests, request[q] # NoRequest, owner # NoOwner,
         NEW x \in {"create", "answer"}, x = "answer" => Live(request[q].subject),
         request' = [request EXCEPT ![q].at = x, ![q].principal = owner]
  PROVE  SignOnInv'
<1> DEFINE n == [request[q] EXCEPT !.at = x, !.principal = owner]
<1>1. request[q] \in RequestType BY Known
<1>2. owner \in Principals BY DEF SignOnInv, RolesInv, TypeOKRoles
<1>3. n \in RequestType /\ n.at = x /\ n.subject = request[q].subject
        /\ n.live = request[q].live /\ n.principal = owner
  BY <1>1, <1>2 DEF RequestType
<1>4. request' = [request EXCEPT ![q] = n] BY SignOnTypes DEF SignOnInv
<1> HIDE DEF n
<1> QED BY <1>3, <1>4, GoesOn

LEMMA CallbackStepsKeep ==
  ASSUME SignOnInv, UNCHANGED roleVars, NEW q \in Requests,
         Exchange(q) \/ FindLink(q) \/ MatchOwner(q) \/ Reread(q)
  PROVE  SignOnInv'
<1> DEFINE k == request[q]
<1>1. k # NoRequest /\ UNCHANGED <<ownerEmail, link>>
  BY Idle DEF Exchange, FindLink, MatchOwner, Reread
<1>2. k.subject \in Subjects /\ RequestOK(k) /\ Cookies(q) \in CookieType BY <1>1, Known
<1>3. CallbackError(q) => SignOnInv' BY <1>1, ErrorKeeps
<1>4. link[k.subject] # NoLink =>
        link[k.subject].principal = owner /\ owner # NoOwner
  BY <1>2 DEF SignOnInv, LinksAreTheOwners
<1>5. link[k.subject] # NoLink /\ Usable(link[k.subject]) => Live(k.subject)
  BY DEF Usable, Live
<1>6. CASE Exchange(q)
  <2>1. Goto(q, "find link") /\ UNCHANGED jar => SignOnInv'
    BY <1>1, GotoKeeps DEF Linking
  <2> QED BY <1>3, <1>6, <2>1 DEF Exchange
<1>7. CASE FindLink(q)
  <2>1. CASE link[k.subject] = NoLink
    BY <1>1, <1>7, <2>1, GotoKeeps DEF FindLink, Linking
  <2>2. CASE link[k.subject] # NoLink /\ Usable(link[k.subject])
    <3>1. request' = [request EXCEPT ![q].at = "answer", ![q].principal = owner]
            /\ UNCHANGED jar
      BY <1>4, <1>7, <2>2 DEF FindLink
    <3> QED BY <1>1, <1>4, <1>5, <2>2, <3>1, ChoosesKeeps
  <2>3. CASE link[k.subject] # NoLink /\ ~Usable(link[k.subject])
    BY <1>3, <1>7, <2>3 DEF FindLink
  <2> QED BY <2>1, <2>2, <2>3
<1>8. CASE MatchOwner(q)
  <2>1. CASE owner = NoOwner BY <1>3, <1>8, <2>1 DEF MatchOwner
  <2>2. CASE owner # NoOwner /\ ownerEmail = k.subject
    BY <1>1, <1>8, <2>2, ChoosesKeeps DEF MatchOwner
  <2>3. CASE owner # NoOwner /\ ownerEmail # k.subject
    <3> DEFINE c == [Cookies(q) EXCEPT !.flow = FALSE, !.pair = k.subject]
    <3>1. c \in CookieType BY <1>2 DEF CookieType
    <3>2. Answer(q, c) BY <1>8, <2>3 DEF MatchOwner
    <3> HIDE DEF c
    <3> QED BY <1>1, <3>1, <3>2, AnswerKeeps
  <2> QED BY <2>1, <2>2, <2>3
<1>9. CASE Reread(q)
  <2>1. k.principal = owner /\ owner # NoOwner BY <1>1, <1>2, <1>9 DEF Reread, RequestOK, Linking
  <2>2. Goto(q, "answer") /\ UNCHANGED jar /\ Live(k.subject) => SignOnInv'
    BY <1>1, <2>1, GotoKeeps
  <2> QED BY <1>3, <1>5, <1>9, <2>2 DEF Reread
<1> QED BY <1>6, <1>7, <1>8, <1>9

LEMMA FinishStepsKeep ==
  ASSUME SignOnInv, UNCHANGED roleVars, NEW q \in Requests, VerifyOwner(q) \/ FinishFind(q)
  PROVE  SignOnInv'
<1> DEFINE k == request[q]
<1>1. k # NoRequest /\ UNCHANGED <<ownerEmail, link>>
  BY Idle DEF VerifyOwner, FinishFind
<1>2. k \in RequestType /\ RequestOK(k) BY <1>1, Known
<1>3. FinishError(q) => SignOnInv' BY <1>1, ErrorKeeps
<1>4. CASE VerifyOwner(q)
  <2>1. CASE owner # NoOwner /\ k.github = owner
    <3> DEFINE n == [k EXCEPT !.at = "finish find", !.principal = owner, !.github = NoOwner]
    <3>1. owner \in Principals BY <2>1 DEF SignOnInv, RolesInv, TypeOKRoles
    <3>2. n \in RequestType /\ n.at = "finish find" /\ n.subject = k.subject
            /\ n.live = k.live /\ n.principal = owner
      BY <1>2, <3>1 DEF RequestType
    <3>3. request' = [request EXCEPT ![q] = n] /\ UNCHANGED jar
      BY <1>4, <2>1, SignOnTypes DEF VerifyOwner, SignOnInv
    <3> HIDE DEF n
    <3> QED BY <1>1, <2>1, <3>2, <3>3, GoesOn
  <2>2. CASE ~(owner # NoOwner /\ k.github = owner)
    BY <1>3, <1>4, <2>2 DEF VerifyOwner
  <2> QED BY <2>1, <2>2
<1>5. CASE FinishFind(q)
  <2>1. k.principal = owner /\ owner # NoOwner
    BY <1>1, <1>2, <1>5 DEF FinishFind, RequestOK, Linking
  <2>2. Goto(q, "answer") /\ UNCHANGED jar /\ Live(k.subject) => SignOnInv'
    BY <1>1, <2>1, GotoKeeps
  <2>3. Goto(q, "finish create") /\ UNCHANGED jar => SignOnInv'
    BY <1>1, <2>1, GotoKeeps
  <2> QED BY <1>3, <1>5, <2>2, <2>3 DEF FinishFind, Live, Usable
<1> QED BY <1>4, <1>5

(* The insert: no link was there, for the subject or for the owner. *)
LEMMA CreateKeeps ==
  ASSUME SignOnInv, UNCHANGED roleVars, NEW q \in Requests, Create(q) \/ FinishCreate(q)
  PROVE  SignOnInv'
<1> DEFINE k == request[q]
<1>1. k.at \in {"create", "finish create"} /\ UNCHANGED <<ownerEmail, jar>>
        /\ (CreateLink(q, "reread") \/ CreateLink(q, "finish reread"))
  BY DEF Create, FinishCreate
<1>2. k # NoRequest BY <1>1, Idle
<1>3. k \in RequestType /\ k.subject \in Subjects /\ RequestOK(k) BY <1>2, Known
<1>4. k.principal = owner /\ owner # NoOwner BY <1>1, <1>2, <1>3 DEF RequestOK, Linking
<1>5. owner \in Principals BY <1>4 DEF SignOnInv, RolesInv, TypeOKRoles
<1>6. CASE ~InsertableLink(k.subject, k.principal)
  <2>1. UNCHANGED link /\ (Goto(q, "reread") \/ Goto(q, "finish reread"))
    BY <1>1, <1>6 DEF CreateLink
  <2> QED BY <1>1, <1>2, <1>4, <2>1, GotoKeeps
<1>7. CASE InsertableLink(k.subject, k.principal)
  <2> DEFINE l == [principal |-> k.principal, revoked |-> FALSE]
  <2>1. l \in Links /\ l # NoLink /\ l.principal = owner /\ l.revoked = FALSE
    BY <1>4, <1>5 DEF Links, NoLink
  <2>2. /\ link' = [link EXCEPT ![k.subject] = l]
        /\ request' = [r \in Requests |->
              IF request[r] = NoRequest THEN NoRequest
              ELSE [request[r] EXCEPT !.live = @ \/ request[r].subject = k.subject,
                                      !.at = IF r = q THEN "answer" ELSE @]]
    BY <1>1, <1>7 DEF CreateLink
  <2> HIDE DEF l
  <2>3. \A s \in Subjects : link[s] = NoLink
    BY <1>4, <1>7 DEF InsertableLink, SignOnInv, LinksAreTheOwners
  <2>4. \A s \in Subjects : link'[s] = IF s = k.subject THEN l ELSE NoLink
    BY <2>2, <2>3, SignOnTypes DEF SignOnInv
  <2>5. LinksAreTheOwners' BY <1>4, <2>1, <2>4 DEF LinksAreTheOwners, roleVars
  <2>6. ASSUME NEW r \in Requests
        PROVE  request'[r] \in RequestType \union {NoRequest} /\ RequestOK(request[r])'
    <3>1. CASE request[r] = NoRequest BY <2>2, <3>1 DEF RequestOK
    <3>2. CASE request[r] # NoRequest
      <4> DEFINE m == request[r]
      <4>1. m \in RequestType /\ m.subject \in Subjects /\ RequestOK(m) BY <3>2, Known
      <4>0. PICK n : n = [m EXCEPT !.live = @ \/ m.subject = k.subject,
                                   !.at = IF r = q THEN "answer" ELSE @]
        OBVIOUS
      <4>2. /\ n \in RequestType /\ n.subject = m.subject /\ n.principal = m.principal
            /\ n.live = (m.live \/ m.subject = k.subject)
            /\ n.at = IF r = q THEN "answer" ELSE m.at
        BY <4>0, <4>1 DEF RequestType
      <4>3. request'[r] = n BY <2>2, <3>2, <4>0
      <4>4. Live(n.subject)' => n.live
        <5>1. CASE n.subject = k.subject BY <4>2, <5>1
        <5>2. CASE n.subject # k.subject
          BY <2>4, <4>1, <4>2, <5>2 DEF Live
        <5> QED BY <5>1, <5>2
      <4>5. n.principal \in {owner, NoOwner}
              /\ (n.at \in Linking => n.principal = owner /\ owner # NoOwner)
        BY <1>4, <3>2, <4>1, <4>2 DEF RequestOK
      <4>6. n.at = "answer" => n.live /\ link'[n.subject] # NoLink
        <5>1. CASE r = q BY <2>1, <2>4, <4>1, <4>2, <5>1
        <5>2. CASE r # q BY <2>3, <3>2, <4>1, <4>2, <5>2 DEF RequestOK
        <5> QED BY <5>1, <5>2
      <4>7. RequestOK(n)' BY <4>4, <4>5, <4>6 DEF RequestOK, roleVars
      <4> QED BY <4>2, <4>3, <4>7 DEF RequestOK, Live
    <3> QED BY <3>1, <3>2
  <2>7. TypeOKSignOn'
    <3>1. link' \in [Subjects -> Links \union {NoLink}]
      BY <2>1, <2>2, SignOnTypes DEF SignOnInv
    <3>2. request' \in [Requests -> RequestType \union {NoRequest}] BY <2>2, <2>6
    <3> QED BY <1>1, <3>1, <3>2 DEF SignOnInv, TypeOKSignOn
  <2>8. RequestState' BY <2>6 DEF RequestState
  <2> QED BY <2>5, <2>7, <2>8, RolesStep DEF SignOnInv
<1> QED BY <1>6, <1>7

LEMMA SignInKeeps ==
  ASSUME SignOnInv, UNCHANGED roleVars, NEW q \in Requests, SignIn(q)
  PROVE  SignOnInv'
<1> DEFINE k == request[q]
           signed == [Cookies(q) EXCEPT !.session = [subject |-> k.subject,
                                                     principal |-> k.principal]]
<1>1. k # NoRequest BY Idle DEF SignIn
<1>2. k.subject \in Subjects /\ RequestOK(k) /\ Cookies(q) \in CookieType BY <1>1, Known
<1>3. k.principal \in Principals
  BY <1>1, <1>2 DEF SignIn, RequestOK, Linking, SignOnInv, RolesInv, TypeOKRoles
<1>4. signed \in CookieType BY <1>2, <1>3 DEF CookieType, Sessions
<1>5. [signed EXCEPT !.flow = FALSE] \in CookieType
        /\ [signed EXCEPT !.pair = NoSubject] \in CookieType
  BY <1>4 DEF CookieType
<1>6. PICK c \in CookieType : Answer(q, c) BY <1>5 DEF SignIn
<1> QED BY <1>1, <1>6, AnswerKeeps DEF SignIn

(* The owner is written once: no step of any call replaces it. *)
LEMMA OwnerStays ==
  ASSUME \/ Bootstrapping \/ Granting
         \/ \E c \in RoleCalls : \/ ReadOwner(c) \/ ReadRole(c) \/ BootstrapBy(c)
                               \/ SetProjectRole(c) \/ DropRoleCall(c)
                               \/ \E p, to \in Principals, give \in Roles :
                                    BeginGrant(c, p, to, give)
  PROVE  owner' = owner \/ owner = NoOwner
BY DEF Bootstrapping, BootstrapBy, BeginBootstrap, ReadBootstrap, WriteBootstrap, NoBootstrapRow,
       Granting, BeginGrant, BeginGuarded, ReadOwner, ReadRole, SetProjectRole, DropRoleCall

(* What sign-on relies on: whatever is written meanwhile, the roles stay   *)
(* accounted for and an owner, once there, is not replaced.                *)
LEMMA OwnerComesMeanwhile ==
  ASSUME SignOnInv, RolesInv', UNCHANGED signOnVars, owner' = owner \/ owner = NoOwner
  PROVE  SignOnInv'
<1>1. UNCHANGED <<ownerEmail, link, jar, request>> BY DEF signOnVars
<1>2. TypeOKSignOn' BY <1>1 DEF SignOnInv, TypeOKSignOn
<1>3. LinksAreTheOwners' BY <1>1 DEF SignOnInv, LinksAreTheOwners
<1>4. RequestState' BY <1>1 DEF SignOnInv, RequestState, RequestOK, Live
<1> QED BY <1>2, <1>3, <1>4 DEF SignOnInv

LEMMA SignOnStep == SignOnInv /\ [NextSignOn]_<<roleVars, signOnVars>> => SignOnInv'
<1> SUFFICES ASSUME SignOnInv, [NextSignOn]_<<roleVars, signOnVars>> PROVE SignOnInv'
  OBVIOUS
<1>1. CASE SigningOn /\ UNCHANGED roleVars
  <2>1. ASSUME NEW q \in Requests, Abandon(q) PROVE SignOnInv'
    <3>1. jar' \in [Browsers -> CookieType] BY <2>1, SignOnTypes DEF Abandon, SignOnInv
    <3>2. RequestOK(NoRequest) BY DEF RequestOK
    <3> QED BY <1>1, <2>1, <3>1, <3>2, StepOfARequest DEF Abandon
  <2> QED BY <1>1, <2>1, BrowserKeeps, RevokeKeeps, CallbackKeeps, CallbackStepsKeep,
             FinishStepsKeep, CreateKeeps, SignInKeeps DEF SigningOn
<1>2. ASSUME NextRoles \/ UNCHANGED roleVars, UNCHANGED signOnVars PROVE SignOnInv'
  <2>1. RolesInv' BY <1>2, RolesStep DEF SignOnInv
  <2>2. owner' = owner \/ owner = NoOwner BY <1>2, OwnerStays DEF NextRoles, roleVars
  <2> QED BY <1>2, <2>1, <2>2, OwnerComesMeanwhile
<1> QED BY <1>1, <1>2 DEF NextSignOn, roleVars, signOnVars

(* Links, sessions and requests agree, whatever signs on, revokes or       *)
(* bootstraps meanwhile.                                                   *)
THEOREM SignOnInvariant == SpecSignOn => []SignOnInv
BY InitSignOnOK, SignOnStep, PTL DEF SpecSignOn

LEMMA LinksOnlyGrow ==
  ASSUME SignOnInv, SigningOn, NEW s \in Subjects, link[s] # NoLink
  PROVE  /\ link'[s] # NoLink /\ link'[s].principal = link[s].principal
         /\ link[s].revoked => link'[s].revoked
<1>1. link[s] \in Links BY SignOnTypes DEF SignOnInv
<1>2. ASSUME NEW t \in Subjects, Revoke(t)
      PROVE  link' = [link EXCEPT ![t] = [link[t] EXCEPT !.revoked = TRUE]]
  BY <1>2, SignOnTypes DEF Revoke, SignOnInv
<1>3. [link[s] EXCEPT !.revoked = TRUE] # NoLink
        /\ [link[s] EXCEPT !.revoked = TRUE].principal = link[s].principal
        /\ [link[s] EXCEPT !.revoked = TRUE].revoked = TRUE
  BY <1>1 DEF Links, NoLink
<1>4. ASSUME NEW t \in Subjects, Revoke(t)
      PROVE  link'[s] = link[s] \/ link'[s] = [link[s] EXCEPT !.revoked = TRUE]
  BY <1>2, <1>4, SignOnTypes DEF SignOnInv
<1>5. ASSUME NEW q \in Requests, Create(q) \/ FinishCreate(q) PROVE link'[s] = link[s]
  BY <1>5, SignOnTypes DEF Create, FinishCreate, CreateLink, InsertableLink, SignOnInv
<1>6. link'[s] = link[s] \/ link'[s] = [link[s] EXCEPT !.revoked = TRUE]
  BY <1>4, <1>5 DEF SigningOn, GitHubSignIn, Expire, StartFlow, Logout, Exchange, FindLink,
     MatchOwner, Reread, VerifyOwner, FinishFind, SignIn, Abandon, Callback, Finish
<1> QED BY <1>3, <1>6

LEMMA SessionsAreBacked ==
  ASSUME SignOnInv, SigningOn, NEW b \in Browsers,
         jar'[b].session # jar[b].session, jar'[b].session # NoSession
  PROVE  /\ jar'[b].session.principal = owner /\ link[jar'[b].session.subject] # NoLink
         /\ \E q \in Requests : /\ request[q] # NoRequest
                                /\ request[q].browser = b
                                /\ request[q].subject = jar'[b].session.subject
                                /\ request[q].live
<1>1. \A x \in Browsers : jar[x] \in CookieType BY SignOnTypes DEF SignOnInv
<1>2. jar \in [Browsers -> CookieType] BY SignOnTypes DEF SignOnInv
<1>3. ASSUME NEW x \in Browsers, GitHubSignIn(x) \/ Expire(x) \/ StartFlow(x) \/ Logout(x)
      PROVE  FALSE
  BY <1>1, <1>2, <1>3, Cookie DEF GitHubSignIn, Expire, StartFlow, Logout, CookieType
<1>4. ASSUME NEW q \in Requests, request[q] # NoRequest, NEW c \in CookieType, Answer(q, c),
             c.session = Cookies(q).session
      PROVE  FALSE
  BY <1>2, <1>4, Known DEF Answer, Cookies
<1>5. ASSUME NEW q \in Requests, CallbackError(q) \/ FinishError(q), request[q] # NoRequest
      PROVE  FALSE
  BY <1>4, <1>5, Known DEF CallbackError, FinishError, CookieType
<1>6. ASSUME NEW q \in Requests, MatchOwner(q) PROVE FALSE
  <2>1. request[q] # NoRequest BY <1>6, Idle DEF MatchOwner
  <2> DEFINE c == [Cookies(q) EXCEPT !.flow = FALSE, !.pair = request[q].subject]
  <2>2. c \in CookieType /\ c.session = Cookies(q).session BY <2>1, Known DEF CookieType
  <2>3. Answer(q, c) BY <1>5, <1>6, <2>1 DEF MatchOwner
  <2> QED BY <1>4, <2>1, <2>2, <2>3
<1>7. ASSUME NEW q \in Requests,
             Exchange(q) \/ FindLink(q) \/ Reread(q) \/ VerifyOwner(q) \/ FinishFind(q)
      PROVE  FALSE
  BY <1>5, <1>7, Idle DEF Exchange, FindLink, Reread, VerifyOwner, FinishFind
<1>8. ASSUME NEW q \in Requests, NEW x \in Browsers, Callback(q, x) \/ Finish(q, x)
      PROVE  FALSE
  <2>1. CASE Callback(q, x) BY <1>1, <1>2, <2>1 DEF Callback, CookieType
  <2>2. CASE Finish(q, x) BY <1>1, <1>2, <2>2 DEF Finish, CookieType
  <2> QED BY <1>8, <2>1, <2>2
<1>9. ASSUME NEW q \in Requests, Create(q) \/ FinishCreate(q) \/ Abandon(q) PROVE FALSE
  BY <1>9 DEF Create, FinishCreate, Abandon
<1>10. ASSUME NEW s \in Subjects, Revoke(s) PROVE FALSE
  BY <1>10 DEF Revoke
<1>11. PICK q \in Requests : SignIn(q)
  BY <1>3, <1>6, <1>7, <1>8, <1>9, <1>10 DEF SigningOn
<1> DEFINE k == request[q]
<1>12. k # NoRequest /\ k.at = "answer" BY <1>11, Idle DEF SignIn
<1>13. k.subject \in Subjects /\ RequestOK(k) /\ Cookies(q) \in CookieType
         /\ k.browser \in Browsers
  BY <1>12, Known
<1>14. k.principal = owner /\ k.live /\ link[k.subject] # NoLink
  BY <1>12, <1>13 DEF RequestOK, Linking
<1>15. PICK c : Answer(q, c) /\ c.session = [subject |-> k.subject, principal |-> k.principal]
  <2> DEFINE new == [subject |-> k.subject, principal |-> k.principal]
             signed == [Cookies(q) EXCEPT !.session = new]
  <2>1. signed.session = new /\ [signed EXCEPT !.flow = FALSE].session = new
          /\ [signed EXCEPT !.pair = NoSubject].session = new
    BY <1>13 DEF CookieType
  <2>2. Answer(q, [signed EXCEPT !.flow = FALSE]) \/ Answer(q, [signed EXCEPT !.pair = NoSubject])
    BY <1>11 DEF SignIn
  <2> HIDE DEF signed, new
  <2> QED BY <2>1, <2>2 DEF new
<1>16. b = k.browser /\ jar'[b].session = [subject |-> k.subject, principal |-> k.principal]
  BY <1>2, <1>13, <1>15 DEF Answer
<1> QED BY <1>12, <1>14, <1>16

(* Whatever signs on, links stay one and the owner's, sessions are backed. *)
LEMMA SignOnActions ==
  ASSUME SignOnInv, SignOnInv', SigningOn, UNCHANGED roleVars
  PROVE  LinkedOnce /\ SignedInByALiveLink
<1>1. LinkedOnce
  BY LinksOnlyGrow DEF LinkedOnce, SignOnInv, LinksAreTheOwners, roleVars
<1>2. SignedInByALiveLink BY SessionsAreBacked DEF SignedInByALiveLink
<1> QED BY <1>1, <1>2

(* One account at most is ever linked, to the owner and for good, and a    *)
(* browser is signed in only by a link that was live during its request.   *)
THEOREM OnlyTheOwnerSignsOn == SpecSignOn => OwnerSignsOn
<1>1. SignOnInv /\ SignOnInv' /\ [NextSignOn]_<<roleVars, signOnVars>>
        => [LinkedOnce /\ SignedInByALiveLink]_signOnVars
  BY SignOnActions DEF NextSignOn
<1>2. []SignOnInv /\ [][NextSignOn]_<<roleVars, signOnVars>>
        => [][LinkedOnce /\ SignedInByALiveLink]_signOnVars
  BY <1>1, PTL
<1> QED BY <1>2, SignOnInvariant, PTL DEF SpecSignOn, OwnerSignsOn

-----------------------------------------------------------------------------
(* Reviews.  A submission writes long after it asked the authority.        *)

Qualified(p) ==
  \E j \in DOMAIN audit : BootstrappedAs(j, p) \/ Given(j, p, {"OWNER", "REVIEWER"})

AdmittedAreQualified ==
  \A c \in RoleCalls : Admitted(c, "PROJECT_REVIEW") => Qualified(roleCall[c].actor)

(* A submission past the authority is admitted, one that inserts also      *)
(* acceptable.                                                             *)
SubmissionState ==
  \A c \in RoleCalls :
    /\ review[c].at \in {"existing", "append"} => Admitted(c, "PROJECT_REVIEW")
    /\ review[c].at = "append" =>
         Acceptable(review[c].screen, review[c].decision, review[c].acknowledged)

ReviewInv ==
  /\ RolesInv /\ TypeOKReview /\ AdmittedAreQualified
  /\ SubmissionState /\ DecisionsAreAccountable

LEMMA ReviewInit == InitRoles /\ InitReview => ReviewInv
<1> SUFFICES ASSUME InitRoles, InitReview PROVE ReviewInv
  OBVIOUS
<1>1. TypeOKReview BY ReviewAssumption DEF InitReview, TypeOKReview
<1>2. AdmittedAreQualified BY DEF InitRoles, AdmittedAreQualified, Admitted, NoRoleCall
<1>3. SubmissionState BY DEF InitReview, SubmissionState, NoReview
<1>4. DecisionsAreAccountable BY DEF InitReview, DecisionsAreAccountable
<1> QED BY <1>1, <1>2, <1>3, <1>4, RolesInit DEF ReviewInv

(* Who is qualified stays so, and so does what the trail says of decisions. *)
LEMMA QualifiedAtOnce ==
  ASSUME audit' = audit, NEW p
  PROVE  Qualified(p)' <=> Qualified(p)
BY DEF Qualified, BootstrappedAs, Given

LEMMA StillQualified ==
  ASSUME TypeOKRoles, NEW e \in AuditEvents, audit' = Append(audit, e), NEW p, Qualified(p)
  PROVE  Qualified(p)'
BY EventAdded DEF Qualified, BootstrappedAs, Given

LEMMA AccountableStay ==
  ASSUME DecisionsAreAccountable, decisions' = decisions,
         \A p : Qualified(p) => Qualified(p)'
  PROVE  DecisionsAreAccountable'
<1>1. \A i \in DOMAIN decisions : Qualified(decisions[i].reviewer)
  BY DEF DecisionsAreAccountable, Qualified
<1>2. \A i \in DOMAIN decisions : Qualified(decisions[i].reviewer)' BY <1>1
<1> QED BY <1>2 DEF DecisionsAreAccountable, Qualified

(* A step in which the review of one call moves, its authority call stays  *)
(* or ends, and nothing is inserted.                                       *)
LEMMA StepOfAReview ==
  ASSUME ReviewInv, NEW c \in RoleCalls,
         UNCHANGED <<owner, role, audit, deployed, decisions>>,
         NEW v \in ReviewType \union {NoReview}, review' = [review EXCEPT ![c] = v],
         \/ roleCall' = roleCall
         \/ EndRoleCall(c) /\ v = NoReview,
         v.at \in {"existing", "append"} => Admitted(c, "PROJECT_REVIEW"),
         v.at = "append" => Acceptable(v.screen, v.decision, v.acknowledged)
  PROVE  ReviewInv'
<1>1. RolesInv'
  <2>1. CASE roleCall' = roleCall
    BY <2>1, RolesStep DEF ReviewInv, roleVars
  <2>2. CASE EndRoleCall(c) BY <2>2, EndOfACall DEF ReviewInv
  <2> QED BY <2>1, <2>2
<1>2. TypeOKReview' BY DEF ReviewInv, TypeOKReview
<1>3. \A d \in RoleCalls : roleCall'[d] = IF roleCall' = roleCall \/ d # c
                                            THEN roleCall[d] ELSE NoRoleCall
  BY DEF EndRoleCall, ReviewInv, RolesInv, TypeOKRoles
<1>4. AdmittedAreQualified'
  <2> SUFFICES ASSUME NEW d \in RoleCalls, Admitted(d, "PROJECT_REVIEW")'
               PROVE  Qualified(roleCall[d].actor)'
    BY DEF AdmittedAreQualified
  <2>1. roleCall'[d] = roleCall[d] BY <1>3 DEF Admitted, NoRoleCall
  <2>2. Qualified(roleCall[d].actor) BY <2>1 DEF ReviewInv, AdmittedAreQualified, Admitted
  <2> QED BY <2>1, <2>2 DEF Qualified, BootstrappedAs, Given
<1>5. SubmissionState'
  <2> SUFFICES ASSUME NEW d \in RoleCalls
               PROVE  (/\ review[d].at \in {"existing", "append"} => Admitted(d, "PROJECT_REVIEW")
                       /\ review[d].at = "append" =>
                            Acceptable(review[d].screen, review[d].decision,
                                       review[d].acknowledged))'
    BY DEF SubmissionState
  <2>1. CASE d = c
    <3>1. review'[d] = v BY <2>1 DEF ReviewInv, TypeOKReview
    <3>2. v.at \in {"existing", "append"} => roleCall' = roleCall BY DEF NoReview
    <3> QED BY <2>1, <3>1, <3>2 DEF Admitted, Acceptable
  <2>2. CASE d # c
    <3>1. review'[d] = review[d] BY <2>2 DEF ReviewInv, TypeOKReview
    <3>2. roleCall'[d] = roleCall[d] BY <1>3, <2>2
    <3> QED BY <3>1, <3>2 DEF ReviewInv, SubmissionState, Admitted, Acceptable
  <2> QED BY <2>1, <2>2
<1>6. DecisionsAreAccountable'
  BY AccountableStay, QualifiedAtOnce DEF ReviewInv
<1> QED BY <1>1, <1>2, <1>4, <1>5, <1>6 DEF ReviewInv

LEMMA EndKeepsReviews ==
  ASSUME ReviewInv, NEW c \in RoleCalls, EndReview(c),
         UNCHANGED <<owner, role, audit, deployed, decisions>>
  PROVE  ReviewInv'
BY StepOfAReview DEF EndReview, NoReview

LEMMA AuthorisedKeepsReviews ==
  ASSUME ReviewInv, NEW c \in RoleCalls, Authorised(c)
  PROVE  ReviewInv'
<1> DEFINE v == [review[c] EXCEPT !.at = "existing"]
<1>1. review[c] \in ReviewType
  <2>1. NoReview.at = "none" BY DEF NoReview
  <2> QED BY <2>1 DEF Authorised, ReviewInv, TypeOKReview
<1>2. v \in ReviewType /\ v.at = "existing" BY <1>1 DEF ReviewType
<1>3. CASE Admitted(c, "PROJECT_REVIEW") /\ review' = [review EXCEPT ![c].at = "existing"]
  <2>1. review' = [review EXCEPT ![c] = v] /\ UNCHANGED <<roleVars, deployed, decisions>>
    BY <1>3 DEF Authorised, ReviewInv, TypeOKReview
  <2> HIDE DEF v
  <2> QED BY <1>2, <1>3, <2>1, StepOfAReview DEF roleVars
<1>4. CASE review' = [review EXCEPT ![c] = NoReview]
  BY <1>4, StepOfAReview DEF Authorised, NoReview, roleVars
<1> QED BY <1>3, <1>4 DEF Authorised

LEMMA FindKeepsReviews ==
  ASSUME ReviewInv, NEW c \in RoleCalls, FindExisting(c)
  PROVE  ReviewInv'
<1> DEFINE v == [review[c] EXCEPT !.at = "append"]
<1>1. review[c] \in ReviewType /\ Admitted(c, "PROJECT_REVIEW")
  <2>1. NoReview.at = "none" BY DEF NoReview
  <2> QED BY <2>1 DEF FindExisting, ReviewInv, TypeOKReview, SubmissionState
<1>2. /\ v \in ReviewType /\ v.at = "append" /\ v.screen = review[c].screen
      /\ v.decision = review[c].decision /\ v.acknowledged = review[c].acknowledged
  BY <1>1 DEF ReviewType
<1>3. CASE EndReview(c) BY <1>3, EndKeepsReviews DEF FindExisting
<1>4. CASE /\ ~EndReview(c)
  <2>1. /\ review' = [review EXCEPT ![c] = v]
        /\ UNCHANGED <<owner, role, audit, deployed, decisions>> /\ roleCall' = roleCall
        /\ Acceptable(v.screen, v.decision, v.acknowledged)
    BY <1>2, <1>4 DEF FindExisting, ReviewInv, TypeOKReview
  <2> HIDE DEF v
  <2> QED BY <1>1, <1>2, <2>1, StepOfAReview
<1> QED BY <1>3, <1>4

LEMMA AppendKeepsReviews ==
  ASSUME ReviewInv, NEW c \in RoleCalls, AppendDecision(c)
  PROVE  ReviewInv'
<1>1. review[c] \in ReviewType /\ Admitted(c, "PROJECT_REVIEW")
  <2>1. NoReview.at = "none" BY DEF NoReview
  <2> QED BY <2>1 DEF AppendDecision, ReviewInv, TypeOKReview, SubmissionState
<1>2. CASE ~Insertable(review[c].screen)
  BY <1>2, EndKeepsReviews DEF AppendDecision
<1>3. CASE Insertable(review[c].screen)
  <2> DEFINE e == [candidate |-> review[c].screen, decision |-> review[c].decision,
                   reviewer |-> roleCall[c].actor, acknowledged |-> review[c].acknowledged]
             n == Len(decisions) + 1
  <2>1. roleCall[c] \in RoleCallType
    <3>1. NoRoleCall.at = "idle" BY DEF NoRoleCall
    <3> QED BY <1>1, <3>1 DEF Admitted, ReviewInv, RolesInv, TypeOKRoles
  <2>2. /\ e \in DecisionRows /\ e.candidate = review[c].screen
        /\ e.decision = review[c].decision /\ e.reviewer = roleCall[c].actor
        /\ e.acknowledged = review[c].acknowledged
    BY <1>1, <2>1 DEF ReviewType, RoleCallType, DecisionRows
  <2>3. decisions' = Append(decisions, e) /\ EndReview(c) /\ UNCHANGED <<owner, role, audit, deployed>>
    BY <1>3 DEF AppendDecision
  <2> HIDE DEF e
  <2>4. /\ decisions' \in Seq(DecisionRows) /\ n \in Nat /\ DOMAIN decisions = 1..(n - 1)
        /\ DOMAIN decisions' = 1..n /\ decisions'[n] = e
        /\ \A i \in DOMAIN decisions : decisions'[i] = decisions[i]
    BY <2>2, <2>3 DEF ReviewInv, TypeOKReview
  <2>5. \A i \in DOMAIN decisions : decisions[i].candidate # e.candidate
    BY <1>3, <2>2 DEF Insertable, DecidedOn
  <2>6. e.decision = "approve" => /\ e.acknowledged = FindingsOf[e.candidate]
                                  /\ e.acknowledged \intersect BlockingSevere = {}
    <3>1. Acceptable(e.candidate, e.decision, e.acknowledged)
      BY <2>2 DEF AppendDecision, ReviewInv, SubmissionState
    <3>2. e.acknowledged \subseteq FindingsOf[e.candidate] BY <3>1 DEF Acceptable
    <3> QED BY <3>1, <3>2 DEF Acceptable
  <2>7. Qualified(e.reviewer) BY <1>1, <2>2 DEF ReviewInv, AdmittedAreQualified
  <2>8. \A i \in DOMAIN decisions' : i = n \/ i \in DOMAIN decisions BY <2>4
  <2>9. DecisionsAreAccountable'
    <3>1. (\A i, j \in DOMAIN decisions :
             decisions[i].candidate = decisions[j].candidate => i = j)'
      BY <2>4, <2>5, <2>8 DEF ReviewInv, DecisionsAreAccountable
    <3>2. ASSUME NEW i \in DOMAIN decisions'
          PROVE  /\ decisions'[i].decision = "approve" =>
                      /\ decisions'[i].acknowledged = FindingsOf[decisions'[i].candidate]
                      /\ decisions'[i].acknowledged \intersect BlockingSevere = {}
                 /\ Qualified(decisions'[i].reviewer)
      <4>1. CASE i = n BY <2>4, <2>6, <2>7, <4>1
      <4>2. CASE i \in DOMAIN decisions
        BY <2>4, <4>2 DEF ReviewInv, DecisionsAreAccountable, Qualified
      <4> QED BY <2>8, <4>1, <4>2
    <3>3. audit' = audit BY <2>3
    <3> QED BY <3>1, <3>2, <3>3 DEF DecisionsAreAccountable, Qualified, BootstrappedAs, Given
  <2>10. RolesInv' BY <2>3, EndOfACall DEF EndReview, ReviewInv
  <2>11. TypeOKReview' BY <2>3, <2>4 DEF EndReview, ReviewInv, TypeOKReview
  <2>12. \A d \in RoleCalls :
           /\ roleCall'[d] = IF d = c THEN NoRoleCall ELSE roleCall[d]
           /\ review'[d] = IF d = c THEN NoReview ELSE review[d]
    BY <2>3 DEF EndReview, EndRoleCall, ReviewInv, RolesInv, TypeOKRoles, TypeOKReview
  <2>13. AdmittedAreQualified'
    <3> SUFFICES ASSUME NEW d \in RoleCalls, Admitted(d, "PROJECT_REVIEW")'
                 PROVE  Qualified(roleCall[d].actor)'
      BY DEF AdmittedAreQualified
    <3>1. roleCall'[d] = roleCall[d] BY <2>12 DEF Admitted, NoRoleCall
    <3>2. Qualified(roleCall[d].actor) BY <3>1 DEF ReviewInv, AdmittedAreQualified, Admitted
    <3>3. audit' = audit BY <2>3
    <3> QED BY <3>1, <3>2, <3>3 DEF Qualified, BootstrappedAs, Given
  <2>14. SubmissionState'
    BY <2>12 DEF ReviewInv, SubmissionState, Admitted, Acceptable, NoReview
  <2> QED BY <2>9, <2>10, <2>11, <2>13, <2>14 DEF ReviewInv
<1> QED BY <1>2, <1>3

LEMMA SubmitKeepsReviews ==
  ASSUME ReviewInv, NEW c \in RoleCalls, NEW p \in Principals, SubmitReview(c, p)
  PROVE  ReviewInv'
<1> DEFINE submitted(screen, d, acks) ==
             [at |-> "authority", screen |-> screen, decision |-> d, acknowledged |-> acks]
<1>0. PICK screen \in 1..deployed :
        \E d \in DecisionKinds, acks \in SUBSET FindingsOf[screen] :
          review' = [review EXCEPT ![c] = submitted(screen, d, acks)]
  BY DEF SubmitReview
<1>1. PICK d \in DecisionKinds, acks \in SUBSET FindingsOf[screen] :
        review' = [review EXCEPT ![c] = submitted(screen, d, acks)]
  BY <1>0
<1>2. screen \in Candidates /\ acks \subseteq Findings
  <2>1. deployed \in Candidates BY DEF ReviewInv, TypeOKReview
  <2>2. screen \in Candidates BY <2>1, ReviewAssumption
  <2>3. FindingsOf[screen] \subseteq Findings BY <2>2, ReviewAssumption
  <2> QED BY <2>2, <2>3
<1>3. BeginGuarded(c, "PROJECT_REVIEW", p, p, "VIEWER") /\ UNCHANGED <<deployed, decisions>>
  BY DEF SubmitReview
<1>4. RolesInv' BY <1>3, BeginKeepsRoles DEF ReviewInv, AuthorityActions, Roles
<1>5. [at |-> "authority", screen |-> screen, decision |-> d, acknowledged |-> acks] \in ReviewType
  BY <1>2 DEF ReviewType
<1>6. TypeOKReview' BY <1>1, <1>3, <1>5 DEF ReviewInv, TypeOKReview
<1>7. /\ \A b \in RoleCalls \ {c} : roleCall'[b] = roleCall[b] /\ review'[b] = review[b]
      /\ roleCall'[c].at = "owner?" /\ review'[c].at = "authority" /\ audit' = audit
  BY <1>1, <1>3 DEF BeginGuarded, RoleCall, ReviewInv, RolesInv, TypeOKRoles, TypeOKReview
<1>8. AdmittedAreQualified'
  <2> SUFFICES ASSUME NEW b \in RoleCalls, Admitted(b, "PROJECT_REVIEW")'
               PROVE  Qualified(roleCall[b].actor)'
    BY DEF AdmittedAreQualified
  <2>1. roleCall'[b] = roleCall[b] BY <1>7 DEF Admitted
  <2>2. Qualified(roleCall[b].actor) BY <2>1 DEF ReviewInv, AdmittedAreQualified, Admitted
  <2> QED BY <1>7, <2>1, <2>2 DEF Qualified, BootstrappedAs, Given
<1>9. SubmissionState' BY <1>7 DEF ReviewInv, SubmissionState, Admitted, Acceptable
<1>10. DecisionsAreAccountable'
  BY <1>3, <1>7, AccountableStay, QualifiedAtOnce DEF ReviewInv
<1> QED BY <1>4, <1>6, <1>8, <1>9, <1>10 DEF ReviewInv

(* A step of the roles that ends or admits no submission past the          *)
(* authority.                                                              *)
LEMMA RolesKeepReviews ==
  ASSUME ReviewInv, RolesInv', UNCHANGED reviewVars,
         \A p : Qualified(p) => Qualified(p)',
         NEW c \in RoleCalls, NEW k, roleCall' = [roleCall EXCEPT ![c] = k],
         ~(review[c].at \in {"existing", "append"}),
         k.at = "admitted" /\ k.action = "PROJECT_REVIEW" => Qualified(k.actor)
  PROVE  ReviewInv'
<1>1. TypeOKReview' BY DEF ReviewInv, TypeOKReview, reviewVars
<1>2. \A d \in RoleCalls : roleCall'[d] = IF d = c THEN k ELSE roleCall[d]
  BY DEF ReviewInv, RolesInv, TypeOKRoles
<1>3. AdmittedAreQualified'
  <2> SUFFICES ASSUME NEW d \in RoleCalls, Admitted(d, "PROJECT_REVIEW")'
               PROVE  Qualified(roleCall[d].actor)'
    BY DEF AdmittedAreQualified
  <2>1. PICK q : q = roleCall'[d].actor OBVIOUS
  <2>2. Qualified(q) BY <1>2, <2>1 DEF ReviewInv, AdmittedAreQualified, Admitted
  <2>3. Qualified(q)' BY <2>2
  <2> QED BY <2>1, <2>3 DEF Qualified, BootstrappedAs, Given
<1>4. SubmissionState'
  BY <1>2 DEF ReviewInv, SubmissionState, Admitted, Acceptable, reviewVars
<1>5. DecisionsAreAccountable' BY AccountableStay DEF ReviewInv, reviewVars
<1> QED BY <1>1, <1>3, <1>4, <1>5 DEF ReviewInv

(* Of a call that is no submission.                                        *)
LEMMA OtherCallsKeepReviews ==
  ASSUME ReviewInv, RolesInv', UNCHANGED reviewVars,
         \A p : Qualified(p) => Qualified(p)',
         NEW c \in RoleCalls, NEW k, roleCall' = [roleCall EXCEPT ![c] = k],
         review[c] = NoReview, k.at # "admitted"
  PROVE  ReviewInv'
<1>1. ~(review[c].at \in {"existing", "append"}) BY DEF NoReview
<1> QED BY <1>1, RolesKeepReviews

LEMMA ReadOwnerKeepsReviews ==
  ASSUME ReviewInv, NEW c \in RoleCalls, ReadOwner(c), UNCHANGED reviewVars
  PROVE  ReviewInv'
<1> DEFINE k == [roleCall[c] EXCEPT !.at =
                   IF owner = roleCall[c].actor THEN "admitted" ELSE "role?"]
<1>1. RolesInv' BY ReadOwnerKeepsRoles DEF ReviewInv
<1>2. roleCall[c] \in RoleCallType
  BY DEF ReadOwner, ReviewInv, RolesInv, TypeOKRoles, NoRoleCall
<1>3. k \in RoleCallType /\ k.actor = roleCall[c].actor /\ k.actor \in Principals
        /\ k.at = IF owner = k.actor THEN "admitted" ELSE "role?"
  BY <1>2 DEF RoleCallType
<1>4. owner = k.actor => Qualified(k.actor)
  BY <1>3, RolesAssumption DEF ReviewInv, RolesInv, AuditReplays, Qualified
<1>5. roleCall' = [roleCall EXCEPT ![c] = k] /\ audit' = audit
  BY DEF ReadOwner, ReviewInv, RolesInv, TypeOKRoles
<1>6. ~(review[c].at \in {"existing", "append"})
  BY DEF ReadOwner, ReviewInv, SubmissionState, Admitted
<1> HIDE DEF k
<1> QED BY <1>1, <1>3, <1>4, <1>5, <1>6, QualifiedAtOnce, RolesKeepReviews

LEMMA ReadRoleKeepsReviews ==
  ASSUME ReviewInv, NEW c \in RoleCalls, ReadRole(c), UNCHANGED reviewVars
  PROVE  ReviewInv'
<1> DEFINE k == [roleCall[c] EXCEPT !.at = "admitted"]
<1>1. RolesInv' BY ReadRoleKeepsRoles DEF ReviewInv
<1>2. roleCall[c] \in RoleCallType
  BY DEF ReadRole, ReviewInv, RolesInv, TypeOKRoles, NoRoleCall
<1>3. k \in RoleCallType /\ k.actor = roleCall[c].actor /\ k.actor \in Principals
        /\ k.action = roleCall[c].action
  BY <1>2 DEF RoleCallType
<1>4. ASSUME "PROJECT_REVIEW" \in RoleActions(role[k.actor]) PROVE Qualified(k.actor)
  <2>1. role[k.actor] \in {"OWNER", "REVIEWER"}
    BY <1>3, <1>4 DEF ReviewInv, RolesInv, TypeOKRoles, RoleActions, Roles
  <2>2. PICK i \in DOMAIN audit : Given(i, k.actor, {role[k.actor]})
    BY <1>3, <2>1 DEF ReviewInv, RolesInv, AuditReplays
  <2>3. Given(i, k.actor, {"OWNER", "REVIEWER"}) BY <2>1, <2>2 DEF Given
  <2> QED BY <2>3 DEF Qualified
<1>5. audit' = audit BY DEF ReadRole
<1>6. ~(review[c].at \in {"existing", "append"})
  BY DEF ReadRole, ReviewInv, SubmissionState, Admitted
<1>7. CASE k.action \in RoleActions(role[k.actor])
  <2>1. roleCall' = [roleCall EXCEPT ![c] = k]
    BY <1>3, <1>7 DEF ReadRole, ReviewInv, RolesInv, TypeOKRoles
  <2> HIDE DEF k
  <2> QED BY <1>1, <1>4, <1>5, <1>6, <1>7, <2>1, QualifiedAtOnce, RolesKeepReviews
<1>8. CASE ~(k.action \in RoleActions(role[k.actor]))
  <2>1. roleCall' = [roleCall EXCEPT ![c] = NoRoleCall]
    BY <1>3, <1>8 DEF ReadRole, EndRoleCall
  <2> QED BY <1>1, <1>5, <1>6, <2>1, QualifiedAtOnce, RolesKeepReviews DEF NoRoleCall
<1> QED BY <1>7, <1>8

(* Grants and bootstraps by calls that are not submissions.                *)
LEMMA GrantKeepsReviews ==
  ASSUME ReviewInv, NEW c \in RoleCalls, SetProjectRole(c), review[c] = NoReview,
         UNCHANGED reviewVars
  PROVE  ReviewInv'
<1> DEFINE k == roleCall[c]
           e == [what |-> "role", actor |-> k.actor, to |-> k.to, give |-> k.give]
<1>1. RolesInv' BY GrantKeepsRoles DEF ReviewInv
<1>2. k \in RoleCallType
  BY DEF SetProjectRole, Admitted, ReviewInv, RolesInv, TypeOKRoles, NoRoleCall
<1>3. e \in AuditEvents BY <1>2 DEF RoleCallType, AuditEvents
<1>4. audit' = Append(audit, e)
  BY <1>3 DEF SetProjectRole, Audited, ReviewInv, RolesInv, TypeOKRoles
<1>5. \A p : Qualified(p) => Qualified(p)'
  BY <1>3, <1>4, StillQualified DEF ReviewInv, RolesInv
<1>6. roleCall' = [roleCall EXCEPT ![c] = NoRoleCall] BY DEF SetProjectRole, EndRoleCall
<1>7. NoRoleCall.at # "admitted" BY DEF NoRoleCall
<1> QED BY <1>1, <1>5, <1>6, <1>7, OtherCallsKeepReviews

LEMMA BootstrapKeepsReviews ==
  ASSUME ReviewInv, NEW c \in RoleCalls, BootstrapBy(c), review[c] = NoReview,
         UNCHANGED reviewVars
  PROVE  ReviewInv'
<1>1. RolesInv' BY BootstrapKeepsRoles DEF ReviewInv
<1>2. CASE BeginBootstrap(c)
  <2>1. PICK p \in Principals : roleCall' = [roleCall EXCEPT ![c] =
                      RoleCall("bootstrap read", "ROLE_MANAGE", p, p, "OWNER")]
    BY <1>2 DEF BeginBootstrap
  <2>2. audit' = audit BY <1>2 DEF BeginBootstrap
  <2>3. RoleCall("bootstrap read", "ROLE_MANAGE", p, p, "OWNER").at # "admitted"
    BY DEF RoleCall
  <2> QED BY <1>1, <2>1, <2>2, <2>3, QualifiedAtOnce, OtherCallsKeepReviews
<1>3. CASE ReadBootstrap(c)
  <2> DEFINE k == [roleCall[c] EXCEPT !.at = "bootstrap write"]
  <2>0. roleCall[c].at = "bootstrap read" BY <1>3 DEF ReadBootstrap
  <2>1. roleCall[c] \in RoleCallType
    <3>1. roleCall[c] \in RoleCallType \union {NoRoleCall}
      BY DEF ReviewInv, RolesInv, TypeOKRoles
    <3>2. NoRoleCall.at = "idle" BY DEF NoRoleCall
    <3> QED BY <2>0, <3>1, <3>2
  <2>2. k.at = "bootstrap write" /\ NoRoleCall.at = "idle" BY <2>1 DEF RoleCallType, NoRoleCall
  <2>3. roleCall' = [roleCall EXCEPT ![c] = k] \/ roleCall' = [roleCall EXCEPT ![c] = NoRoleCall]
    BY <1>3 DEF ReadBootstrap, EndRoleCall
  <2>4. audit' = audit BY <1>3 DEF ReadBootstrap
  <2> HIDE DEF k
  <2> QED BY <1>1, <2>2, <2>3, <2>4, QualifiedAtOnce, OtherCallsKeepReviews
<1>4. CASE WriteBootstrap(c)
  <2> DEFINE e == [what |-> "bootstrap", actor |-> roleCall[c].actor]
  <2>0. roleCall[c].at = "bootstrap write" BY <1>4 DEF WriteBootstrap
  <2>1. roleCall[c].actor \in Principals
    <3>1. roleCall[c] \in RoleCallType \union {NoRoleCall}
      BY DEF ReviewInv, RolesInv, TypeOKRoles
    <3>2. NoRoleCall.at = "idle" BY DEF NoRoleCall
    <3>3. roleCall[c] \in RoleCallType BY <2>0, <3>1, <3>2
    <3> QED BY <3>3 DEF RoleCallType
  <2>2. e \in AuditEvents BY <2>1 DEF AuditEvents
  <2>3. audit' = Append(audit, e) \/ audit' = audit BY <1>4 DEF WriteBootstrap
  <2>4. roleCall' = [roleCall EXCEPT ![c] = NoRoleCall] BY <1>4 DEF WriteBootstrap, EndRoleCall
  <2>5. \A p : Qualified(p) => Qualified(p)'
    BY <2>2, <2>3, StillQualified, QualifiedAtOnce DEF ReviewInv, RolesInv
  <2>6. NoRoleCall.at # "admitted" BY DEF NoRoleCall
  <2> QED BY <1>1, <2>4, <2>5, <2>6, OtherCallsKeepReviews
<1> QED BY <1>2, <1>3, <1>4 DEF BootstrapBy

LEMMA BeginKeepsReviews ==
  ASSUME ReviewInv, NEW c \in RoleCalls, NEW p \in Principals, NEW to \in Principals,
         NEW give \in Roles, BeginGrant(c, p, to, give), review[c] = NoReview,
         UNCHANGED reviewVars
  PROVE  ReviewInv'
<1>1. RolesInv' BY BeginKeepsRoles DEF BeginGrant, AuthorityActions, ReviewInv
<1>2. /\ roleCall' = [roleCall EXCEPT ![c] = RoleCall("owner?", "ROLE_MANAGE", p, to, give)]
      /\ audit' = audit
  BY DEF BeginGrant, BeginGuarded
<1>3. RoleCall("owner?", "ROLE_MANAGE", p, to, give).at # "admitted" BY DEF RoleCall
<1> QED BY <1>1, <1>2, <1>3, QualifiedAtOnce, OtherCallsKeepReviews

LEMMA DropKeepsReviews ==
  ASSUME ReviewInv, NEW c \in RoleCalls, DropRoleCall(c), review[c] = NoReview,
         UNCHANGED reviewVars
  PROVE  ReviewInv'
<1>1. RolesInv' BY EndOfACall DEF DropRoleCall, ReviewInv
<1>2. roleCall' = [roleCall EXCEPT ![c] = NoRoleCall] /\ audit' = audit
  BY DEF DropRoleCall, EndRoleCall
<1>3. NoRoleCall.at # "admitted" BY DEF NoRoleCall
<1> QED BY <1>1, <1>2, <1>3, QualifiedAtOnce, OtherCallsKeepReviews

LEMMA DeployKeepsReviews == ASSUME ReviewInv, Deploy PROVE ReviewInv'
<1>1. RolesInv' BY RolesStep DEF Deploy, ReviewInv
<1>2. TypeOKReview' BY DEF Deploy, ReviewInv, TypeOKReview
<1>3. AdmittedAreQualified' /\ SubmissionState'
  BY DEF Deploy, roleVars, ReviewInv, AdmittedAreQualified, SubmissionState, Admitted,
         Acceptable, Qualified, BootstrappedAs, Given
<1>4. DecisionsAreAccountable'
  BY AccountableStay, QualifiedAtOnce DEF Deploy, roleVars, ReviewInv
<1> QED BY <1>1, <1>2, <1>3, <1>4 DEF ReviewInv

(* The inductive invariant: a submission that goes on was admitted, by an  *)
(* event of the trail, and one that inserts was validated.                 *)
THEOREM ReviewInvariant == SpecReview => []ReviewInv
<1>1. ReviewInv /\ [NextReview]_<<roleVars, reviewVars>> => ReviewInv'
  <2> SUFFICES ASSUME ReviewInv, [NextReview]_<<roleVars, reviewVars>> PROVE ReviewInv'
    OBVIOUS
  <2>1. ASSUME NEW c \in RoleCalls, NEW p \in Principals, SubmitReview(c, p)
        PROVE  ReviewInv'
    BY <2>1, SubmitKeepsReviews
  <2>2. ASSUME NEW c \in RoleCalls, Recording(c) PROVE ReviewInv'
    BY <2>2, AuthorisedKeepsReviews, FindKeepsReviews, AppendKeepsReviews, EndKeepsReviews
       DEF Recording, DropReview
  <2>3. ASSUME NEW c \in RoleCalls, UNCHANGED reviewVars, ReadOwner(c) \/ ReadRole(c)
        PROVE  ReviewInv'
    BY <2>3, ReadOwnerKeepsReviews, ReadRoleKeepsReviews
  <2>4. ASSUME NEW c \in RoleCalls, UNCHANGED reviewVars, review[c] = NoReview,
               BootstrapBy(c) \/ SetProjectRole(c) \/ DropRoleCall(c)
        PROVE  ReviewInv'
    BY <2>4, BootstrapKeepsReviews, GrantKeepsReviews, DropKeepsReviews
  <2>5. ASSUME NEW c \in RoleCalls, UNCHANGED reviewVars, review[c] = NoReview,
               NEW p \in Principals, NEW to \in Principals, NEW give \in Roles,
               BeginGrant(c, p, to, give)
        PROVE  ReviewInv'
    BY <2>5, BeginKeepsReviews
  <2>6. CASE UNCHANGED <<roleVars, reviewVars>>
    <3>1. RolesInv' BY <2>6, RolesStep DEF ReviewInv
    <3> QED BY <2>6, <3>1, AccountableStay, QualifiedAtOnce
        DEF roleVars, reviewVars, ReviewInv, TypeOKReview, AdmittedAreQualified, SubmissionState,
            Admitted, Acceptable, Qualified, BootstrappedAs, Given
  <2> QED BY <2>1, <2>2, <2>3, <2>4, <2>5, <2>6, DeployKeepsReviews DEF NextReview, Reviewing
<1> QED BY <1>1, ReviewInit, PTL DEF SpecReview

(* However many people submit at once, a candidate has one decision, by    *)
(* somebody who had been made owner or reviewer before, and no sign-off    *)
(* passes over a finding that blocks it.                                   *)
THEOREM DecisionsAccountable == SpecReview => []DecisionsAreAccountable
<1>1. ReviewInv => DecisionsAreAccountable BY DEF ReviewInv
<1> QED BY ReviewInvariant, <1>1, PTL

-----------------------------------------------------------------------------
(* The governance records.  A call looks at a row and at what it links to, *)
(* and writes later; GovCallState says what of this still holds by then:   *)
(* versions only grow and targets are never removed.                       *)

OnDecision(k) == k.at \in {"superseded", "current decision", "write decision"}

(* A call that is about to write a decision whose row is still where it    *)
(* read it knows that the row allows what it writes.  Of a row that has    *)
(* moved on, to the version the call names or another, it knows nothing.   *)
KnowsDecision(k) ==
  /\ k.read <= decision[k.on].version
  /\ k.at = "superseded" => k.read = 0
  /\ k.at = "write decision" /\ decision[k.on].version > 0
       /\ decision[k.on].version = k.read
       => ContentAllowed(decision[k.on].value, k.value)

KnowsLinks(k) ==
  /\ k.at = "work links" => k.value.links \intersect ReleaseTargets \subseteq targets
  /\ k.at = "write note" => k.value.links \subseteq targets

GovCallState ==
  \A c \in GovCalls : /\ OnDecision(govCall[c]) => KnowsDecision(govCall[c])
                      /\ KnowsLinks(govCall[c])

GovernanceInv == TypeOKGovernance /\ GovernanceLinksExist /\ GovCallState

ContentKept ==
  \A d \in Decisions : IsAccepted(d) =>
    \/ SameContent(d)
    \/ \E c \in GovCalls : WritesAhead(c, d) /\ govCall'[c] = NoGovCall

LEMMA VersionsAreNumbers ==
  ASSUME TypeOKGovernance, NEW d \in Decisions
  PROVE  /\ decision[d].version \in 0..MaxGovVersion
         /\ decision[d].version = 0 \/ decision[d].value \in DecisionValues
BY GovernanceAssumption DEF TypeOKGovernance, NoDecision

LEMMA CallKinds ==
  ASSUME NEW k \in DecisionCalls \union NoteCalls \union {NoGovCall}
  PROVE  /\ OnDecision(k) => k \in DecisionCalls
         /\ k.at \in {"current lesson", "release link", "work links", "write note"}
              => k \in NoteCalls
<1>1. k \in DecisionCalls => OnDecision(k)
        /\ k.at \notin {"current lesson", "release link", "work links", "write note"}
  BY DEF OnDecision, DecisionCalls
<1>2. k \in NoteCalls => ~OnDecision(k) BY DEF OnDecision, NoteCalls
<1>3. k = NoGovCall => ~OnDecision(k)
        /\ k.at \notin {"current lesson", "release link", "work links", "write note"}
  BY DEF OnDecision, NoGovCall
<1> QED BY <1>1, <1>2, <1>3

LEMMA DecisionCallFields ==
  ASSUME NEW k \in DecisionCalls
  PROVE  /\ k.on \in Decisions /\ k.value \in DecisionValues /\ k.read \in Nat
         /\ k.expected \in Nat /\ k.expected + 1 \in 1..MaxGovVersion
<1>1. k.expected \in 0..(MaxGovVersion - 1) BY DEF DecisionCalls
<1>2. k.expected \in Nat /\ k.expected + 1 \in 1..MaxGovVersion
  BY <1>1, GovernanceAssumption
<1>3. k.read \in 0..MaxGovVersion BY DEF DecisionCalls
<1>4. k.read \in Nat BY <1>3, GovernanceAssumption
<1> QED BY <1>2, <1>4 DEF DecisionCalls

LEMMA NoteCallFields ==
  ASSUME NEW k \in NoteCalls
  PROVE  /\ k.on \in Notes /\ k.value \in NoteValues
         /\ k.expected \in Nat /\ k.expected + 1 \in 1..MaxGovVersion
<1>1. k.expected \in 0..(MaxGovVersion - 1) BY DEF NoteCalls
<1>2. k.expected \in Nat /\ k.expected + 1 \in 1..MaxGovVersion
  BY <1>1, GovernanceAssumption
<1> QED BY <1>2 DEF NoteCalls

LEMMA NextDecisionStep ==
  ASSUME NEW k \in DecisionCalls,
         NEW s \in {"superseded", "current decision", "write decision"}
  PROVE  LET l == [k EXCEPT !.at = s]
         IN  /\ l \in DecisionCalls /\ l.read = k.read
             /\ l.at = s /\ l.on = k.on /\ l.expected = k.expected /\ l.value = k.value
BY DEF DecisionCalls

LEMMA NextNoteStep ==
  ASSUME NEW k \in NoteCalls,
         NEW s \in {"current lesson", "release link", "work links", "write note"}
  PROVE  LET l == [k EXCEPT !.at = s]
         IN  l \in NoteCalls /\ l.at = s /\ l.value = k.value
BY DEF NoteCalls

LEMMA GovernanceInit == InitGovernance => GovernanceInv
<1> SUFFICES ASSUME InitGovernance PROVE GovernanceInv
  OBVIOUS
<1>1. TypeOKGovernance
  <2>1. NoNote \in [version : 0..MaxGovVersion, value : NoteValues]
    BY GovernanceAssumption DEF NoNote, NoteValues
  <2> QED BY <2>1 DEF InitGovernance, TypeOKGovernance
<1>2. GovernanceLinksExist BY DEF InitGovernance, GovernanceLinksExist, NoNote
<1>3. GovCallState BY DEF InitGovernance, GovCallState, NoGovCall, OnDecision, KnowsLinks
<1> QED BY <1>1, <1>2, <1>3 DEF GovernanceInv

(* A step of a call towards its write, or its end: rows and targets stay.  *)
LEMMA StepOfAGovCall ==
  ASSUME GovernanceInv, NEW c \in GovCalls, UNCHANGED <<decision, note, targets>>,
         NEW k \in DecisionCalls \union NoteCalls \union {NoGovCall},
         govCall' = [govCall EXCEPT ![c] = k],
         OnDecision(k) => KnowsDecision(k), KnowsLinks(k)
  PROVE  GovernanceInv'
<1>1. TypeOKGovernance' BY DEF GovernanceInv, TypeOKGovernance
<1>2. GovernanceLinksExist' BY DEF GovernanceInv, GovernanceLinksExist
<1>3. GovCallState'
  <2> SUFFICES ASSUME NEW d \in GovCalls
               PROVE  /\ OnDecision(govCall'[d]) => KnowsDecision(govCall[d])'
                      /\ KnowsLinks(govCall[d])'
    BY DEF GovCallState, OnDecision
  <2>1. govCall'[d] = IF d = c THEN k ELSE govCall[d]
    BY DEF GovernanceInv, TypeOKGovernance
  <2> QED BY <2>1 DEF GovernanceInv, GovCallState, OnDecision, KnowsDecision, KnowsLinks
<1> QED BY <1>1, <1>2, <1>3 DEF GovernanceInv

LEMMA StepKeepsGovernance ==
  ASSUME GovernanceInv, NextGovernance
  PROVE  GovernanceInv' /\ ContentKept
<1>1. ASSUME NEW t \in Targets, AddTarget(t) PROVE GovernanceInv' /\ ContentKept
  BY <1>1 DEF AddTarget, GovernanceInv, TypeOKGovernance, GovernanceLinksExist, GovCallState,
              OnDecision, KnowsDecision, KnowsLinks, ContentAllowed, ContentKept,
              SameContent
<1> SUFFICES ASSUME NEW c \in GovCalls, Deciding(c) \/ Noting(c) \/ DropGovCall(c)
             PROVE  GovernanceInv' /\ ContentKept
  BY <1>1 DEF NextGovernance
<1>2. ASSUME UNCHANGED decision PROVE ContentKept
  BY <1>2 DEF ContentKept, SameContent
<1>3. govCall[c] \in DecisionCalls \union NoteCalls \union {NoGovCall}
  BY DEF GovernanceInv, TypeOKGovernance
<1>4. CASE BeginDecision(c)
  <2>1. PICK d \in Decisions, v \in DecisionValues :
          \E expected \in 0..(MaxGovVersion - 1),
             z \in {"none"} \union Decisions : BeginDecision(c)!(d, v)!(expected, z)
    BY <1>4 DEF BeginDecision
  <2>2. PICK expected \in 0..(MaxGovVersion - 1),
             z \in {"none"} \union Decisions : BeginDecision(c)!(d, v)!(expected, z)
    BY <2>1
  <2> DEFINE k == [at |-> IF expected > 0 THEN "current decision"
                          ELSE IF z = "none" THEN "write decision" ELSE "superseded",
                   on |-> d, supersedes |-> z, expected |-> expected, value |-> v,
                   read |-> 0]
  <2>3. decision[d].version \in Nat /\ 0 \in 0..MaxGovVersion
    BY VersionsAreNumbers, GovernanceAssumption DEF GovernanceInv
  <2>4. k \in DecisionCalls BY <2>3 DEF DecisionCalls
  <2>5. KnowsDecision(k) /\ KnowsLinks(k) BY <2>3 DEF KnowsDecision, KnowsLinks
  <2>6. govCall' = [govCall EXCEPT ![c] = k] /\ UNCHANGED <<decision, note, targets>>
    BY <2>2
  <2> HIDE DEF k
  <2> QED BY <2>4, <2>5, <2>6, <1>2, StepOfAGovCall
<1>0. \/ DropGovCall(c)
      \/ /\ govCall' = [govCall EXCEPT ![c] = NoGovCall]
         /\ UNCHANGED <<decision, note, targets>>
      => GovernanceInv'
  BY StepOfAGovCall DEF DropGovCall, NoGovCall, OnDecision, KnowsLinks
<1>5. CASE FindSuperseded(c)
  <2> DEFINE k == [govCall[c] EXCEPT !.at = "write decision"]
  <2>1. OnDecision(govCall[c]) /\ govCall[c].at = "superseded"
    BY <1>5 DEF FindSuperseded, OnDecision
  <2>2. govCall[c] \in DecisionCalls /\ KnowsDecision(govCall[c])
    BY <1>3, <2>1, CallKinds DEF GovernanceInv, GovCallState
  <2>3. k \in DecisionCalls /\ k.at = "write decision" /\ k.on = govCall[c].on
          /\ k.read = govCall[c].read
    BY <2>2, NextDecisionStep
  <2>4. govCall[c].read = 0 BY <2>1, <2>2 DEF KnowsDecision
  <2> HIDE DEF k
  <2>5. KnowsDecision(k) /\ KnowsLinks(k)
    <3>1. k.read = 0 BY <2>3, <2>4
    <3>2. k.read <= decision[k.on].version BY <2>2, <2>3 DEF KnowsDecision
    <3>3. ~(decision[k.on].version > 0 /\ decision[k.on].version = k.read) BY <3>1
    <3>4. k.at = "write decision" BY <2>3
    <3> QED BY <3>1, <3>2, <3>3, <3>4 DEF KnowsDecision, KnowsLinks
  <2>6. /\ UNCHANGED <<decision, note, targets>>
        /\ \/ govCall' = [govCall EXCEPT ![c] = k]
           \/ govCall' = [govCall EXCEPT ![c] = NoGovCall]
    BY <1>5, <1>3 DEF FindSuperseded, GovStep, k, GovernanceInv, TypeOKGovernance
  <2> QED BY <2>3, <2>5, <2>6, <1>0, <1>2, StepOfAGovCall
<1>6. CASE ReadDecision(c)
  <2> DEFINE row == decision[govCall[c].on]
             k == [govCall[c] EXCEPT !.at = "write decision", !.read = row.version]
  <2>1. OnDecision(govCall[c]) BY <1>6 DEF ReadDecision, OnDecision
  <2>2. govCall[c] \in DecisionCalls /\ KnowsDecision(govCall[c])
    BY <1>3, <2>1, CallKinds DEF GovernanceInv, GovCallState
  <2>0. row.version \in 0..MaxGovVersion
    BY <2>2, DecisionCallFields, VersionsAreNumbers DEF GovernanceInv
  <2>3. k \in DecisionCalls /\ k.at = "write decision" /\ k.on = govCall[c].on
          /\ k.read = row.version /\ k.value = govCall[c].value
    BY <2>0, <2>2 DEF DecisionCalls
  <2> HIDE DEF k
  <2>4. ContentAllowed(decision[k.on].value, k.value) => KnowsDecision(k) /\ KnowsLinks(k)
    <3>0. \A m \in 0..MaxGovVersion : m <= m BY GovernanceAssumption
    <3>1. k.read <= decision[k.on].version BY <2>0, <2>3, <3>0
    <3> QED BY <2>2, <2>3, <3>1 DEF KnowsDecision, KnowsLinks
  <2>5. /\ UNCHANGED <<decision, note, targets>>
        /\ \/ /\ govCall' = [govCall EXCEPT ![c] = k]
              /\ ContentAllowed(decision[k.on].value, k.value)
           \/ govCall' = [govCall EXCEPT ![c] = NoGovCall]
    BY <1>6, <1>3, <2>3 DEF ReadDecision, GovStep, k, GovernanceInv, TypeOKGovernance
  <2> QED BY <2>3, <2>4, <2>5, <1>0, <1>2, StepOfAGovCall
<1>7. CASE WriteDecision(c)
  <2> DEFINE k == govCall[c]
  <2>1. k \in DecisionCalls /\ KnowsDecision(k) /\ k.at = "write decision"
    BY <1>3, <1>7, CallKinds DEF WriteDecision, GovernanceInv, GovCallState, OnDecision
  <2>2. CASE decision[k.on].version # k.expected
    <3>1. UNCHANGED <<decision, note, targets>> /\ govCall' = [govCall EXCEPT ![c] = NoGovCall]
      BY <1>7, <2>2 DEF WriteDecision
    <3> QED BY <3>1, <1>0, <1>2
  <2>3. CASE decision[k.on].version = k.expected
    <3> DEFINE row == [version |-> k.expected + 1, value |-> k.value]
    <3>1. /\ decision' = [decision EXCEPT ![k.on] = row]
          /\ govCall' = [govCall EXCEPT ![c] = NoGovCall]
          /\ UNCHANGED <<note, targets>>
      BY <1>7, <2>3 DEF WriteDecision, NextRow
    <3>2. /\ k.expected \in Nat /\ k.expected + 1 \in 1..MaxGovVersion
          /\ k.on \in Decisions /\ k.value \in DecisionValues
      BY <2>1, DecisionCallFields
    <3>3. TypeOKGovernance'
      <4>1. row \in [version : 1..MaxGovVersion, value : DecisionValues]
        BY <3>2, GovernanceAssumption
      <4> QED BY <3>1, <4>1 DEF GovernanceInv, TypeOKGovernance
    <3>4. GovernanceLinksExist' BY <3>1 DEF GovernanceInv, GovernanceLinksExist
    <3>5. GovCallState'
      <4> SUFFICES ASSUME NEW d \in GovCalls, d # c
                   PROVE  /\ OnDecision(govCall[d]) => KnowsDecision(govCall[d])'
                          /\ KnowsLinks(govCall[d])'
        BY <3>1 DEF GovCallState, GovernanceInv, TypeOKGovernance, NoGovCall, OnDecision, KnowsLinks
      <4>1. govCall'[d] = govCall[d] BY <3>1 DEF GovernanceInv, TypeOKGovernance
      <4>2. KnowsLinks(govCall[d])' BY <3>1, <4>1 DEF GovernanceInv, GovCallState, KnowsLinks
      <4>3. ASSUME OnDecision(govCall[d]) PROVE KnowsDecision(govCall[d])'
        <5>1. govCall[d] \in DecisionCalls /\ KnowsDecision(govCall[d])
          BY <4>3, CallKinds DEF GovernanceInv, TypeOKGovernance, GovCallState
        <5>2. govCall[d].on \in Decisions /\ govCall[d].read \in Nat
          BY <5>1, DecisionCallFields
        <5>3. CASE govCall[d].on # k.on
          <6>1. decision'[govCall[d].on] = decision[govCall[d].on]
            BY <3>1, <5>2, <5>3 DEF GovernanceInv, TypeOKGovernance
          <6> QED BY <4>1, <5>1, <6>1 DEF KnowsDecision
        <5>4. CASE govCall[d].on = k.on
          <6>1. decision'[govCall[d].on].version = k.expected + 1
            BY <3>1, <5>2, <5>4 DEF GovernanceInv, TypeOKGovernance
          <6>2. govCall[d].read <= k.expected BY <2>3, <5>1, <5>4 DEF KnowsDecision
          <6>3. govCall[d].read < decision'[govCall[d].on].version
            BY <3>2, <5>2, <6>1, <6>2
          <6>4. /\ govCall[d].read <= decision'[govCall[d].on].version
                /\ govCall[d].read # decision'[govCall[d].on].version
            BY <6>3, <6>1, <3>2, <5>2
          <6> QED BY <4>1, <5>1, <6>4 DEF KnowsDecision
        <5> QED BY <5>3, <5>4
      <4> QED BY <4>1, <4>2, <4>3 DEF OnDecision
    <3>6. ContentKept
      <4> SUFFICES ASSUME NEW d \in Decisions, IsAccepted(d),
                          ~\E e \in GovCalls : WritesAhead(e, d) /\ govCall'[e] = NoGovCall
                   PROVE  SameContent(d)
        BY DEF ContentKept
      <4>1. CASE d # k.on
        BY <3>1, <4>1 DEF GovernanceInv, TypeOKGovernance, SameContent
      <4>2. CASE d = k.on
        <5>1. decision'[d].value = k.value
          BY <3>1, <3>2, <4>2 DEF GovernanceInv, TypeOKGovernance
        <5>2. ~(k.read < k.expected)
          <6>1. govCall'[c] = NoGovCall BY <3>1 DEF GovernanceInv, TypeOKGovernance
          <6>2. k # NoGovCall
            <7>1. NoGovCall.at = "idle" BY DEF NoGovCall
            <7> QED BY <2>1, <7>1
          <6> QED BY <2>1, <4>2, <6>1, <6>2 DEF WritesAhead
        <5>3. k.read \in Nat /\ k.read <= k.expected
          BY <2>1, <2>3, DecisionCallFields DEF KnowsDecision
        <5>4. decision[k.on].version = k.read BY <2>3, <3>2, <5>2, <5>3
        <5>5. ContentAllowed(decision[d].value, k.value)
          BY <2>1, <5>4, <4>2 DEF KnowsDecision, IsAccepted
        <5> QED BY <5>1, <5>5 DEF ContentAllowed, IsAccepted, SameContent
      <4> QED BY <4>1, <4>2
    <3> QED BY <3>3, <3>4, <3>5, <3>6 DEF GovernanceInv
  <2> QED BY <2>2, <2>3
<1>8. CASE BeginNote(c)
  <2>1. PICK n \in Notes, v \in NoteValues : \E expected \in 0..(MaxGovVersion - 1) :
          BeginNote(c)!(n, v)!(expected)
    BY <1>8 DEF BeginNote
  <2>2. PICK expected \in 0..(MaxGovVersion - 1) : BeginNote(c)!(n, v)!(expected)
    BY <2>1
  <2> DEFINE k == [at |-> IF n \notin Lessons THEN "work links"
                          ELSE IF expected > 0 THEN "current lesson" ELSE "release link",
                   on |-> n, expected |-> expected, value |-> v]
  <2>4. k \in NoteCalls /\ ~OnDecision(k) BY DEF NoteCalls, OnDecision
  <2>5. KnowsLinks(k) BY <2>2 DEF KnowsLinks
  <2>6. govCall' = [govCall EXCEPT ![c] = k] /\ UNCHANGED <<decision, note, targets>>
    BY <2>2
  <2> HIDE DEF k
  <2> QED BY <2>4, <2>5, <2>6, <1>2, StepOfAGovCall
<1>9. CASE ReadLesson(c) \/ CheckRelease(c) \/ CheckWorkLinks(c)
  <2>1. govCall[c] \in NoteCalls /\ KnowsLinks(govCall[c])
    BY <1>3, <1>9, CallKinds DEF ReadLesson, CheckRelease, CheckWorkLinks, GovernanceInv, GovCallState
  <2> DEFINE k(s) == [govCall[c] EXCEPT !.at = s]
  <2>2. \A s \in {"release link", "work links", "write note"} :
          k(s) \in NoteCalls /\ k(s).at = s /\ k(s).value = govCall[c].value
    <3> TAKE s \in {"release link", "work links", "write note"}
    <3>1. s \in {"current lesson", "release link", "work links", "write note"} OBVIOUS
    <3>2. LET l == [govCall[c] EXCEPT !.at = s]
          IN  l \in NoteCalls /\ l.at = s /\ l.value = govCall[c].value
      BY <2>1, <3>1, NextNoteStep
    <3> QED BY <3>2
  <2>3. PICK s \in {"release link", "work links", "write note"} :
          /\ UNCHANGED <<decision, note, targets>>
          /\ \/ govCall' = [govCall EXCEPT ![c] = k(s)] /\ KnowsLinks(k(s))
             \/ govCall' = [govCall EXCEPT ![c] = NoGovCall]
    <3>1. CASE ReadLesson(c)
      <4>1. KnowsLinks(k("release link")) BY <2>2 DEF KnowsLinks
      <4> QED BY <3>1, <4>1 DEF ReadLesson, GovStep, GovernanceInv, TypeOKGovernance
    <3>2. CASE CheckRelease(c)
      <4>1. govCall[c].value.links \intersect ReleaseTargets \subseteq targets
              => KnowsLinks(k("work links"))
        BY <2>2 DEF KnowsLinks
      <4> QED BY <3>2, <4>1 DEF CheckRelease, GovStep, GovernanceInv, TypeOKGovernance
    <3>3. CASE CheckWorkLinks(c)
      <4>1. govCall[c].at = "work links" BY <3>3 DEF CheckWorkLinks
      <4>2. WorkLinksExist(govCall[c]) => KnowsLinks(k("write note"))
        BY <2>1, <2>2, <4>1 DEF KnowsLinks, WorkLinksExist
      <4> QED BY <3>3, <4>2 DEF CheckWorkLinks, GovStep, GovernanceInv, TypeOKGovernance
    <3> QED BY <1>9, <3>1, <3>2, <3>3
  <2>4. ~OnDecision(k(s)) BY <2>2 DEF OnDecision
  <2>5. k(s) \in NoteCalls BY <2>2
  <2> HIDE DEF k
  <2> QED BY <2>3, <2>4, <2>5, <1>0, <1>2, StepOfAGovCall
<1>12. CASE WriteNote(c)
  <2> DEFINE k == govCall[c]
  <2>1. k \in NoteCalls /\ KnowsLinks(k) /\ k.at = "write note"
    BY <1>3, <1>12, CallKinds DEF WriteNote, GovernanceInv, GovCallState
  <2>2. CASE note[k.on].version # k.expected
    <3>1. UNCHANGED <<decision, note, targets>> /\ govCall' = [govCall EXCEPT ![c] = NoGovCall]
      BY <1>12, <2>2 DEF WriteNote
    <3> QED BY <3>1, <1>0, <1>2
  <2>3. CASE note[k.on].version = k.expected
    <3> DEFINE row == [version |-> k.expected + 1, value |-> k.value]
    <3>1. /\ note' = [note EXCEPT ![k.on] = row]
          /\ govCall' = [govCall EXCEPT ![c] = NoGovCall]
          /\ UNCHANGED <<decision, targets>>
      BY <1>12, <2>3 DEF WriteNote, NextRow
    <3>2. /\ k.expected + 1 \in 1..MaxGovVersion
          /\ k.on \in Notes /\ k.value \in NoteValues
      BY <2>1, NoteCallFields
    <3>3. TypeOKGovernance'
      <4>1. row \in [version : 0..MaxGovVersion, value : NoteValues]
        BY <3>2, GovernanceAssumption
      <4> QED BY <3>1, <4>1 DEF GovernanceInv, TypeOKGovernance
    <3>4. GovernanceLinksExist'
      BY <2>1, <3>1, <3>2 DEF GovernanceInv, TypeOKGovernance, GovernanceLinksExist, KnowsLinks
    <3>5. GovCallState'
      <4> SUFFICES ASSUME NEW d \in GovCalls, d # c
                   PROVE  /\ OnDecision(govCall[d]) => KnowsDecision(govCall[d])'
                          /\ KnowsLinks(govCall[d])'
        BY <3>1 DEF GovCallState, GovernanceInv, TypeOKGovernance, NoGovCall, OnDecision, KnowsLinks
      <4>1. govCall'[d] = govCall[d] BY <3>1 DEF GovernanceInv, TypeOKGovernance
      <4> QED BY <3>1, <4>1 DEF GovernanceInv, GovCallState, KnowsLinks, KnowsDecision
    <3> QED BY <3>1, <3>3, <3>4, <3>5, <1>2 DEF GovernanceInv
  <2> QED BY <2>2, <2>3
<1>13. CASE DropGovCall(c)
  BY <1>13, <1>0, <1>2 DEF DropGovCall
<1> QED BY <1>4, <1>5, <1>6, <1>7, <1>8, <1>9, <1>12, <1>13 DEF Deciding, Noting

(* The inductive invariant.                                                *)
THEOREM GovernanceInvariant == SpecGovernance => []GovernanceInv
<1>1. GovernanceInv /\ [NextGovernance]_govVars => GovernanceInv'
  <2> SUFFICES ASSUME GovernanceInv, [NextGovernance]_govVars PROVE GovernanceInv'
    OBVIOUS
  <2>1. CASE NextGovernance BY <2>1, StepKeepsGovernance
  <2>2. CASE UNCHANGED govVars
    BY <2>2 DEF govVars, GovernanceInv, TypeOKGovernance, GovernanceLinksExist, GovCallState,
                OnDecision, KnowsDecision, KnowsLinks
  <2> QED BY <2>1, <2>2
<1> QED BY GovernanceInit, <1>1, PTL DEF SpecGovernance

(* Links are checked before the write, by calls that may overlap, and hold *)
(* for ever: nothing a call has looked up is ever removed.                 *)
THEOREM LinksExist == SpecGovernance => []GovernanceLinksExist
<1>1. GovernanceInv => GovernanceLinksExist BY DEF GovernanceInv
<1> QED BY GovernanceInvariant, <1>1, PTL

(* However the updates overlap, the content of an accepted decision is     *)
(* changed only by one that names a version the decision had not reached   *)
(* when that update read it: updateArchitectureDecision never compares the *)
(* two.  An update at the version it read, or an older one, finds another  *)
(* version when it writes if the decision was accepted meanwhile.          *)
THEOREM AcceptedIsImmutable == SpecGovernance => AcceptedContentKept
<1>1. GovernanceInv /\ [NextGovernance]_govVars => [ContentKept]_govVars
  BY StepKeepsGovernance
<1>2. AcceptedContentKept <=> [][ContentKept]_govVars
  BY DEF AcceptedContentKept, ContentKept
<1>3. SpecGovernance => [][ContentKept]_govVars
  BY GovernanceInvariant, <1>1, PTL DEF SpecGovernance
<1> QED BY <1>2, <1>3

-----------------------------------------------------------------------------
(* The services together.  Governance, reviews and inspections share no    *)
(* state with what else runs; sign-on relies on the owner, which the steps *)
(* of other calls write under its requests.                                *)

(* A step of a review or a role call leaves the owner, once there. *)
LEMMA ReviewsKeepOwner ==
  ASSUME NextReview
  PROVE  owner' = owner \/ owner = NoOwner
<1>1. ASSUME Deploy PROVE owner' = owner
  BY <1>1 DEF Deploy, roleVars
<1>2. ASSUME NEW c \in RoleCalls, NEW p \in Principals, SubmitReview(c, p) PROVE owner' = owner
  BY <1>2 DEF SubmitReview, BeginGuarded
<1>3. ASSUME NEW c \in RoleCalls, Recording(c) PROVE owner' = owner
  BY <1>3 DEF Recording, Authorised, FindExisting, AppendDecision, DropReview, roleVars
<1> QED BY <1>1, <1>2, <1>3, OwnerStays DEF NextReview, Reviewing

(* A behaviour of the services is one of the governance records, one of    *)
(* roles and reviews, and one of inspections.                              *)
LEMMA ServicesApart == SpecServices => SpecGovernance /\ SpecReview /\ SpecInspection
<1>1. InitServices
        => InitGovernance /\ (InitRoles /\ InitReview) /\ InitInspection
  BY DEF InitServices
<1>2. [NextServices]_serviceVars
        => /\ [NextGovernance]_govVars /\ [NextReview]_<<roleVars, reviewVars>>
           /\ [NextInspection]_inspectionVars
  BY DEF NextServices, serviceVars, authorityVars
<1> QED BY <1>1, <1>2, PTL DEF SpecServices, SpecGovernance, SpecReview, SpecInspection

(* The inductive invariant of sign-on, whatever else runs. *)
LEMMA SignOnAmongServices == SpecServices => []SignOnInv
<1>1. InitServices => SignOnInv BY InitSignOnOK DEF InitServices
<1>2. SignOnInv /\ ReviewInv /\ ReviewInv' /\ [NextServices]_serviceVars => SignOnInv'
  <2> SUFFICES ASSUME SignOnInv, ReviewInv', [NextServices]_serviceVars PROVE SignOnInv'
    OBVIOUS
  <2>1. CASE SigningOn /\ UNCHANGED roleVars
    BY <2>1, SignOnStep DEF NextSignOn
  <2>2. ASSUME UNCHANGED signOnVars, owner' = owner \/ owner = NoOwner PROVE SignOnInv'
    BY <2>2, OwnerComesMeanwhile DEF ReviewInv
  <2>3. NextReview => owner' = owner \/ owner = NoOwner BY ReviewsKeepOwner
  <2> QED BY <2>1, <2>2, <2>3 DEF NextServices, serviceVars, authorityVars, roleVars
<1>3. SpecServices => []ReviewInv BY ServicesApart, ReviewInvariant, PTL
<1> QED BY <1>1, <1>2, <1>3, PTL DEF SpecServices

(* The types of all the services together. *)
THEOREM ServicesAreTyped == SpecServices => []TypeOKServices
<1>1. GovernanceInv /\ ReviewInv /\ SignOnInv /\ InspectionInv => TypeOKServices
  BY DEF GovernanceInv, ReviewInv, RolesInv, SignOnInv, InspectionInv, TypeOKServices
<1> QED BY <1>1, ServicesApart, SignOnAmongServices, GovernanceInvariant, ReviewInvariant,
           InspectionInvariant, PTL

(* The owner's sign-on keeps its promises while roles are granted, reviews *)
(* recorded and the owner bootstrapped under its requests.                 *)
THEOREM OwnerSignsOnAmongServices == SpecServices => OwnerSignsOn
<1>1. SignOnInv /\ SignOnInv' /\ [NextServices]_serviceVars
        => [LinkedOnce /\ SignedInByALiveLink]_signOnVars
  BY SignOnActions DEF NextServices, serviceVars, authorityVars
<1>2. []SignOnInv /\ [][NextServices]_serviceVars
        => [][LinkedOnce /\ SignedInByALiveLink]_signOnVars
  BY <1>1, PTL
<1> QED BY <1>2, SignOnAmongServices, PTL DEF SpecServices, OwnerSignsOn

(* What each service promises holds of all running together. *)
THEOREM ServicesKeepTheirPromises ==
  SpecServices => /\ [](GovernanceLinksExist /\ AuthorityIsAccounted)
                  /\ [](DecisionsAreAccountable /\ InspectionIsBacked)
                  /\ AcceptedContentKept
<1>1. ReviewInv => AuthorityIsAccounted BY DEF ReviewInv, RolesInv, AuthorityIsAccounted
<1> QED BY <1>1, ServicesApart, ReviewInvariant, LinksExist, DecisionsAccountable,
           InspectionsAreBacked, AcceptedIsImmutable, PTL
=============================================================================
