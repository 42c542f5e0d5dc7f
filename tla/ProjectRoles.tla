------------------------------ MODULE ProjectRoles ------------------------------
(***************************************************************************)
(* AuthorityService over the rows of SystemBootstrap, ProjectAuthority and *)
(* AuthorityAuditEvent: the owner is bootstrapped once, roles of one       *)
(* project are granted, and every guarded call first asks whether its      *)
(* actor may act.  The question takes two awaits - is this the owner, if   *)
(* not which role - and the answer is not asked again when the call        *)
(* writes.  Writes are transactions with their audit event.                *)
(***************************************************************************)
EXTENDS Naturals, Sequences

CONSTANTS Principals, NoOwner,
          RoleCalls,   \* calls that may be in progress together
          MaxAudit     \* bound: audit events

ASSUME RolesAssumption == NoOwner \notin Principals

VARIABLES owner,    \* the row "system" of SystemBootstrap
          role,     \* ProjectAuthority of one project
          audit,    \* AuthorityAuditEvent
          roleCall  \* calls in progress

roleVars == <<owner, role, audit, roleCall>>

Roles == {"OWNER", "EDITOR", "REVIEWER", "VIEWER"}
AuthorityActions == {"PROJECT_READ", "PROJECT_MUTATE", "PROJECT_REVIEW",
                     "PROJECT_ADMIN", "ROLE_MANAGE"}

(* roleActions; without a role, nothing. *)
RoleActions(r) ==
  CASE r = "OWNER" -> AuthorityActions
    [] r = "EDITOR" -> {"PROJECT_READ", "PROJECT_MUTATE"}
    [] r = "REVIEWER" -> {"PROJECT_READ", "PROJECT_REVIEW"}
    [] r = "VIEWER" -> {"PROJECT_READ"}
    [] OTHER -> {}

NoRoleCall == [at |-> "idle"]

RoleCall(at, action, actor, to, give) ==
  [at |-> at, action |-> action, actor |-> actor, to |-> to, give |-> give]

RoleCallType ==
  [at : {"owner?", "role?", "admitted", "bootstrap read", "bootstrap write"},
   action : AuthorityActions, actor : Principals, to : Principals, give : Roles]

AuditEvents == [what : {"bootstrap"}, actor : Principals]
                 \union [what : {"role"}, actor : Principals,
                         to : Principals, give : Roles]

TypeOKRoles ==
  /\ owner \in Principals \union {NoOwner}
  /\ role \in [Principals -> Roles \union {"none"}]
  /\ audit \in Seq(AuditEvents)
  /\ roleCall \in [RoleCalls -> RoleCallType \union {NoRoleCall}]

InitRoles ==
  /\ owner = NoOwner /\ audit = <<>>
  /\ role = [p \in Principals |-> "none"]
  /\ roleCall = [c \in RoleCalls |-> NoRoleCall]

EndRoleCall(c) == roleCall' = [roleCall EXCEPT ![c] = NoRoleCall]
-----------------------------------------------------------------------------
(* What every guarded call asks first.                                     *)

(* A call of p that needs action; to and give matter to a grant only. *)
BeginGuarded(c, action, p, to, give) ==
  /\ roleCall[c] = NoRoleCall
  /\ roleCall' = [roleCall EXCEPT ![c] = RoleCall("owner?", action, p, to, give)]
  /\ UNCHANGED <<owner, role, audit>>

(* can, first await: isSystemOwner. *)
ReadOwner(c) ==
  /\ roleCall[c].at = "owner?"
  /\ roleCall' = [roleCall EXCEPT ![c].at =
                    IF owner = roleCall[c].actor THEN "admitted" ELSE "role?"]
  /\ UNCHANGED <<owner, role, audit>>

(* can, second await: findProjectRole. *)
ReadRole(c) ==
  LET k == roleCall[c] IN
  /\ k.at = "role?"
  /\ IF k.action \in RoleActions(role[k.actor])
       THEN roleCall' = [roleCall EXCEPT ![c].at = "admitted"]
       ELSE EndRoleCall(c)
  /\ UNCHANGED <<owner, role, audit>>

Admitted(c, action) == roleCall[c].at = "admitted" /\ roleCall[c].action = action
-----------------------------------------------------------------------------
(* Grants.                                                                 *)

BeginGrant(c, p, to, give) ==
  Len(audit) < MaxAudit /\ BeginGuarded(c, "ROLE_MANAGE", p, to, give)

(* Seeded fault: the audit event is only written for a new assignment. *)
AuditedOnCreate(k) ==
  IF role[k.to] = "none"
    THEN <<[what |-> "role", actor |-> k.actor, to |-> k.to, give |-> k.give]>>
    ELSE <<>>

(* The audit event of a grant. *)
Audited(k) ==
  <<[what |-> "role", actor |-> k.actor, to |-> k.to, give |-> k.give]>>

(* setProjectRole: the upsert and its audit event, in one transaction. *)
SetProjectRole(c) ==
  LET k == roleCall[c] IN
  /\ Admitted(c, "ROLE_MANAGE")
  /\ Len(audit) < MaxAudit
  /\ role' = [role EXCEPT ![k.to] = k.give]
  /\ audit' = audit \o Audited(k)
  /\ EndRoleCall(c)
  /\ UNCHANGED owner
-----------------------------------------------------------------------------
(* The bootstrap.                                                          *)

(* bootstrapOwnerAction, twice: the setup page lets the identity pass that *)
(* the deployment names, the workspace whoever is signed in.               *)
BeginBootstrap(c) ==
  /\ roleCall[c] = NoRoleCall
  /\ \E p \in Principals :
       roleCall' = [roleCall EXCEPT ![c] =
                      RoleCall("bootstrap read", "ROLE_MANAGE", p, p, "OWNER")]
  /\ UNCHANGED <<owner, role, audit>>

(* The transaction reads the row committed so far. *)
ReadBootstrap(c) ==
  /\ roleCall[c].at = "bootstrap read"
  /\ IF owner = NoOwner
       THEN roleCall' = [roleCall EXCEPT ![c].at = "bootstrap write"]
       ELSE EndRoleCall(c)
  /\ UNCHANGED <<owner, role, audit>>

(* Seeded fault: a second row may be inserted. *)
AnyBootstrapRow == TRUE

(* The insert fails on the unique id when another transaction committed. *)
NoBootstrapRow == owner = NoOwner

WriteBootstrap(c) ==
  LET k == roleCall[c] IN
  /\ k.at = "bootstrap write"
  /\ Len(audit) < MaxAudit
  /\ IF NoBootstrapRow
       THEN /\ owner' = k.actor
            /\ audit' = Append(audit, [what |-> "bootstrap", actor |-> k.actor])
       ELSE UNCHANGED <<owner, audit>>
  /\ EndRoleCall(c)
  /\ UNCHANGED role

(* The process dies, or an await is rejected. *)
DropRoleCall(c) ==
  roleCall[c] # NoRoleCall /\ EndRoleCall(c) /\ UNCHANGED <<owner, role, audit>>

BootstrapBy(c) == BeginBootstrap(c) \/ ReadBootstrap(c) \/ WriteBootstrap(c)

Bootstrapping == \E c \in RoleCalls : BootstrapBy(c)

Granting ==
  \E c \in RoleCalls :
    \/ \E p, to \in Principals, give \in Roles : BeginGrant(c, p, to, give)
    \/ ReadOwner(c) \/ ReadRole(c) \/ SetProjectRole(c) \/ DropRoleCall(c)

NextRoles == Bootstrapping \/ Granting

SpecRoles == InitRoles /\ [][NextRoles]_roleVars
-----------------------------------------------------------------------------
(* Properties.                                                             *)

Given(i, p, rs) ==
  audit[i].what = "role" /\ audit[i].to = p /\ audit[i].give \in rs
BootstrappedAs(i, p) == audit[i].what = "bootstrap" /\ audit[i].actor = p

(* The audit trail alone tells who the owner is and which role everybody   *)
(* has: the last event for a member gives the role of the table, and there *)
(* is one bootstrap event at most, the owner's, however calls interleave.  *)
AuditReplays ==
  /\ \A p \in Principals :
       IF role[p] = "none"
         THEN \A i \in DOMAIN audit : ~Given(i, p, Roles)
         ELSE \E i \in DOMAIN audit :
                /\ Given(i, p, {role[p]})
                /\ \A j \in (i + 1)..Len(audit) : ~Given(j, p, Roles)
  /\ \A i \in DOMAIN audit :
       audit[i].what = "bootstrap" =>
         /\ audit[i].actor = owner
         /\ \A j \in DOMAIN audit : audit[j].what = "bootstrap" => j = i
  /\ owner # NoOwner => \E i \in DOMAIN audit : BootstrappedAs(i, owner)
(* Every role descends from the bootstrap: whoever granted it had been     *)
(* made owner of the system or of the project by an earlier event, even    *)
(* when a concurrent grant has taken that role away meanwhile.             *)
RolesDescend ==
  \A i \in DOMAIN audit :
    audit[i].what = "role" =>
      \E j \in 1..(i - 1) : \/ BootstrappedAs(j, audit[i].actor)
                            \/ Given(j, audit[i].actor, {"OWNER"})
(* The trail accounts for the authority there is, and for where it came    *)
(* from, whichever grants and bootstraps overlap.                          *)
AuthorityIsAccounted == AuditReplays /\ RolesDescend
=============================================================================
