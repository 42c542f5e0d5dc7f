------------------------------- MODULE OwnerSignOn -------------------------------
(***************************************************************************)
(* Single sign-on of the owner through App-Manage: the routes sso/start,   *)
(* sso/callback, sso/finish and sso/logout over the cookies of browsers    *)
(* and the table AppManagementSsoLink, one action per await.               *)
(*                                                                         *)
(* A callback redeems its code and then uses the link of the subject, or   *)
(* links the subject to the owner of the Hub whose e-mail address it is,   *)
(* or leaves a pair cookie; finish links the subject of that cookie when   *)
(* the browser also holds the owner's GitHub session.  The e-mail of the   *)
(* owner changes with every GitHub sign-in, a link may be revoked at any   *)
(* time, and requests of several tabs overlap.                             *)
(*                                                                         *)
(* Signatures, origins and time stamps are not kept: a cookie out of date  *)
(* is a cookie that is not there, and any cookie may expire at any time.   *)
(* The issuer and its codes are not kept either: any account may answer a  *)
(* flow, and the exchange of a code may fail.                              *)
(***************************************************************************)
EXTENDS ProjectRoles

CONSTANTS Subjects, NoSubject,  \* App-Manage accounts
          Browsers, Requests

VARIABLES ownerEmail,  \* Principal.email of the owner
          link,        \* AppManagementSsoLink
          jar,         \* cookies, by browser
          request      \* requests in progress

signOnVars == <<ownerEmail, link, jar, request>>

NoLink == [linked |-> FALSE]
Links == [principal : Principals, revoked : BOOLEAN]
NoSession == [signed |-> FALSE]
Sessions == [subject : Subjects, principal : Principals]
NoRequest == [at |-> "none"]

(* live: history, the link of the subject was live since the request came. *)
RequestType ==
  [at : {"exchange", "find link", "owner", "create", "reread",
         "finish owner", "finish find", "finish create", "finish reread",
         "answer"},
   browser : Browsers, route : {"callback", "finish"},
   github : Principals \union {NoOwner},
   subject : Subjects, principal : Principals \union {NoOwner},
   live : BOOLEAN]

TypeOKSignOn ==
  /\ ownerEmail \in Subjects \union {NoSubject}
  /\ link \in [Subjects -> Links \union {NoLink}]
  /\ jar \in [Browsers -> [flow : BOOLEAN, pair : Subjects \union {NoSubject},
                           session : Sessions \union {NoSession},
                           github : Principals \union {NoOwner}]]
  /\ request \in [Requests -> RequestType \union {NoRequest}]

InitSignOn ==
  /\ ownerEmail = NoSubject
  /\ link = [s \in Subjects |-> NoLink]
  /\ jar = [b \in Browsers |-> [flow |-> FALSE, pair |-> NoSubject,
                                session |-> NoSession, github |-> NoOwner]]
  /\ request = [q \in Requests |-> NoRequest]

Live(s) == link[s] # NoLink /\ ~link[s].revoked

(* A request ends; its answer changes the cookies of its browser. *)
Answer(q, cookies) ==
  /\ request' = [request EXCEPT ![q] = NoRequest]
  /\ jar' = [jar EXCEPT ![request[q].browser] = cookies]

Goto(q, step) == request' = [request EXCEPT ![q].at = step]
Cookies(q) == jar[request[q].browser]

(* returnToAccessError and deny. *)
CallbackError(q) == Answer(q, [Cookies(q) EXCEPT !.flow = FALSE])
FinishError(q) == Answer(q, [Cookies(q) EXCEPT !.pair = NoSubject])
-----------------------------------------------------------------------------
(* The world around the routes.                                            *)

(* jwt callback and resolvePrincipal: a GitHub sign-in of p in b; the      *)
(* e-mail address of the owner is whatever GitHub says today.              *)
GitHubSignIn(b) ==
  \E p \in Principals, e \in Subjects \union {NoSubject} :
    /\ jar' = [jar EXCEPT ![b].github = p]
    /\ ownerEmail' = IF p = owner THEN e ELSE ownerEmail
    /\ UNCHANGED <<link, request>>

(* An operator revokes a link; no code takes that back. *)
Revoke(s) ==
  /\ Live(s)
  /\ link' = [link EXCEPT ![s].revoked = TRUE]
  /\ UNCHANGED <<ownerEmail, jar, request>>

(* A cookie outlives its term. *)
Expire(b) ==
  /\ \E cookies \in {[jar[b] EXCEPT !.flow = FALSE], [jar[b] EXCEPT !.pair = NoSubject],
                     [jar[b] EXCEPT !.session = NoSession]} :
       cookies # jar[b] /\ jar' = [jar EXCEPT ![b] = cookies]
  /\ UNCHANGED <<ownerEmail, link, request>>

(* sso/start: the flow of the browser, in place of one it had begun. *)
StartFlow(b) ==
  /\ ~jar[b].flow
  /\ jar' = [jar EXCEPT ![b].flow = TRUE]
  /\ UNCHANGED <<ownerEmail, link, request>>

(* sso/logout. *)
Logout(b) ==
  /\ jar[b].session # NoSession
  /\ jar' = [jar EXCEPT ![b].flow = FALSE, ![b].session = NoSession]
  /\ UNCHANGED <<ownerEmail, link, request>>
-----------------------------------------------------------------------------
(* sso/callback.                                                           *)

(* The browser comes back for its flow, as some account; from a tab whose  *)
(* flow has been replaced the state is another, which ends the flow.       *)
Callback(q, b) ==
  /\ request[q] = NoRequest /\ jar[b].flow
  /\ \/ /\ \E s \in Subjects :
             request' = [request EXCEPT ![q] =
               [at |-> "exchange", browser |-> b, route |-> "callback",
                github |-> NoOwner, subject |-> s,
                principal |-> NoOwner, live |-> Live(s)]]
        /\ UNCHANGED jar
     \/ jar' = [jar EXCEPT ![b].flow = FALSE] /\ UNCHANGED request
  /\ UNCHANGED <<ownerEmail, link>>

(* The issuer redeems the code, refuses it, or does not answer in time. *)
Exchange(q) ==
  /\ request[q].at = "exchange"
  /\ \/ Goto(q, "find link") /\ UNCHANGED jar
     \/ CallbackError(q)
  /\ UNCHANGED <<ownerEmail, link>>

(* What a route requires of the link it has read. *)
Usable(l) == ~l.revoked

FindLink(q) ==
  LET l == link[request[q].subject] IN
  /\ request[q].at = "find link"
  /\ IF l = NoLink THEN Goto(q, "owner") /\ UNCHANGED jar
     ELSE IF Usable(l)
       THEN /\ request' = [request EXCEPT ![q].at = "answer",
                                          ![q].principal = l.principal]
            /\ UNCHANGED jar
       ELSE CallbackError(q)
  /\ UNCHANGED <<ownerEmail, link>>

(* matchingExistingHubOwner: by e-mail address; otherwise the subject is   *)
(* remembered in a pair cookie, for finish.                                *)
MatchOwner(q) ==
  /\ request[q].at = "owner"
  /\ IF owner = NoOwner THEN CallbackError(q)
     ELSE IF ownerEmail = request[q].subject
       THEN /\ request' = [request EXCEPT ![q].at = "create", ![q].principal = owner]
            /\ UNCHANGED jar
       ELSE Answer(q, [Cookies(q) EXCEPT !.flow = FALSE, !.pair = request[q].subject])
  /\ UNCHANGED <<ownerEmail, link>>

(* Seeded fault: no unique key on the principal. *)
InsertableSubject(s, p) == link[s] = NoLink

(* The unique keys of the table: one link per subject and per principal. *)
InsertableLink(s, p) ==
  link[s] = NoLink /\ \A t \in Subjects : link[t] # NoLink => link[t].principal # p

(* The insert; on any error the link is read again. *)
CreateLink(q, retry) ==
  LET k == request[q] IN
  IF InsertableLink(k.subject, k.principal)
    THEN /\ link' = [link EXCEPT ![k.subject] = [principal |-> k.principal,
                                                 revoked |-> FALSE]]
         /\ request' = [r \in Requests |->
              IF request[r] = NoRequest THEN NoRequest
              ELSE [request[r] EXCEPT !.live = @ \/ request[r].subject = k.subject,
                                      !.at = IF r = q THEN "answer" ELSE @]]
    ELSE Goto(q, retry) /\ UNCHANGED link

Create(q) ==
  /\ request[q].at = "create"
  /\ CreateLink(q, "reread")
  /\ UNCHANGED <<ownerEmail, jar>>

Reread(q) ==
  LET k == request[q]
      l == link[k.subject] IN
  /\ k.at = "reread"
  /\ IF l # NoLink /\ l.principal = k.principal /\ Usable(l)
       THEN Goto(q, "answer") /\ UNCHANGED jar
       ELSE CallbackError(q)
  /\ UNCHANGED <<ownerEmail, link>>
-----------------------------------------------------------------------------
(* sso/finish.                                                             *)

(* Without a GitHub session the browser is sent to sign in first. *)
Finish(q, b) ==
  /\ request[q] = NoRequest
  /\ jar[b].pair # NoSubject /\ jar[b].github # NoOwner
  /\ request' = [request EXCEPT ![q] =
       [at |-> "finish owner", browser |-> b, route |-> "finish",
        github |-> jar[b].github, subject |-> jar[b].pair,
        principal |-> NoOwner, live |-> Live(jar[b].pair)]]
  /\ UNCHANGED <<ownerEmail, link, jar>>

(* isVerifiedGitHubOwner: the session is the owner's own account. *)
VerifyOwner(q) ==
  /\ request[q].at = "finish owner"
  /\ IF owner # NoOwner /\ request[q].github = owner
       THEN /\ request' = [request EXCEPT ![q].at = "finish find",
                                          ![q].principal = owner,
                                          ![q].github = NoOwner]
            /\ UNCHANGED jar
       ELSE FinishError(q)
  /\ UNCHANGED <<ownerEmail, link>>

(* The link read, first or again after a failed insert. *)
FinishFind(q) ==
  LET k == request[q]
      l == link[k.subject] IN
  /\ k.at \in {"finish find", "finish reread"}
  /\ IF l = NoLink /\ k.at = "finish find"
       THEN Goto(q, "finish create") /\ UNCHANGED jar
     ELSE IF l # NoLink /\ Usable(l) /\ l.principal = k.principal
       THEN Goto(q, "answer") /\ UNCHANGED jar
       ELSE FinishError(q)
  /\ UNCHANGED <<ownerEmail, link>>

FinishCreate(q) ==
  /\ request[q].at = "finish create"
  /\ CreateLink(q, "finish reread")
  /\ UNCHANGED <<ownerEmail, jar>>

(* Either route signs the browser in and drops its own cookie. *)
SignIn(q) ==
  LET k == request[q] IN
  /\ k.at = "answer"
  /\ Answer(q, LET signed == [Cookies(q) EXCEPT
                     !.session = [subject |-> k.subject, principal |-> k.principal]]
               IN IF k.route = "callback" THEN [signed EXCEPT !.flow = FALSE]
                                ELSE [signed EXCEPT !.pair = NoSubject])
  /\ UNCHANGED <<ownerEmail, link>>

(* The server fails, or the browser is gone before the answer. *)
Abandon(q) ==
  /\ request[q] # NoRequest
  /\ request' = [request EXCEPT ![q] = NoRequest]
  /\ UNCHANGED <<ownerEmail, link, jar>>

SigningOn ==
  \/ \E b \in Browsers : GitHubSignIn(b) \/ Expire(b) \/ StartFlow(b) \/ Logout(b)
  \/ \E s \in Subjects : Revoke(s)
  \/ \E q \in Requests :
       \/ Exchange(q) \/ FindLink(q) \/ MatchOwner(q)
       \/ Create(q) \/ Reread(q)
       \/ VerifyOwner(q) \/ FinishFind(q) \/ FinishCreate(q)
       \/ SignIn(q) \/ Abandon(q)
       \/ \E b \in Browsers : Callback(q, b) \/ Finish(q, b)

(* The owner is bootstrapped, and roles are granted, meanwhile. *)
NextSignOn ==
  \/ SigningOn /\ UNCHANGED roleVars
  \/ NextRoles /\ UNCHANGED signOnVars

SpecSignOn == InitRoles /\ InitSignOn /\ [][NextSignOn]_<<roleVars, signOnVars>>
-----------------------------------------------------------------------------
(* Properties.                                                             *)

(* One subject at most is ever linked, to the owner; no step reassigns a   *)
(* link, drops it or takes a revocation back.                              *)
LinkedOnce ==
  /\ \A s, t \in Subjects : link'[s] # NoLink /\ link'[t] # NoLink => s = t
  /\ \A s \in Subjects :
       /\ link'[s] # NoLink => link'[s].principal = owner
       /\ link[s] # NoLink =>
            /\ link'[s] # NoLink /\ link'[s].principal = link[s].principal
            /\ link[s].revoked => link'[s].revoked
(* A browser is signed in only by a request of its own, as the owner, and  *)
(* for a subject whose link was live at some instant of that request.      *)
SignedInByALiveLink ==
  \A b \in Browsers :
    LET new == jar'[b].session IN
    new # jar[b].session /\ new # NoSession =>
      /\ new.principal = owner /\ link[new.subject] # NoLink
      /\ \E q \in Requests : /\ request[q] # NoRequest
                             /\ request[q].browser = b
                             /\ request[q].subject = new.subject
                             /\ request[q].live
(* Whatever the requests in progress, and the e-mail addresses in between, *)
(* no step breaks either.                                                  *)
OwnerSignsOn == [][LinkedOnce /\ SignedInByALiveLink]_signOnVars
=============================================================================
