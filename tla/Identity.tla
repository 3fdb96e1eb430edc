------------------------------ MODULE Identity ------------------------------
(***************************************************************************)
(* Membership and roles on top of Sessions: organization bootstrap, role   *)
(* grants and the privileged-grant counter, deactivation, and invitations  *)
(* from their issue to the session of the identity that accepts.           *)
(*                                                                         *)
(* An invitation's transactions lock its row.  The token is looked up      *)
(* before the accepting transaction: between the two the invitation may be *)
(* resent, withdrawn or accepted.  A scope below the organization and the  *)
(* e-mail's text are abstracted; sending is the outbox's.                  *)
(***************************************************************************)
EXTENDS Sessions

CONSTANTS
    Role,
    MfaRole,        \* MFA_REQUIRED_ROLE_CODES
    Admin,          \* the identity each organization is bootstrapped with
    Joined,         \* identities that belong to one organization from the start
    AdminRole,
    InvitationTtl,
    MaxInvitations, MaxSent     \* bounds

ASSUME IdentityAssumption ==
    /\ MfaRole \subseteq Role
    /\ AdminRole \in Role
    /\ {Admin} \cup Joined \subseteq Identity
    /\ Org = {} => Joined = {}
    /\ InvitationTtl \in Nat

VARIABLES
    grants,         \* user_role
    invitations,    \* invitation, in the order of issue
    tokens,         \* invitation_token: <<invitation, resend_counter>>
    accepted        \* history: <<invitation, resend_counter, identity>> of every acceptance

inviting == <<invitations, tokens, accepted>>
sessionVars == <<mix, sent, clock, credentials, sessions, factors, resetting, attempts, request, uses>>
vars == <<sessionVars, grants, inviting>>

\* bootstrap: the administrator, a member with the administrator role.
Bootstrapped == {<<Admin, o, AdminRole>> : o \in Org}

PrivilegedIn(all, i) == Cardinality({g \in all : g[1] = i /\ g[3] \in MfaRole})

Init ==
    /\ mix \in Mixes /\ sent = 0
    /\ clock = 0
    /\ status = [i \in Identity |-> IF i \in {Admin} \cup Joined THEN "active" ELSE "none"]
    /\ password = [i \in Identity |-> [value |-> IF status[i] = "none" THEN 0 ELSE 1, old |-> TRUE]]
    /\ lastSet = [i \in Identity |-> password[i].value]
    /\ member = [i \in Identity |-> IF i = Admin THEN Org ELSE
                                    IF i \in Joined THEN {CHOOSE o \in Org : TRUE} ELSE {}]
    /\ grants = Bootstrapped
    /\ privileged = [i \in Identity |-> PrivilegedIn(grants, i)]
    /\ sessions = <<>>
    /\ factor = [i \in Identity |-> NoFactor]
    /\ codes = {} /\ consumed = {} /\ enrolled = <<>>
    /\ resets = <<>> /\ asked = <<>>
    /\ failures = [i \in Identity |-> <<>>]
    /\ clientFailures = [c \in {Client[r] : r \in Request} |-> <<>>]
    /\ request = [r \in Request |-> Idle]
    /\ uses = [c \in Credential |-> 0]
    /\ invitations = <<>> /\ tokens = {} /\ accepted = {}

-----------------------------------------------------------------------------
(* Roles *)

\* adjust_privileged_role_grants
Adjusted(i, role, delta) ==
    IF role \in MfaRole THEN [privileged EXCEPT ![i] = @ + delta] ELSE privileged

\* Fault: a repeated grant is counted again.
GrantsCounted(i, o, role) ==
    /\ grants' = grants \cup {<<i, o, role>>}
    /\ privileged' = Adjusted(i, role, 1)

\* RoleRepository.grant_role inserts once; only an inserted row is counted.
Grants(i, o, role) ==
    /\ grants' = grants \cup {<<i, o, role>>}
    /\ privileged' = IF <<i, o, role>> \in grants THEN privileged ELSE Adjusted(i, role, 1)

GrantRole(i, o, role) ==
    /\ Sends("roles")
    /\ status[i] # "none"
    /\ Grants(i, o, role)
    /\ UNCHANGED <<mix, clock, status, password, member, lastSet, sessions, factors, resetting,
                   attempts, request, uses, inviting>>

\* revoke_role and revoke_user_role: one assignment, if it is there.
RevokeRole(i, o, role) ==
    /\ Sends("roles")
    /\ <<i, o, role>> \in grants
    /\ role \in MfaRole => privileged[i] > 0
    /\ grants' = grants \ {<<i, o, role>>}
    /\ privileged' = IF role \in MfaRole THEN [privileged EXCEPT ![i] = @ - 1] ELSE privileged
    /\ UNCHANGED <<mix, clock, status, password, member, lastSet, sessions, factors, resetting,
                   attempts, request, uses, inviting>>

\* deactivate_user: a holder of a role in the organization; with every session.
DeactivateUser(i) ==
    /\ Sends("deactivate")
    /\ \E g \in grants : g[1] = i
    /\ status[i] = "active"
    /\ status' = [status EXCEPT ![i] = "deactivated"]
    /\ sessions' = RevokeAll(i)
    /\ UNCHANGED <<mix, clock, password, member, privileged, lastSet, factors, resetting, attempts,
                   request, uses, grants, inviting>>

-----------------------------------------------------------------------------
(* Invitations *)

Open(n) == invitations[n].state = "open"

\* _discard: every token of the invitation.
Discarded(n) == {t \in tokens : t[1] # n}

\* issue: refused while one is open for the address; an expired one is withdrawn.
IssueInvitation(o, i, role) ==
    LET mine == {n \in DOMAIN invitations :
                    Open(n) /\ invitations[n].who = i /\ invitations[n].org = o}
    IN
    /\ Sends("accept")
    /\ Len(invitations) < MaxInvitations
    /\ \A n \in mine : invitations[n].expires <= clock
    /\ invitations' = Append(
            [n \in DOMAIN invitations |->
                IF n \in mine THEN [invitations[n] EXCEPT !.state = "withdrawn"] ELSE invitations[n]],
            [org |-> o, who |-> i, role |-> role, state |-> "open",
             expires |-> clock + InvitationTtl, sent |-> 0])
    /\ tokens' = {t \in tokens : t[1] \notin mine} \cup {<<Len(invitations) + 1, 0>>}
    /\ UNCHANGED <<mix, clock, credentials, sessions, factors, resetting, attempts, request, uses,
                   grants, accepted>>

Withdraw(n) ==
    /\ Sends("accept")
    /\ Open(n)
    /\ invitations' = [invitations EXCEPT ![n].state = "withdrawn"]
    /\ tokens' = Discarded(n)
    /\ UNCHANGED <<mix, clock, credentials, sessions, factors, resetting, attempts, request, uses,
                   grants, accepted>>

\* resend: a new token and a new lifetime; the old token is gone.
Resend(n) ==
    /\ Sends("accept")
    /\ Open(n)
    /\ invitations[n].sent < MaxSent
    /\ invitations' = [invitations EXCEPT ![n].sent = @ + 1, ![n].expires = clock + InvitationTtl]
    /\ tokens' = Discarded(n) \cup {<<n, invitations[n].sent + 1>>}
    /\ UNCHANGED <<mix, clock, credentials, sessions, factors, resetting, attempts, request, uses,
                   grants, accepted>>

\* checked_token: an address with too many failures is turned away.
TurnedAway(r) == Recent(clientFailures[Client[r]]) >= ClientMax

\* lookup of the token t in the request, before the transaction.
Lookup(r, t) ==
    /\ At(r, "accept", "start")
    /\ IF TurnedAway(r) THEN Done(r) /\ UNCHANGED clientFailures
       ELSE IF t \in tokens
       THEN request' = [request EXCEPT ![r].pc = "found", ![r].token = t] /\ UNCHANGED clientFailures
       ELSE /\ Family("wrong")
            /\ clientFailures' = [clientFailures EXCEPT ![Client[r]] = Append(@, clock)]
            /\ Done(r)
    /\ UNCHANGED <<mix, sent, clock, credentials, sessions, factors, resetting, failures, uses,
                   grants, inviting>>

\* Fault: the invitation is checked, not the token.
LiveInvitation(t) == Open(t[1])

\* _check_live: neither used nor withdrawn nor sent anew.
Live(t) == Open(t[1]) /\ t \in tokens

\* Whom the request may let in: the signed-in owner of the address who is not yet a
\* member, or a new identity.
MayJoin(r, n) ==
    IF request[r].sid # 0
    THEN /\ request[r].who = invitations[n].who
         /\ invitations[n].org \notin member[invitations[n].who]
    ELSE status[invitations[n].who] = "none"

\* accept: identity, membership, role, the invitation and its token in one transaction.
Accept(r) ==
    LET t == request[r].token
        n == t[1]
        i == invitations[n].who
    IN
    /\ At(r, "accept", "found")
    /\ Live(t) /\ invitations[n].expires > clock /\ MayJoin(r, n)
    /\ status' = [status EXCEPT ![i] = IF @ = "none" THEN "active" ELSE @]
    /\ password' = [password EXCEPT ![i] =
                        IF status[i] = "none" THEN [value |-> 1, old |-> FALSE] ELSE @]
    /\ lastSet' = [lastSet EXCEPT ![i] = IF status[i] = "none" THEN 1 ELSE @]
    /\ member' = [member EXCEPT ![i] = @ \cup {invitations[n].org}]
    /\ Grants(i, invitations[n].org, invitations[n].role)
    /\ invitations' = [invitations EXCEPT ![n].state = "used"]
    /\ tokens' = Discarded(n)
    /\ accepted' = accepted \cup {<<n, t[2], i>>}
    /\ request' = [request EXCEPT ![r] =
                    IF @.sid # 0 THEN Idle ELSE [@ EXCEPT !.pc = "joined", !.who = i]]
    /\ UNCHANGED <<mix, sent, clock, sessions, factors, resetting, attempts, uses>>

\* accept refuses: the address is charged with a failure.
AcceptRefused(r) ==
    LET t == request[r].token IN
    /\ At(r, "accept", "found")
    /\ ~(Live(t) /\ invitations[t[1]].expires > clock /\ MayJoin(r, t[1]))
    /\ clientFailures' = [clientFailures EXCEPT ![Client[r]] = Append(@, clock)]
    /\ Done(r)
    /\ UNCHANGED <<mix, sent, clock, credentials, sessions, factors, resetting, failures, uses,
                   grants, inviting>>

\* A new identity is signed in at once.
SignInJoined(r) ==
    /\ At(r, "accept", "joined")
    /\ Issue(request[r].who, Requirement(request[r].who) = "none")
    /\ Done(r)
    /\ UNCHANGED <<mix, sent, clock, credentials, factors, resetting, attempts, uses, grants, inviting>>

-----------------------------------------------------------------------------
Next ==
    \/ SessionNext /\ UNCHANGED <<grants, inviting>>
    \/ \E i \in Identity, o \in Org, role \in Role :
        GrantRole(i, o, role) \/ RevokeRole(i, o, role) \/ IssueInvitation(o, i, role)
    \/ \E i \in Identity : DeactivateUser(i)
    \/ \E n \in DOMAIN invitations : Withdraw(n) \/ Resend(n)
    \/ \E r \in Request :
        \/ \E n \in DOMAIN invitations, k \in 0..MaxSent : Lookup(r, <<n, k>>)
        \/ Accept(r) \/ AcceptRefused(r) \/ SignInJoined(r)

Spec == Init /\ [][Next]_vars

-----------------------------------------------------------------------------
\* A deactivated identity has no session left, though a login or a second factor that
\* was proved before the deactivation has still to issue its session afterwards
\* (SessionStore.issue and rotate against deactivate_user).
DeactivatedSignedOut ==
    \A s \in Sid : sessions[s].live => status[sessions[s].who] # "deactivated"

\* Of all the sessions that descend from one sign-in by rotation, at most one is alive:
\* two requests of one session that both rotate it leave one successor (rotate).
OneLiveSuccessor ==
    \A s, t \in Sid : sessions[s].live /\ sessions[t].live /\ sessions[s].root = sessions[t].root
        => s = t

\* The stored password is the one last set, also when a login that verified the
\* previous one stores its rehash after a reset (rehash_password).
LastPasswordStands == \A i \in Identity : password[i].value = lastSet[i]

\* A session works in an organization its identity belongs to, also after a login as
\* somebody else and after a switch that races a rotation (rotate, select).
SessionOrgIsMember ==
    \A s \in Sid : sessions[s].org \in member[sessions[s].who] \cup {NoOrg}

\* A time step, a recovery code and a reset token each prove something at most once,
\* whichever requests show them (_consume_time_step, _consume_recovery, complete_reset).
ProvesOnce == \A c \in Credential : uses[c] <= 1

\* However reset requests interleave, an identity has one reset that may still be used
\* (request_reset under its advisory locks).
OneLiveReset ==
    \A m, n \in 1..Len(resets) :
        resets[m].who = resets[n].who /\ ~resets[m].used /\ ~resets[n].used => m = n

\* The counter the MFA gate reads is the number of grants of roles that require MFA,
\* through grants, repeated grants, revocations and acceptances.
CountMatchesGrants == \A i \in Identity : privileged[i] = PrivilegedIn(grants, i)

\* An invitation lets one identity in, by the token sent last, and stays used
\* (accept against resend, withdraw and another accept).
AcceptedOnce ==
    \A a \in accepted :
        /\ invitations[a[1]].state = "used"
        /\ invitations[a[1]].sent = a[2]
        /\ \A b \in accepted : a[1] = b[1] => a = b

\* Sessions outlive neither their identity nor their rotation, and stay where it belongs,
\* whichever requests of one identity interleave.
SessionsHold == DeactivatedSignedOut /\ OneLiveSuccessor /\ SessionOrgIsMember

\* A credential is worth what it should be: what may be used once is used once (a factor's
\* step or code, a reset, an invitation), and the password is the last one set.
CredentialsHold == ProvesOnce /\ OneLiveReset /\ AcceptedOnce /\ LastPasswordStands
=============================================================================
