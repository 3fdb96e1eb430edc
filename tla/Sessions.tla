------------------------------ MODULE Sessions ------------------------------
(***************************************************************************)
(* Identities' credentials and sessions: the local identity provider, the  *)
(* login throttle, the session store, the session, MFA and organization    *)
(* gates, TOTP factors and password resets.                                *)
(*                                                                         *)
(* The auth connection commits every statement by itself: a request is a   *)
(* sequence of transactions, an action each, and what it read in one it    *)
(* uses in the next.  A factor, an identity and a session row are locked   *)
(* by the transactions that change them, so each of these is one step.  A  *)
(* reset request is two, since it only locks an advisory key, and so is    *)
(* the revocation of one's other sessions, whose UPDATE locks only the     *)
(* rows it saw as it began.                                                *)
(*                                                                         *)
(* Abstracted: tokens and hashes are numbers, a clock tick is a TOTP       *)
(* interval; security events and jitter are left out.                      *)
(***************************************************************************)
EXTENDS Naturals, Sequences, FiniteSets

CONSTANTS
    Identity,           \* every identity that may ever exist; one e-mail address each
    Org,                \* organizations
    NoOrg,              \* no organization chosen
    Request,            \* HTTP requests in flight at a time
    Client,             \* Client[r]: the address it comes from
    IdleTimeout, AbsoluteTimeout,
    ReauthAge,          \* age of the last proof that requires_recent_auth accepts
    ThrottleWindow, IdentityMax, ClientMax,     \* the login throttle's limits
    FactorMax, FactorWindow, LockDuration,      \* the MFA failure limits
    ResetTtl, ResetWindow, ResetEmailMax, ResetClientMax,
    Mixes,              \* bound: the families of requests that meet, and how many requests
    MaxClock, MaxSessions, MaxPasswords, MaxEnrollments, MaxResets     \* bounds

ASSUME SessionsAssumption ==
    /\ NoOrg \notin Org
    /\ {IdleTimeout, ReauthAge, IdentityMax, ClientMax, FactorMax} \subseteq Nat \ {0}
    /\ AbsoluteTimeout \in Nat /\ AbsoluteTimeout >= IdleTimeout
    /\ ResetTtl \in Nat
    \* A table has finitely many rows.
    /\ IsFiniteSet(Org)

VARIABLES
    mix,        \* the families of requests of this behaviour
    sent,       \* how many requests there were
    clock,
    status,     \* identity.status; "none" before the row exists
    password,   \* identity.password_hash: the password and whether its parameters are outdated
    member,     \* identity_membership
    privileged, \* identity.privileged_role_grants
    sessions,   \* auth_session, in the order of issue
    factor,     \* mfa_factor; no row when there is neither an active nor a pending secret
    codes,      \* mfa_recovery_code: the unused ones, one for each enrollment
    consumed,   \* mfa_totp_consumption
    enrolled,   \* enrolled[n]: whose enrollment n is
    resets,     \* password_reset
    asked,      \* password_reset_rate_limit
    failures,   \* login_attempt: failures of an identity since its last success
    clientFailures, \* login_attempt: failures from an address
    request,    \* request[r]: where request r stands and what it has read
    lastSet,    \* history: the password an identity was last given
    uses        \* history: how often a single-use credential proved something

credentials == <<status, password, member, privileged, lastSet>>
factors == <<factor, codes, consumed, enrolled>>
resetting == <<resets, asked>>
attempts == <<failures, clientFailures>>

\* A request that is not there.
Idle == [op |-> "none", pc |-> "idle", who |-> "nobody", sid |-> 0, org |-> NoOrg,
         hash |-> [value |-> 0, old |-> FALSE], token |-> <<0, 0>>, need |-> "none", seen |-> 0]

NoFactor == [active |-> 0, pending |-> 0, failed |-> 0, since |-> 0, until |-> 0]

\* A credential that may prove something once.
Credential ==
    ({"step"} \X Identity \X (0..MaxClock + 1)) \cup ({"code"} \X Identity \X (1..MaxEnrollments))
        \cup ({"reset"} \X Identity \X (1..MaxResets))

Family(f) == f \in mix.families

\* One more request of a family: the bound of every behaviour.
Sends(f) == Family(f) /\ sent < mix.requests /\ sent' = sent + 1

Done(r) == request' = [request EXCEPT ![r] = Idle]

Goes(r, pc) == request' = [request EXCEPT ![r].pc = pc]

At(r, op, pc) == request[r].op = op /\ request[r].pc = pc

Sid == 1..Len(sessions)

Usable(s) ==
    /\ sessions[s].live
    /\ sessions[s].idle > clock
    /\ sessions[s].until > clock
    /\ status[sessions[s].who] = "active"

Earlier(a, b) == IF a < b THEN a ELSE b

\* access_requirement
Requirement(i) ==
    IF factor[i].active # 0 THEN "verify"
    ELSE IF privileged[i] > 0 THEN "enroll" ELSE "none"

\* MfaAccessMiddleware: what an identity's requirement lets through.
MfaGate(s, op) ==
    LET need == Requirement(sessions[s].who)
    IN /\ need = "enroll" => op \in {"enroll", "confirm", "logout"}
       /\ need = "verify" /\ ~sessions[s].verified => op \in {"verify", "logout"}

\* OrganizationSelectionMiddleware
OrgGate(s, op) ==
    sessions[s].org = NoOrg /\ Cardinality(member[sessions[s].who]) >= 2
        => op \in {"accept", "select", "logout", "enroll", "confirm", "verify"}

\* requires_recent_auth guards the removal of a factor.
StepUp(s, op) == op = "disable" => clock - sessions[s].auth <= ReauthAge

\* The organization a new login starts in: the only one, or none.
LoginOrg(i) == IF Cardinality(member[i]) = 1 THEN CHOOSE o \in member[i] : TRUE ELSE NoOrg

NewSession(i, verified, org, root) ==
    [who |-> i, live |-> TRUE, idle |-> clock + IdleTimeout, until |-> clock + AbsoluteTimeout,
     auth |-> clock, verified |-> verified, org |-> org, root |-> root]

RevokeSessions(all, ended) ==
    [s \in DOMAIN all |-> IF s \in ended THEN [all[s] EXCEPT !.live = FALSE] ELSE all[s]]

OwnSessions(i) == {s \in DOMAIN sessions : sessions[s].who = i}

\* revoke_all_sessions
RevokeAll(i) == RevokeSessions(sessions, OwnSessions(i))

-----------------------------------------------------------------------------
(* The middlewares: a request arrives with a session cookie or without.     *)

SessionOps == {"login", "enroll", "confirm", "verify", "disable", "logout",
               "revoke", "revoke_others", "select", "accept"}

FamilyOf(op) ==
    CASE op = "login" -> "login"
      [] op \in {"enroll", "confirm", "verify", "disable"} -> "mfa"
      [] op \in {"logout", "revoke", "revoke_others"} -> "revoke"
      [] OTHER -> op

\* SessionAuthenticationMiddleware: the session is refreshed and put in the request,
\* unless a gate refuses the path.
Arrive(r, op, s) ==
    /\ request[r] = Idle
    /\ Sends(FamilyOf(op))
    /\ Usable(s)
    /\ sessions' = [sessions EXCEPT ![s].idle = Earlier(clock + IdleTimeout, sessions[s].until)]
    /\ IF MfaGate(s, op) /\ OrgGate(s, op) /\ StepUp(s, op)
       THEN request' = [request EXCEPT ![r] = [Idle EXCEPT
                !.op = op, !.pc = "start", !.who = sessions[s].who, !.sid = s,
                !.org = sessions[s].org]]
       ELSE UNCHANGED request
    /\ UNCHANGED <<mix, clock, credentials, factors, resetting, attempts, uses>>

\* A public route without a usable cookie: the request carries no session.
ArriveAnonymously(r, op) ==
    /\ request[r] = Idle
    /\ Sends(op)
    /\ request' = [request EXCEPT ![r] = [Idle EXCEPT !.op = op, !.pc = "start"]]
    /\ UNCHANGED <<mix, clock, credentials, sessions, factors, resetting, attempts, uses>>

-----------------------------------------------------------------------------
(* login *)

\* LoginThrottle._count: failures in the window (an identity's: since its last success).
Recent(times) == Cardinality({n \in 1..Len(times) : times[n] + ThrottleWindow > clock})

Throttled(r, i) ==
    \/ Recent(failures[i]) >= IdentityMax
    \/ Recent(clientFailures[Client[r]]) >= ClientMax

\* LoginThrottle.check; the e-mail is in the request's body.
LoginCheck(r, i) ==
    /\ At(r, "login", "start")
    /\ request' = IF Throttled(r, i) THEN [request EXCEPT ![r] = Idle]
                  ELSE [request EXCEPT ![r].pc = "checked", ![r].who = i]
    /\ UNCHANGED <<mix, sent, clock, credentials, sessions, factors, resetting, attempts, uses>>

\* record_failure and record_client_failure.
RecordFailure(r, i) ==
    /\ failures' = [failures EXCEPT ![i] = Append(@, clock)]
    /\ clientFailures' = [clientFailures EXCEPT ![Client[r]] = Append(@, clock)]

\* authenticate: the hash is read and compared with the password p.
LoginVerify(r, p) ==
    LET i == request[r].who IN
    /\ At(r, "login", "checked")
    /\ IF status[i] = "active" /\ password[i].value = p
       THEN /\ request' = [request EXCEPT ![r].pc = "verified", ![r].hash = password[i]]
            /\ UNCHANGED attempts
       ELSE /\ Family("wrong")
            /\ RecordFailure(r, i)
            /\ Done(r)
    /\ UNCHANGED <<mix, sent, clock, credentials, sessions, factors, resetting, uses>>

\* rehash_password: only where the hash that was verified is still stored.
Rehash(r) ==
    /\ At(r, "login", "verified")
    /\ request[r].hash.old
    /\ password' = [password EXCEPT ![request[r].who] =
                        IF @ = request[r].hash THEN [@ EXCEPT !.old = FALSE] ELSE @]
    /\ request' = [request EXCEPT ![r].hash.old = FALSE]
    /\ UNCHANGED <<mix, sent, clock, status, member, privileged, lastSet, sessions, factors,
                   resetting, attempts, uses>>

\* record_success, then access_requirement.
LoginSucceeds(r) ==
    LET i == request[r].who IN
    /\ At(r, "login", "verified")
    /\ failures' = [failures EXCEPT ![i] = <<>>]
    /\ request' = [request EXCEPT ![r].pc = "granted", ![r].need = Requirement(i)]
    /\ UNCHANGED <<mix, sent, clock, credentials, sessions, factors, resetting, clientFailures, uses>>

\* Fault: the identity's status is not looked at.
IssueToAnyone(i, verified) ==
    /\ Len(sessions) < MaxSessions
    /\ sessions' = Append(sessions, NewSession(i, verified, LoginOrg(i), Len(sessions) + 1))

\* SessionStore.issue: nothing for an identity that is no longer active.
Issue(i, verified) ==
    IF status[i] = "active"
    THEN /\ Len(sessions) < MaxSessions
         /\ sessions' = Append(sessions, NewSession(i, verified, LoginOrg(i), Len(sessions) + 1))
    ELSE UNCHANGED sessions

\* SessionStore.rotate: the old row is revoked once and has one successor.
Rotate(s, i, org, verified) ==
    IF status[i] = "active" /\ sessions[s].live
    THEN /\ Len(sessions) < MaxSessions
         /\ sessions' = Append([sessions EXCEPT ![s].live = FALSE],
                               NewSession(i, verified, org, sessions[s].root))
    ELSE UNCHANGED sessions

LoginIssues(r) ==
    LET q == request[r] IN
    /\ At(r, "login", "granted")
    /\ IF q.sid # 0 THEN Rotate(q.sid, q.who, LoginOrg(q.who), q.need = "none")
                    ELSE Issue(q.who, q.need = "none")
    /\ Done(r)
    /\ UNCHANGED <<mix, sent, clock, credentials, factors, resetting, attempts, uses>>

-----------------------------------------------------------------------------
(* logout, the session list and the choice of an organization *)

Revoking(r, ended) ==
    /\ sessions' = RevokeSessions(sessions, OwnSessions(request[r].who) \cap ended)
    /\ Done(r)
    /\ UNCHANGED <<mix, sent, clock, credentials, factors, resetting, attempts, uses>>

Logout(r) == At(r, "logout", "start") /\ Revoking(r, {request[r].sid})

\* revoke_session: one of the caller's own.
RevokeOne(r, t) == At(r, "revoke", "start") /\ Revoking(r, {t})

\* revoke_others: the rows that are there as its statement begins.
ListOthers(r) ==
    /\ At(r, "revoke_others", "start")
    /\ request' = [request EXCEPT ![r].pc = "listed", ![r].seen = Len(sessions)]
    /\ UNCHANGED <<mix, sent, clock, credentials, sessions, factors, resetting, attempts, uses>>

\* Those still live are revoked; the successor of one rotated meanwhile is not among them.
RevokeOthers(r) ==
    /\ At(r, "revoke_others", "listed")
    /\ Revoking(r, (1..request[r].seen) \ {request[r].sid})

\* select_identity_organization; refused when not a member or no longer signed in.
SelectOrganization(r, o) ==
    LET q == request[r] IN
    /\ At(r, "select", "start")
    /\ sessions' = IF o \in member[q.who] /\ sessions[q.sid].live
                   THEN [sessions EXCEPT ![q.sid].org = o] ELSE sessions
    /\ Done(r)
    /\ UNCHANGED <<mix, sent, clock, credentials, factors, resetting, attempts, uses>>

-----------------------------------------------------------------------------
(* TOTP factors *)

\* verify_current_password before an enrollment.
EnrollReauth(r) ==
    /\ At(r, "enroll", "start")
    /\ IF status[request[r].who] = "active" THEN Goes(r, "trusted") ELSE Done(r)
    /\ UNCHANGED <<mix, sent, clock, credentials, sessions, factors, resetting, attempts, uses>>

\* MfaService.enroll: a new pending secret; the recovery codes of other enrollments
\* than the active one are dropped.
Enroll(r) ==
    LET i == request[r].who
        n == Len(enrolled) + 1
    IN
    /\ At(r, "enroll", "trusted")
    /\ n <= MaxEnrollments
    /\ enrolled' = Append(enrolled, i)
    /\ factor' = [factor EXCEPT ![i].pending = n]
    /\ codes' = {c \in codes : enrolled[c] = i => c = factor[i].active} \cup {n}
    /\ Done(r)
    /\ UNCHANGED <<mix, sent, clock, credentials, sessions, consumed, resetting, attempts, uses>>

\* _matched_time_step: the steps around now whose codes a secret's owner can show.
Shown(n, t) == n # 0 /\ t \in {k \in 0..MaxClock + 1 : k <= clock + 1 /\ clock <= k + 1}

\* _record_failure: a window of failures, and a lock at the limit.
FactorFails(i) ==
    LET f == factor[i]
        anew == f.failed = 0 \/ clock - f.since >= FactorWindow
        failed == IF anew THEN 1 ELSE f.failed + 1
    IN [f EXCEPT !.failed = failed, !.since = IF anew THEN clock ELSE f.since,
                 !.until = IF failed >= FactorMax THEN clock + LockDuration ELSE 0]

Locked(i) == factor[i].until > clock

Cleared(f) == [f EXCEPT !.failed = 0, !.since = 0, !.until = 0]

\* _consume_time_step: a step proves something once.
Fresh(i, t) == <<i, t>> \notin consumed

\* confirm: the pending secret n is shown with the code of step t, or wrongly (t = none).
Confirm(r, n, t) ==
    LET i == request[r].who IN
    /\ At(r, "confirm", "start")
    /\ IF factor[i].pending = 0 \/ Locked(i) THEN Done(r) /\ UNCHANGED <<factors, uses>>
       ELSE IF n = factor[i].pending /\ Shown(n, t) /\ Fresh(i, t)
       THEN /\ factor' = [factor EXCEPT ![i] =
                            [Cleared(@) EXCEPT !.active = n, !.pending = 0]]
            /\ codes' = {c \in codes : enrolled[c] = i => c = n}
            /\ consumed' = consumed \cup {<<i, t>>}
            /\ uses' = [uses EXCEPT ![<<"step", i, t>>] = @ + 1]
            /\ Goes(r, "proved")
            /\ UNCHANGED enrolled
       ELSE /\ factor' = [factor EXCEPT ![i] = FactorFails(i)]
            /\ Done(r)
            /\ UNCHANGED <<codes, consumed, enrolled, uses>>
    /\ UNCHANGED <<mix, sent, clock, credentials, sessions, resetting, attempts>>

TotpProves(i, n, t) == n = factor[i].active /\ Shown(n, t) /\ Fresh(i, t)

\* verify, for the request itself or within disable: the code of step t under
\* enrollment n, or n's recovery code.
Prove(r, n, t, recovery, onward) ==
    LET i == request[r].who IN
    /\ IF factor[i].active = 0 \/ Locked(i) THEN Done(r) /\ UNCHANGED <<factors, uses>>
       ELSE IF ~recovery /\ TotpProves(i, n, t)
       THEN /\ consumed' = consumed \cup {<<i, t>>}
            /\ factor' = [factor EXCEPT ![i] = Cleared(@)]
            /\ uses' = [uses EXCEPT ![<<"step", i, t>>] = @ + 1]
            /\ Goes(r, onward)
            /\ UNCHANGED <<codes, enrolled>>
       ELSE IF recovery /\ n = factor[i].active /\ n \in codes
       THEN /\ codes' = codes \ {n}
            /\ factor' = [factor EXCEPT ![i] = Cleared(@)]
            /\ uses' = [uses EXCEPT ![<<"code", i, n>>] = @ + 1]
            /\ Goes(r, onward)
            /\ UNCHANGED <<consumed, enrolled>>
       ELSE /\ factor' = [factor EXCEPT ![i] = FactorFails(i)]
            /\ Done(r)
            /\ UNCHANGED <<codes, consumed, enrolled, uses>>
    /\ UNCHANGED <<mix, sent, clock, credentials, sessions, resetting, attempts>>

Verify(r, n, t, recovery) == At(r, "verify", "start") /\ Prove(r, n, t, recovery, "proved")

\* disable: not while a privileged role is held.
DisableCheck(r) ==
    /\ At(r, "disable", "start")
    /\ IF privileged[request[r].who] > 0 THEN Done(r) ELSE Goes(r, "allowed")
    /\ UNCHANGED <<mix, sent, clock, credentials, sessions, factors, resetting, attempts, uses>>

DisableVerify(r, n, t, recovery) ==
    At(r, "disable", "allowed") /\ Prove(r, n, t, recovery, "removing")

\* The factor's row is deleted; a row that is gone already is a conflict.
RemoveFactor(r) ==
    LET i == request[r].who IN
    /\ At(r, "disable", "removing")
    /\ factor' = [factor EXCEPT ![i] = NoFactor]
    /\ IF factor[i] = NoFactor THEN Done(r) ELSE Goes(r, "proved")
    /\ UNCHANGED <<mix, sent, clock, credentials, sessions, codes, consumed, enrolled, resetting,
                   attempts, uses>>

\* _mfa_completion_response, and disable_mfa's rotation: the session goes on in the
\* organization it had when the request arrived.
CompleteMfa(r) ==
    LET q == request[r] IN
    /\ q.pc = "proved"
    /\ Rotate(q.sid, q.who, q.org, q.op # "disable")
    /\ Done(r)
    /\ UNCHANGED <<mix, sent, clock, credentials, factors, resetting, attempts, uses>>

-----------------------------------------------------------------------------
(* Password resets *)

\* password_reset_rate_limit rows still in the window.
Recorded == {n \in 1..Len(asked) : asked[n].at + ResetWindow >= clock}

\* _record_and_check_rate_limit, after this request's own row.
Limited(r, i) ==
    \/ Cardinality({n \in Recorded : asked[n].who = i}) + 1 > ResetEmailMax
    \/ Cardinality({n \in Recorded : asked[n].client = Client[r]}) + 1 > ResetClientMax

\* pg_advisory_xact_lock on the e-mail's and the address's keys.
KeysFree(r, i) ==
    \A q \in Request \ {r} : At(q, "reset", "retired")
        => request[q].who # i /\ Client[q] # Client[r]

\* request_reset: counted, and unless that is too often the older resets are retired.
AskReset(r, i) ==
    /\ At(r, "reset", "start")
    /\ KeysFree(r, i)
    /\ asked' = Append(SelectSeq(asked, LAMBDA a : a.at + ResetWindow >= clock),
                       [who |-> i, client |-> Client[r], at |-> clock])
    /\ IF Limited(r, i) \/ status[i] = "none"
       THEN Done(r) /\ UNCHANGED resets
       ELSE /\ Len(resets) < MaxResets
            /\ resets' = [n \in DOMAIN resets |->
                            IF resets[n].who = i THEN [resets[n] EXCEPT !.used = TRUE] ELSE resets[n]]
            /\ request' = [request EXCEPT ![r].pc = "retired", ![r].who = i]
    /\ UNCHANGED <<mix, sent, clock, credentials, sessions, factors, attempts, uses>>

\* The new reset and its e-mail are committed; the keys are free again.
SendReset(r) ==
    /\ At(r, "reset", "retired")
    /\ resets' = Append(resets, [who |-> request[r].who, used |-> FALSE,
                                 expires |-> clock + ResetTtl])
    /\ Done(r)
    /\ UNCHANGED <<mix, sent, clock, credentials, sessions, factors, asked, attempts, uses>>

\* The token's row is taken if it is unused and has not expired.
ResetTaken(n) == ~resets[n].used /\ resets[n].expires > clock

\* complete_reset: token, password and every session in one transaction.
CompleteReset(n) ==
    LET i == resets[n].who IN
    /\ Sends("reset")
    /\ ResetTaken(n)
    /\ lastSet[i] < MaxPasswords
    /\ resets' = [resets EXCEPT ![n].used = TRUE]
    /\ lastSet' = [lastSet EXCEPT ![i] = @ + 1]
    /\ password' = [password EXCEPT ![i] = [value |-> lastSet[i] + 1, old |-> FALSE]]
    /\ sessions' = RevokeAll(i)
    /\ uses' = [uses EXCEPT ![<<"reset", i, n>>] = @ + 1]
    /\ UNCHANGED <<mix, clock, status, member, privileged, factors, asked, attempts, request>>

-----------------------------------------------------------------------------
Tick ==
    /\ Family("clock")
    /\ clock < MaxClock
    /\ clock' = clock + 1
    /\ UNCHANGED <<mix, sent, credentials, sessions, factors, resetting, attempts, request, uses>>

\* Every step of a request that needs no other component.
SessionStep(r) ==
    \/ \E op \in SessionOps, s \in Sid : Arrive(r, op, s)
    \/ \E op \in {"login", "reset", "accept"} : ArriveAnonymously(r, op)
    \/ \E i \in Identity : LoginCheck(r, i) \/ AskReset(r, i)
    \/ \E p \in 1..MaxPasswords : LoginVerify(r, p)
    \/ Rehash(r) \/ LoginSucceeds(r) \/ LoginIssues(r)
    \/ Logout(r) \/ ListOthers(r) \/ RevokeOthers(r)
    \/ \E s \in Sid : RevokeOne(r, s)
    \/ \E o \in Org : SelectOrganization(r, o)
    \/ EnrollReauth(r) \/ Enroll(r) \/ DisableCheck(r) \/ RemoveFactor(r) \/ CompleteMfa(r)
    \/ \E n \in 0..Len(enrolled), t \in 0..MaxClock + 1 :
        \/ Confirm(r, n, t)
        \/ \E recovery \in BOOLEAN : Verify(r, n, t, recovery) \/ DisableVerify(r, n, t, recovery)
    \/ SendReset(r)

SessionNext ==
    \/ \E r \in Request : SessionStep(r)
    \/ \E n \in 1..Len(resets) : CompleteReset(n)
    \/ Tick
=============================================================================
