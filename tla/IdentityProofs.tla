---------------------------- MODULE IdentityProofs ----------------------------
(***************************************************************************)
(* Credentials, sessions, roles and invitations for any identities,        *)
(* organizations, requests, limits and lifetimes: what a live session      *)
(* rests on, what proves something once, and the counter of privileged     *)
(* grants.                                                                 *)
(*                                                                         *)
(* The invariant falls into parts that change together, each with a lemma  *)
(* that says which steps write it: roles, invitations, passwords,          *)
(* requests, sessions, resets, and the uses of credentials.  Neither       *)
(* factors nor throttles nor the clock matter to it.                       *)
(*                                                                         *)
(* The last section is about Access: the rows the queries read from a      *)
(* target upwards are the scopes that contain it, so a decision, the       *)
(* holders of a permission and what a scope tells of itself agree.         *)
(***************************************************************************)
EXTENDS Identity, Access, FiniteSetTheorems, WellFoundedInduction, TLAPS

-----------------------------------------------------------------------------
(* Roles: the counter and the grants are written together.                   *)

RolesOK ==
    /\ grants \subseteq Identity \X Org \X Role /\ IsFiniteSet(grants)
    /\ privileged \in [Identity -> Nat]
    /\ CountMatchesGrants

\* The grants an identity's counter counts.
Counted(all, i) == {g \in all : g[1] = i /\ g[3] \in MfaRole}

LEMMA CountedIs == \A all, i : PrivilegedIn(all, i) = Cardinality(Counted(all, i))
  BY DEF PrivilegedIn, Counted

LEMMA CountedFinite ==
    ASSUME NEW all, IsFiniteSet(all), NEW i
    PROVE  IsFiniteSet(Counted(all, i)) /\ PrivilegedIn(all, i) \in Nat
<1>1. Counted(all, i) \subseteq all
  BY DEF Counted
<1>2. IsFiniteSet(Counted(all, i))
  BY <1>1, FS_Subset
<1>3. QED
  BY <1>2, CountedIs, FS_CardinalityType

\* One grant more, or one less, counts for its own identity alone.
LEMMA CountedAdded ==
    ASSUME NEW all, IsFiniteSet(all), NEW g, g \notin all, NEW j
    PROVE  PrivilegedIn(all \cup {g}, j) =
             PrivilegedIn(all, j) + IF g[1] = j /\ g[3] \in MfaRole THEN 1 ELSE 0
<1>1. CASE g[1] = j /\ g[3] \in MfaRole
  <2>1. Counted(all \cup {g}, j) = Counted(all, j) \cup {g} /\ g \notin Counted(all, j)
    BY <1>1 DEF Counted
  <2>2. Cardinality(Counted(all, j) \cup {g}) = Cardinality(Counted(all, j)) + 1
    BY <2>1, CountedFinite, FS_AddElement
  <2>3. QED
    BY <1>1, <2>1, <2>2, CountedIs
<1>2. CASE ~(g[1] = j /\ g[3] \in MfaRole)
  <2>1. Counted(all \cup {g}, j) = Counted(all, j)
    BY <1>2 DEF Counted
  <2>2. PrivilegedIn(all, j) \in Nat
    BY CountedFinite
  <2>3. QED
    BY <1>2, <2>1, <2>2, CountedIs
<1>3. QED
  BY <1>1, <1>2

LEMMA GrantKeepsRoles ==
    ASSUME RolesOK, NEW i \in Identity, NEW o \in Org, NEW role \in Role, Grants(i, o, role)
    PROVE  RolesOK'
<1>1. PICK g : g = <<i, o, role>>
  OBVIOUS
<1>2. g[1] = i /\ g[3] = role /\ g \in Identity \X Org \X Role
  BY <1>1
<1>3. CASE g \in grants
  <2>1. grants' = grants /\ privileged' = privileged
    BY <1>1, <1>3 DEF Grants
  <2>2. QED
    BY <2>1 DEF RolesOK, CountMatchesGrants
<1>4. CASE g \notin grants
  <2>1. grants' = grants \cup {g} /\ privileged' = Adjusted(i, role, 1)
    BY <1>1, <1>4 DEF Grants
  <2>2. grants' \subseteq Identity \X Org \X Role /\ IsFiniteSet(grants')
    BY <1>2, <2>1, FS_AddElement DEF RolesOK
  <2>3. ASSUME NEW j \in Identity
        PROVE  privileged'[j] = privileged[j] + IF g[1] = j /\ g[3] \in MfaRole THEN 1 ELSE 0
    <3>1. CASE role \in MfaRole
      <4>1. privileged' = [privileged EXCEPT ![i] = privileged[i] + 1]
        BY <2>1, <3>1 DEF Adjusted
      <4>2. QED
        BY <1>2, <3>1, <4>1 DEF RolesOK
    <3>2. CASE role \notin MfaRole
      BY <1>2, <2>1, <3>2 DEF Adjusted, RolesOK
    <3>3. QED
      BY <3>1, <3>2
  <2>4. privileged' \in [Identity -> Nat]
    BY <2>1 DEF Adjusted, RolesOK
  <2>5. ASSUME NEW j \in Identity PROVE privileged'[j] = PrivilegedIn(grants', j)
    BY <1>4, <2>1, <2>3, CountedAdded DEF RolesOK, CountMatchesGrants
  <2>6. QED
    BY <2>2, <2>4, <2>5 DEF RolesOK, CountMatchesGrants
<1>5. QED
  BY <1>3, <1>4

LEMMA RevokeKeepsRoles ==
    ASSUME RolesOK, NEW i \in Identity, NEW o \in Org, NEW role \in Role, RevokeRole(i, o, role)
    PROVE  RolesOK'
<1>1. PICK g : g = <<i, o, role>>
  OBVIOUS
<1>2. PICK rest : g[1] = i /\ g[3] = role /\ rest = grants \ {g}
  BY <1>1
<1>3. /\ grants' = rest /\ g \in grants /\ grants = rest \cup {g} /\ g \notin rest
      /\ rest \subseteq grants
      /\ role \in MfaRole => privileged[i] > 0
      /\ privileged' = IF role \in MfaRole THEN [privileged EXCEPT ![i] = @ - 1] ELSE privileged
  BY <1>1, <1>2 DEF RevokeRole
<1>4. IsFiniteSet(rest) /\ rest \subseteq Identity \X Org \X Role
  BY <1>3, FS_Subset DEF RolesOK
<1>5. ASSUME NEW j \in Identity
      PROVE  /\ PrivilegedIn(rest, j) \in Nat
             /\ privileged[j] =
                  PrivilegedIn(rest, j) + IF g[1] = j /\ g[3] \in MfaRole THEN 1 ELSE 0
  BY <1>3, <1>4, CountedAdded, CountedFinite DEF RolesOK, CountMatchesGrants
<1>6. ASSUME NEW j \in Identity
      PROVE  privileged'[j] = privileged[j] - IF g[1] = j /\ g[3] \in MfaRole THEN 1 ELSE 0
  <2>1. CASE role \in MfaRole
    <3>1. privileged' = [privileged EXCEPT ![i] = privileged[i] - 1]
      BY <1>3, <2>1
    <3>2. QED
      BY <1>2, <2>1, <3>1 DEF RolesOK
  <2>2. CASE role \notin MfaRole
    BY <1>2, <1>3, <2>2 DEF RolesOK
  <2>3. QED
    BY <2>1, <2>2
<1>7. ASSUME NEW j \in Identity PROVE privileged'[j] = PrivilegedIn(rest, j)
  BY <1>5, <1>6
<1>8. privileged' \in [Identity -> Nat]
  BY <1>3 DEF RolesOK
<1>9. QED
  BY <1>3, <1>4, <1>7, <1>8 DEF RolesOK, CountMatchesGrants

LEMMA RolesStart == ASSUME Init PROVE RolesOK
<1>1. grants = Bootstrapped /\ privileged = [i \in Identity |-> PrivilegedIn(grants, i)]
  BY DEF Init
<1>2. PICK f : f = [o \in Org |-> <<Admin, o, AdminRole>>]
  OBVIOUS
<1>3. f \in Surjection(Org, Bootstrapped)
  BY <1>2 DEF Bootstrapped, Surjection
<1>4. IsFiniteSet(Bootstrapped)
  <2>1. IsFiniteSet(Org)
    BY SessionsAssumption DEF SessionsAssumption
  <2>2. QED
    BY <1>3, <2>1, FS_Surjection
<1>5. Bootstrapped \subseteq Identity \X Org \X Role
  BY IdentityAssumption DEF Bootstrapped, IdentityAssumption
<1>6. IsFiniteSet(grants) /\ \A i \in Identity : PrivilegedIn(grants, i) \in Nat
  BY <1>1, <1>4, CountedFinite
<1>7. QED
  BY <1>1, <1>5, <1>6 DEF RolesOK, CountMatchesGrants

-----------------------------------------------------------------------------
(* The clock and the tables whose rows only their own steps write.           *)

TablesOK ==
    /\ clock \in Nat
    /\ status \in [Identity -> {"none", "active", "deactivated"}]
    /\ member \in [Identity -> SUBSET Org]

Password == [value : Nat, old : BOOLEAN]

PasswordsOK ==
    /\ password \in [Identity -> Password]
    /\ lastSet \in [Identity -> Nat]
    /\ LastPasswordStands

\* An identity is given a password, or the one it has is stored anew.
LEMMA PasswordSet ==
    ASSUME PasswordsOK, NEW i \in Identity, NEW p \in Password,
           password' = [password EXCEPT ![i] = p],
           lastSet' = [lastSet EXCEPT ![i] = p.value]
    PROVE  PasswordsOK'
  BY DEF PasswordsOK, Password, LastPasswordStands

LEMMA RehashKeepsPasswords ==
    ASSUME PasswordsOK, NEW r, request[r].who \in Identity, Rehash(r)
    PROVE  PasswordsOK'
<1>1. PICK i \in Identity : i = request[r].who
  OBVIOUS
<1>2. PICK p : p = IF password[i] = request[r].hash THEN [password[i] EXCEPT !.old = FALSE]
                   ELSE password[i]
  OBVIOUS
<1>3. password' = [password EXCEPT ![i] = p] /\ lastSet' = lastSet
  BY <1>1, <1>2 DEF Rehash
<1>4. p \in Password /\ p.value = lastSet[i]
  BY <1>2 DEF PasswordsOK, Password, LastPasswordStands
<1>5. lastSet' = [lastSet EXCEPT ![i] = p.value]
  BY <1>3, <1>4 DEF PasswordsOK
<1>6. QED
  BY <1>3, <1>4, <1>5, PasswordSet

-----------------------------------------------------------------------------
(* Invitations: a token is of the last sending, an acceptance of a used      *)
(* invitation.                                                               *)

Invitation == [org : Org, who : Identity, role : Role, state : {"open", "withdrawn", "used"},
               expires : Nat, sent : Nat]

TokensAreLast ==
    \A t \in tokens : t[1] \in DOMAIN invitations /\ t[2] = invitations[t[1]].sent

InvitesOK ==
    /\ invitations \in Seq(Invitation)
    /\ TokensAreLast
    /\ \A a \in accepted : a[1] \in DOMAIN invitations
    /\ AcceptedOnce

\* What a step other than an acceptance leaves of the invitations there were.
StillUsed(n) ==
    invitations[n].state = "used"
        => invitations'[n].state = "used" /\ invitations'[n].sent = invitations[n].sent

LEMMA InvitesGoOn ==
    ASSUME InvitesOK, accepted' = accepted, invitations' \in Seq(Invitation), TokensAreLast',
           DOMAIN invitations \subseteq DOMAIN invitations',
           \A n \in DOMAIN invitations : StillUsed(n)
    PROVE  InvitesOK'
<1>1. AcceptedOnce'
  BY Zenon DEF AcceptedOnce, InvitesOK, StillUsed
<1>2. QED
  BY <1>1 DEF InvitesOK

LEMMA WithdrawKeepsInvites ==
    ASSUME InvitesOK, NEW n \in DOMAIN invitations, Withdraw(n)
    PROVE  InvitesOK'
<1>1. PICK row : row = [invitations[n] EXCEPT !.state = "withdrawn"]
  OBVIOUS
<1>2. /\ invitations' = [invitations EXCEPT ![n] = row]
      /\ tokens' = Discarded(n) /\ accepted' = accepted /\ Open(n)
  BY <1>1 DEF Withdraw
<1>3. row \in Invitation /\ row.sent = invitations[n].sent
  <2>1. invitations[n] \in Invitation
    BY DEF InvitesOK
  <2>2. QED
    BY <1>1, <2>1 DEF Invitation
<1>4. invitations' \in Seq(Invitation) /\ DOMAIN invitations' = DOMAIN invitations
  BY <1>2, <1>3 DEF InvitesOK
<1>5. \A m \in DOMAIN invitations : invitations'[m].sent = invitations[m].sent /\ StillUsed(m)
  BY <1>2, <1>3 DEF InvitesOK, Open, StillUsed
<1>6. TokensAreLast'
  BY <1>2, <1>4, <1>5 DEF Discarded, TokensAreLast, InvitesOK
<1>7. QED
  BY <1>2, <1>4, <1>5, <1>6, InvitesGoOn

LEMMA ResendKeepsInvites ==
    ASSUME InvitesOK, TablesOK, NEW n \in DOMAIN invitations, Resend(n)
    PROVE  InvitesOK'
<1>1. PICK row : row = [invitations[n] EXCEPT !.sent = invitations[n].sent + 1,
                                              !.expires = clock + InvitationTtl]
  OBVIOUS
<1>2. PICK k : k = <<n, invitations[n].sent + 1>>
  OBVIOUS
<1>3. /\ invitations' = [invitations EXCEPT ![n] = row]
      /\ tokens' = Discarded(n) \cup {k} /\ accepted' = accepted /\ Open(n)
  BY <1>1, <1>2 DEF Resend
<1>4. row \in Invitation /\ k[1] = n /\ k[2] = row.sent
  <2>1. invitations[n] \in Invitation
    BY DEF InvitesOK
  <2>2. clock + InvitationTtl \in Nat
    BY IdentityAssumption DEF TablesOK, IdentityAssumption
  <2>3. invitations[n].sent + 1 \in Nat
    BY <2>1 DEF Invitation
  <2>4. row \in Invitation /\ row.sent = invitations[n].sent + 1
    BY <1>1, <2>1, <2>2, <2>3 DEF Invitation
  <2>5. QED
    BY <1>2, <2>4
<1>5. invitations' \in Seq(Invitation) /\ DOMAIN invitations' = DOMAIN invitations
  BY <1>3, <1>4 DEF InvitesOK
<1>6. \A m \in DOMAIN invitations :
        /\ m # n => invitations'[m] = invitations[m]
        /\ m = n => invitations'[m] = row
        /\ StillUsed(m)
  BY <1>3, <1>4 DEF InvitesOK, Open, StillUsed
<1>7. TokensAreLast'
  BY <1>3, <1>4, <1>5, <1>6 DEF Discarded, TokensAreLast, InvitesOK
<1>8. QED
  BY <1>3, <1>5, <1>6, <1>7, InvitesGoOn

LEMMA IssueKeepsInvites ==
    ASSUME InvitesOK, TablesOK, NEW o \in Org, NEW i \in Identity, NEW role \in Role,
           IssueInvitation(o, i, role)
    PROVE  InvitesOK'
<1>1. PICK mine : mine = {n \in DOMAIN invitations :
                    Open(n) /\ invitations[n].who = i /\ invitations[n].org = o}
  OBVIOUS
<1>2. PICK base : base = [n \in DOMAIN invitations |->
                IF n \in mine THEN [invitations[n] EXCEPT !.state = "withdrawn"]
                ELSE invitations[n]]
  OBVIOUS
<1>3. PICK row, k : /\ row = [org |-> o, who |-> i, role |-> role, state |-> "open",
                              expires |-> clock + InvitationTtl, sent |-> 0]
                    /\ k = <<Len(invitations) + 1, 0>>
  OBVIOUS
<1>4. /\ invitations' = Append(base, row)
      /\ tokens' = {t \in tokens : t[1] \notin mine} \cup {k}
      /\ accepted' = accepted
  BY <1>1, <1>2, <1>3 DEF IssueInvitation
<1>5. row \in Invitation /\ row.sent = 0 /\ k[1] = Len(invitations) + 1 /\ k[2] = 0
  <2>1. clock + InvitationTtl \in Nat
    BY IdentityAssumption DEF TablesOK, IdentityAssumption
  <2>2. QED
    BY <1>3, <2>1 DEF Invitation
<1>6. \A n \in DOMAIN invitations :
        /\ base[n] \in Invitation /\ base[n].sent = invitations[n].sent
        /\ invitations[n].state = "used" => base[n].state = "used"
  <2>1. ASSUME NEW n \in DOMAIN invitations
        PROVE  /\ base[n] \in Invitation /\ base[n].sent = invitations[n].sent
               /\ invitations[n].state = "used" => base[n].state = "used"
    <3>1. invitations[n] \in Invitation
      BY DEF InvitesOK
    <3>2. CASE n \in mine
      <4>1. base[n] = [invitations[n] EXCEPT !.state = "withdrawn"] /\ Open(n)
        BY <1>1, <1>2, <3>2
      <4>2. QED
        BY <3>1, <4>1 DEF Invitation, Open
    <3>3. CASE n \notin mine
      BY <1>2, <3>1, <3>3
    <3>4. QED
      BY <3>2, <3>3
  <2>2. QED
    BY <2>1
<1>7. base \in Seq(Invitation) /\ Len(base) = Len(invitations)
  <2>1. base \in [1..Len(invitations) -> Invitation] /\ Len(invitations) \in Nat
    BY <1>2, <1>6 DEF InvitesOK
  <2>2. QED
    BY <2>1
<1>8. /\ invitations' \in Seq(Invitation) /\ DOMAIN invitations' = 1..Len(invitations) + 1
      /\ invitations'[Len(invitations) + 1] = row
      /\ \A n \in DOMAIN invitations : invitations'[n] = base[n]
      /\ DOMAIN invitations = 1..Len(invitations) /\ Len(invitations) \in Nat
  BY <1>4, <1>5, <1>7 DEF InvitesOK
<1>9. DOMAIN invitations \subseteq DOMAIN invitations' /\ \A n \in DOMAIN invitations : StillUsed(n)
  BY <1>6, <1>8 DEF StillUsed
<1>10. TokensAreLast'
  <2>1. ASSUME NEW t \in tokens
        PROVE  t[1] \in DOMAIN invitations' /\ t[2] = invitations'[t[1]].sent
    BY <1>6, <1>8 DEF TokensAreLast, InvitesOK
  <2>2. k[1] \in DOMAIN invitations' /\ k[2] = invitations'[k[1]].sent
    BY <1>5, <1>8
  <2>3. QED
    BY <1>4, <2>1, <2>2 DEF TokensAreLast
<1>11. QED
  BY <1>4, <1>8, <1>9, <1>10, InvitesGoOn

-----------------------------------------------------------------------------
(* Sessions, as a sequence with the identities' status and membership: what  *)
(* keeps a sequence fit when it is weakened or extended.                     *)

Session == [who : Identity, live : BOOLEAN, idle : Nat, until : Nat, auth : Nat,
            verified : BOOLEAN, org : Org \cup {NoOrg}, root : Nat]

SessionsFit(ss, st, mem) ==
    /\ ss \in Seq(Session)
    /\ \A s \in 1..Len(ss) : ss[s].live => st[ss[s].who] # "deactivated"
    /\ \A s \in 1..Len(ss) : ss[s].org \in mem[ss[s].who] \cup {NoOrg}
    /\ \A s \in 1..Len(ss) : ss[s].root \in 1..s
    /\ \A s, t \in 1..Len(ss) : ss[s].live /\ ss[t].live /\ ss[s].root = ss[t].root => s = t

SessionsOK == SessionsFit(sessions, status, member)

\* Rows are added, and a row stays its identity's.
SameOwners(ss, tt) ==
    /\ Len(ss) \in Nat /\ Len(tt) \in Nat /\ Len(ss) <= Len(tt)
    /\ \A s \in 1..Len(ss) : tt[s].who = ss[s].who

\* Row b stands where row a stood, no more alive than it was.
NoMoreAlive(a, b) == b.who = a.who /\ b.root = a.root /\ (b.live => a.live)

\* And the tables leave it in order.
NoWorse(ss, tt, st, mem) ==
    /\ tt \in [1..Len(ss) -> Session]
    /\ \A s \in 1..Len(ss) :
         /\ NoMoreAlive(ss[s], tt[s])
         /\ tt[s].live => st[ss[s].who] # "deactivated"
         /\ tt[s].org \in mem[ss[s].who] \cup {NoOrg}

LEMMA Weakened ==
    ASSUME NEW ss, NEW st, NEW mem, SessionsFit(ss, st, mem),
           NEW tt, NEW sst, NEW mmem, NoWorse(ss, tt, sst, mmem)
    PROVE  SessionsFit(tt, sst, mmem) /\ SameOwners(ss, tt)
<1> USE DEF NoWorse
<1>1. Len(ss) \in Nat
  BY DEF SessionsFit
<1>2. tt \in Seq(Session) /\ Len(tt) = Len(ss)
  BY <1>1
<1>3. ASSUME NEW s \in 1..Len(ss), NEW t \in 1..Len(ss), tt[s].live, tt[t].live,
             tt[s].root = tt[t].root
      PROVE  s = t
  BY <1>3 DEF SessionsFit, NoMoreAlive
<1>4. \A s \in 1..Len(ss) : tt[s].root \in 1..s
  BY DEF SessionsFit, NoMoreAlive
<1>5. QED
  BY <1>1, <1>2, <1>3, <1>4 DEF SessionsFit, SameOwners, NoMoreAlive

LEMMA Extended ==
    ASSUME NEW ss, NEW st, NEW mem, SessionsFit(ss, st, mem), NEW n \in Session,
           st[n.who] # "deactivated", n.org \in mem[n.who] \cup {NoOrg},
           n.root \in 1..Len(ss) + 1, \A s \in 1..Len(ss) : ss[s].live => ss[s].root # n.root,
           NEW tt, tt = Append(ss, n)
    PROVE  SessionsFit(tt, st, mem) /\ SameOwners(ss, tt)
<1>1. /\ tt \in Seq(Session) /\ Len(ss) \in Nat /\ Len(tt) = Len(ss) + 1
      /\ \A s \in 1..Len(ss) : tt[s] = ss[s]
      /\ tt[Len(ss) + 1] = n
  BY DEF SessionsFit
<1>2. \A s \in 1..Len(tt) : s \in 1..Len(ss) \/ s = Len(ss) + 1
  BY <1>1
<1>3. ASSUME NEW s \in 1..Len(tt), NEW t \in 1..Len(tt), tt[s].live, tt[t].live,
             tt[s].root = tt[t].root
      PROVE  s = t
  BY <1>1, <1>2, <1>3 DEF SessionsFit
<1>4. ASSUME NEW s \in 1..Len(tt)
      PROVE  /\ tt[s].live => st[tt[s].who] # "deactivated"
             /\ tt[s].org \in mem[tt[s].who] \cup {NoOrg}
             /\ tt[s].root \in 1..s
  BY <1>1, <1>2 DEF SessionsFit
<1>5. QED
  BY <1>1, <1>3, <1>4 DEF SessionsFit, SameOwners

LEMMA SameFit == SessionsOK => SameOwners(sessions, sessions)
  BY DEF SessionsOK, SessionsFit, SameOwners

LEMMA ASession == SessionsOK => Len(sessions) \in Nat /\ \A s \in Sid : sessions[s] \in Session
  BY DEF SessionsOK, SessionsFit, Sid

Replaced(s, row) == [sessions EXCEPT ![s] = row]

\* One row is replaced by a row no more alive.
LEMMA OneWeakened ==
    ASSUME SessionsOK, NEW s \in Sid, NEW row \in Session, NoMoreAlive(sessions[s], row),
           row.org \in member[row.who] \cup {NoOrg}, NEW tt, tt = Replaced(s, row)
    PROVE  /\ SessionsFit(tt, status, member) /\ SameOwners(sessions, tt)
           /\ Len(tt) = Len(sessions) /\ tt[s] = row
           /\ \A t \in Sid : t # s => tt[t] = sessions[t]
<1>1. Len(sessions) \in Nat /\ sessions \in [1..Len(sessions) -> Session]
  BY DEF SessionsOK, SessionsFit
<1>2. /\ tt \in [1..Len(sessions) -> Session] /\ tt[s] = row
      /\ \A t \in Sid : t # s => tt[t] = sessions[t]
  BY <1>1 DEF Sid, Replaced
<1>3. ASSUME NEW t \in 1..Len(sessions)
      PROVE  /\ NoMoreAlive(sessions[t], tt[t])
             /\ tt[t].live => status[sessions[t].who] # "deactivated"
             /\ tt[t].org \in member[sessions[t].who] \cup {NoOrg}
  BY <1>2 DEF SessionsOK, SessionsFit, NoMoreAlive, Sid
<1>4. SessionsFit(tt, status, member) /\ SameOwners(sessions, tt)
  <2>1. NoWorse(sessions, tt, status, member) /\ SessionsFit(sessions, status, member)
    BY <1>2, <1>3 DEF SessionsOK, NoWorse
  <2>2. QED
    BY <2>1, Weakened
<1>5. QED
  BY <1>1, <1>2, <1>4

\* The ended sessions are no longer alive; the others' identities are as they were.
LEMMA RevokedFits ==
    ASSUME SessionsOK, NEW ended, NEW st,
           \A s \in Sid : s \notin ended => st[sessions[s].who] = status[sessions[s].who],
           NEW tt, tt = RevokeSessions(sessions, ended)
    PROVE  SessionsFit(tt, st, member) /\ SameOwners(sessions, tt)
<1>1. Len(sessions) \in Nat /\ DOMAIN sessions = Sid
  BY DEF SessionsOK, SessionsFit, Sid
<1>2. ASSUME NEW s \in Sid
      PROVE  /\ tt[s] \in Session /\ NoMoreAlive(sessions[s], tt[s])
             /\ tt[s].live => s \notin ended
             /\ tt[s].org = sessions[s].org
  <2>1. sessions[s] \in Session
    BY ASession
  <2>2. tt[s] = IF s \in ended THEN [sessions[s] EXCEPT !.live = FALSE] ELSE sessions[s]
    BY <1>1 DEF RevokeSessions
  <2>3. QED
    BY <2>1, <2>2 DEF Session, NoMoreAlive
<1>3. tt \in [1..Len(sessions) -> Session]
  BY <1>1, <1>2 DEF RevokeSessions, Sid
<1>4. ASSUME NEW s \in 1..Len(sessions)
      PROVE  /\ NoMoreAlive(sessions[s], tt[s])
             /\ tt[s].live => st[sessions[s].who] # "deactivated"
             /\ tt[s].org \in member[sessions[s].who] \cup {NoOrg}
  BY <1>2 DEF SessionsOK, SessionsFit, NoMoreAlive, Sid
<1>5. NoWorse(sessions, tt, st, member) /\ SessionsFit(sessions, status, member)
  BY <1>3, <1>4 DEF SessionsOK, NoWorse
<1>6. QED
  BY <1>5, Weakened

LEMMA ANewSession ==
    ASSUME TablesOK, NEW i \in Identity, NEW verified \in BOOLEAN, NEW org \in Org \cup {NoOrg},
           NEW root \in Nat, NEW n, n = NewSession(i, verified, org, root)
    PROVE  n \in Session /\ n.who = i /\ n.org = org /\ n.root = root
<1>1. clock + IdleTimeout \in Nat /\ clock + AbsoluteTimeout \in Nat /\ clock \in Nat
  BY SessionsAssumption DEF SessionsAssumption, TablesOK
<1>2. QED
  BY <1>1 DEF NewSession, Session

LEMMA LoginOrgIsMember ==
    ASSUME TablesOK, NEW i \in Identity
    PROVE  LoginOrg(i) \in member[i] \cup {NoOrg} /\ LoginOrg(i) \in Org \cup {NoOrg}
<1>1. member[i] = {} => Cardinality(member[i]) = 0
  BY FS_EmptySet
<1>2. QED
  BY <1>1 DEF LoginOrg, TablesOK

LEMMA IssueFits ==
    ASSUME SessionsOK, TablesOK, NEW i \in Identity, NEW verified \in BOOLEAN, Issue(i, verified)
    PROVE  SessionsFit(sessions', status, member) /\ SameOwners(sessions, sessions')
<1>1. CASE status[i] = "active"
  <2>1. PICK n : n = NewSession(i, verified, LoginOrg(i), Len(sessions) + 1)
    OBVIOUS
  <2>2. sessions' = Append(sessions, n)
    BY <1>1, <2>1 DEF Issue
  <2>3. Len(sessions) \in Nat
    BY ASession
  <2>4. n \in Session /\ n.who = i /\ n.org \in member[i] \cup {NoOrg} /\ n.root = Len(sessions) + 1
    BY <2>1, <2>3, ANewSession, LoginOrgIsMember
  <2>5. \A s \in 1..Len(sessions) : sessions[s].root # n.root
    BY <2>3, <2>4 DEF SessionsOK, SessionsFit
  <2>6. status[n.who] # "deactivated" /\ n.org \in member[n.who] \cup {NoOrg}
    BY <1>1, <2>4
  <2>7. n.root \in 1..Len(sessions) + 1
    BY <2>3, <2>4
  <2>8. SessionsFit(sessions, status, member)
    BY DEF SessionsOK
  <2>9. QED
    BY <2>2, <2>4, <2>5, <2>6, <2>7, <2>8, Extended
<1>2. CASE status[i] # "active"
  BY <1>2, SameFit DEF Issue, SessionsOK
<1>3. QED
  BY <1>1, <1>2

LEMMA RotateFits ==
    ASSUME SessionsOK, TablesOK, NEW s \in Sid, NEW i \in Identity, NEW verified \in BOOLEAN,
           NEW org \in member[i] \cup {NoOrg}, Rotate(s, i, org, verified)
    PROVE  SessionsFit(sessions', status, member) /\ SameOwners(sessions, sessions')
<1>1. CASE status[i] = "active" /\ sessions[s].live
  <2>1. PICK row, n : /\ row = [sessions[s] EXCEPT !.live = FALSE]
                      /\ n = NewSession(i, verified, org, sessions[s].root)
    OBVIOUS
  <2>2. PICK tt : tt = Replaced(s, row)
    OBVIOUS
  <2>3. sessions' = Append(tt, n)
    BY <1>1, <2>1, <2>2 DEF Rotate, Replaced
  <2>4. sessions[s] \in Session /\ sessions[s].root \in Nat
    BY ASession DEF Session
  <2>5. row \in Session /\ NoMoreAlive(sessions[s], row) /\ row.org = sessions[s].org /\ ~row.live
    BY <2>1, <2>4 DEF Session, NoMoreAlive
  <2>6. row.org \in member[row.who] \cup {NoOrg}
    BY <2>5 DEF SessionsOK, SessionsFit, Sid, NoMoreAlive
  <2>7. /\ SessionsFit(tt, status, member) /\ SameOwners(sessions, tt)
        /\ Len(tt) = Len(sessions) /\ tt[s] = row
        /\ \A t \in Sid : t # s => tt[t] = sessions[t]
    BY <2>2, <2>5, <2>6, OneWeakened
  <2>8. org \in Org \cup {NoOrg}
    BY DEF TablesOK
  <2>9. n \in Session /\ n.who = i /\ n.org = org /\ n.root = sessions[s].root
    BY <2>1, <2>4, <2>8, ANewSession
  <2>10. n.root \in 1..Len(tt) + 1
    BY <2>7, <2>9, ASession DEF SessionsOK, SessionsFit, Sid
  <2>11. \A t \in 1..Len(tt) : tt[t].live => tt[t].root # n.root
    BY <1>1, <2>5, <2>7, <2>9 DEF SessionsOK, SessionsFit, Sid
  <2>12. SessionsFit(sessions', status, member) /\ SameOwners(tt, sessions')
    BY <1>1, <2>3, <2>7, <2>9, <2>10, <2>11, Extended
  <2>13. SameOwners(sessions, sessions')
    BY <2>7, <2>12 DEF SameOwners
  <2>14. QED
    BY <2>12, <2>13
<1>2. CASE ~(status[i] = "active" /\ sessions[s].live)
  BY <1>2, SameFit DEF Rotate, SessionsOK
<1>3. QED
  BY <1>1, <1>2

-----------------------------------------------------------------------------
(* Requests: what a request that has read its session or a password still    *)
(* knows of them.                                                            *)

Owned == {"enroll", "confirm", "verify", "disable", "logout", "revoke", "revoke_others", "select"}

Ops == SessionOps \cup {"none", "reset"}

Pcs == {"idle", "start", "checked", "verified", "granted", "trusted", "proved", "allowed",
        "removing", "found", "joined", "retired", "listed"}

RequestRow == [op : Ops, pc : Pcs, who : Identity \cup {"nobody"}, sid : Nat,
               org : Org \cup {NoOrg}, hash : Password, token : Nat \X Nat,
               need : {"none", "enroll", "verify"}, seen : Nat]

\* Where a request has settled whom it is about.
Settled == {"checked", "verified", "granted", "retired", "joined"}

RequestOK(q, ss, mem) ==
    /\ q.sid \in 0..Len(ss)
    /\ q.pc \in Settled => q.who \in Identity
    /\ q.op \in Owned =>
        q.sid # 0 /\ q.who = ss[q.sid].who /\ q.org \in mem[q.who] \cup {NoOrg}
    /\ q.pc = "proved" => q.op \in {"confirm", "verify", "disable"}

RequestsOK ==
    /\ request \in [Request -> RequestRow]
    /\ \A r \in Request : RequestOK(request[r], sessions, member)

Moved(r, q) == [request EXCEPT ![r] = q]

MembersStay == \A i \in Identity : member[i] \subseteq member'[i]

\* A request stays right while sessions and memberships are only added.
LEMMA RequestLater ==
    ASSUME SessionsOK, SameOwners(sessions, sessions'), MembersStay,
           NEW q \in RequestRow, RequestOK(q, sessions, member)
    PROVE  RequestOK(q, sessions', member')
<1>1. q.sid \in 0..Len(sessions')
  BY DEF RequestOK, SameOwners
<1>2. ASSUME q.op \in Owned
      PROVE  q.sid # 0 /\ q.who = sessions'[q.sid].who /\ q.org \in member'[q.who] \cup {NoOrg}
  <2>1. q.sid \in Sid /\ q.who = sessions[q.sid].who /\ q.org \in member[q.who] \cup {NoOrg}
    BY <1>2 DEF RequestOK, Sid, SameOwners
  <2>2. sessions[q.sid] \in Session
    BY <2>1, ASession
  <2>3. q.who \in Identity
    BY <2>1, <2>2 DEF Session
  <2>4. sessions'[q.sid].who = sessions[q.sid].who /\ q.sid # 0
    BY <2>1 DEF SameOwners, Sid
  <2>5. QED
    BY <2>1, <2>3, <2>4 DEF MembersStay
<1>3. QED
  BY <1>1, <1>2 DEF RequestOK

LEMMA RequestsStay ==
    ASSUME RequestsOK, SessionsOK, SameOwners(sessions, sessions'), MembersStay,
           request' = request
    PROVE  RequestsOK'
<1>1. ASSUME NEW r \in Request PROVE RequestOK(request[r], sessions', member')
  BY RequestLater DEF RequestsOK
<1>2. QED
  BY <1>1 DEF RequestsOK

LEMMA RequestsMove ==
    ASSUME RequestsOK, SessionsOK, SameOwners(sessions, sessions'), MembersStay,
           NEW r \in Request, NEW q \in RequestRow, RequestOK(q, sessions, member),
           request' = Moved(r, q)
    PROVE  RequestsOK'
<1>1. /\ request' \in [Request -> RequestRow]
      /\ \A t \in Request : request'[t] = IF t = r THEN q ELSE request[t]
  BY DEF RequestsOK, Moved
<1>2. ASSUME NEW t \in Request PROVE RequestOK(request'[t], sessions', member')
  <2>1. RequestOK(request'[t], sessions, member) /\ request'[t] \in RequestRow
    BY <1>1 DEF RequestsOK
  <2>2. QED
    BY <2>1, RequestLater
<1>3. QED
  BY <1>1, <1>2 DEF RequestsOK

LEMMA IdleIsRow ==
    ASSUME SessionsOK
    PROVE  Idle \in RequestRow /\ RequestOK(Idle, sessions, member) /\ Idle.op = "none"
<1>1. PICK h : h = [value |-> 0, old |-> FALSE]
  OBVIOUS
<1>2. PICK k : k = <<0, 0>>
  OBVIOUS
<1>3. h \in Password /\ k \in Nat \X Nat
  BY <1>1, <1>2 DEF Password
<1>4. "none" \in Ops /\ "idle" \in Pcs /\ "none" \notin Owned /\ "idle" \notin Settled
  BY DEF Ops, Pcs, Owned, Settled
<1>5. PICK q : q = Idle
  OBVIOUS
<1>6. q = [op |-> "none", pc |-> "idle", who |-> "nobody", sid |-> 0, org |-> NoOrg,
           hash |-> h, token |-> k, need |-> "none", seen |-> 0]
  BY <1>1, <1>2, <1>5 DEF Idle
<1>7. q \in RequestRow
  BY <1>3, <1>4, <1>6 DEF RequestRow
<1>8. q.op = "none" /\ q.pc = "idle" /\ q.sid = 0
  BY <1>6
<1>9. q.sid \in 0..Len(sessions)
  BY <1>8, ASession
<1>10. RequestOK(q, sessions, member)
  BY <1>4, <1>8, <1>9 DEF RequestOK
<1>11. QED
  BY <1>5, <1>7, <1>8, <1>10

-----------------------------------------------------------------------------
(* Resets: unused ones, and the requests about to send one.                  *)

Reset == [who : Identity, used : BOOLEAN, expires : Nat]

Retired(q) == q.op = "reset" /\ q.pc = "retired"

NoneLive(all, i) == \A n \in 1..Len(all) : all[n].who = i => all[n].used

RetiredApart ==
    \A r, t \in Request :
        Retired(request[r]) /\ Retired(request[t]) /\ request[r].who = request[t].who => r = t

ResetsOK ==
    /\ resets \in Seq(Reset)
    /\ OneLiveReset
    /\ \A r \in Request : Retired(request[r]) => NoneLive(resets, request[r].who)
    /\ RetiredApart

LEMMA ResetsStay ==
    ASSUME ResetsOK, resets' = resets, request' = request
    PROVE  ResetsOK'
  BY DEF ResetsOK, OneLiveReset, RetiredApart

\* A request goes on, but not to send a reset.
LEMMA ResetsGoOn ==
    ASSUME ResetsOK, RequestsOK, resets' = resets, NEW r \in Request, NEW q, ~Retired(q),
           request' = Moved(r, q)
    PROVE  ResetsOK'
<1>1. \A t \in Request : Retired(request'[t]) => t # r /\ request'[t] = request[t]
  BY DEF RequestsOK, Moved
<1>2. RetiredApart'
  BY <1>1 DEF RetiredApart, ResetsOK
<1>3. OneLiveReset' /\ resets' \in Seq(Reset)
  BY DEF OneLiveReset, ResetsOK
<1>4. \A t \in Request : Retired(request'[t]) => NoneLive(resets', request'[t].who)
  BY <1>1 DEF ResetsOK
<1>5. QED
  BY <1>2, <1>3, <1>4 DEF ResetsOK

-----------------------------------------------------------------------------
(* Uses: what has proved something is spent.                                 *)

Spent(c) ==
    /\ c[1] = "step" => <<c[2], c[3]>> \in consumed
    /\ c[1] = "code" => c[3] \in (1..Len(enrolled)) \ codes
    /\ c[1] = "reset" => c[3] \in 1..Len(resets) /\ resets[c[3]].used

UsesOK ==
    /\ uses \in [Credential -> 0..1]
    /\ \A c \in Credential : uses[c] = 1 => Spent(c)
    /\ enrolled \in Seq(Identity)
    /\ codes \subseteq 1..Len(enrolled)

StaysSpent == \A c \in Credential : Spent(c) => Spent(c)'

LEMMA UsesStay ==
    ASSUME UsesOK, uses' = uses, StaysSpent, enrolled' \in Seq(Identity),
           codes' \subseteq 1..Len(enrolled')
    PROVE  UsesOK'
  BY DEF UsesOK, StaysSpent

\* A credential that was not spent proves something, and is.
LEMMA UsesOnce ==
    ASSUME UsesOK, StaysSpent, enrolled' = enrolled, codes' \subseteq codes,
           NEW c, ~Spent(c), Spent(c)', uses' = [uses EXCEPT ![c] = @ + 1]
    PROVE  UsesOK'
<1>1. codes' \subseteq 1..Len(enrolled') /\ enrolled' \in Seq(Identity)
  BY DEF UsesOK
<1>2. ASSUME NEW d \in Credential
      PROVE  uses'[d] \in 0..1 /\ (uses'[d] = 1 => Spent(d)')
  <2>1. CASE d = c
    <3>1. uses[d] = 0
      BY <2>1 DEF UsesOK
    <3>2. uses'[d] = 1
      BY <2>1, <3>1 DEF UsesOK
    <3>3. QED
      BY <2>1, <3>2
  <2>2. CASE d # c
    <3>1. uses'[d] = uses[d]
      BY <2>2 DEF UsesOK
    <3>2. QED
      BY <3>1 DEF UsesOK, StaysSpent
  <2>3. QED
    BY <2>1, <2>2
<1>3. uses' \in [Credential -> 0..1]
  BY <1>2 DEF UsesOK
<1>4. QED
  BY <1>1, <1>2, <1>3 DEF UsesOK

-----------------------------------------------------------------------------
(* The inductive invariant, and the steps that move one request on.          *)

IInv ==
    /\ RolesOK /\ TablesOK /\ PasswordsOK /\ InvitesOK
    /\ SessionsOK /\ RequestsOK /\ ResetsOK /\ UsesOK

LEMMA RolesStay == ASSUME RolesOK, UNCHANGED <<grants, privileged>> PROVE RolesOK'
  BY DEF RolesOK, CountMatchesGrants, PrivilegedIn

LEMMA TablesStay == ASSUME TablesOK, UNCHANGED <<clock, status, member>> PROVE TablesOK'
  BY DEF TablesOK

LEMMA PasswordsStay == ASSUME PasswordsOK, UNCHANGED <<password, lastSet>> PROVE PasswordsOK'
  BY DEF PasswordsOK, LastPasswordStands

LEMMA InvitesStay == ASSUME InvitesOK, UNCHANGED inviting PROVE InvitesOK'
  BY DEF InvitesOK, inviting, TokensAreLast, AcceptedOnce

LEMMA MembersSame == ASSUME UNCHANGED member PROVE MembersStay
  BY DEF MembersStay

LEMMA SessionsStay ==
    ASSUME SessionsFit(sessions', status, member), UNCHANGED <<status, member>>
    PROVE  SessionsOK'
  BY DEF SessionsOK

\* What no step of a request writes unless it says so.
aside == <<clock, credentials, resets, grants, inviting>>

LEMMA AsideKept ==
    ASSUME UNCHANGED aside
    PROVE  /\ UNCHANGED <<grants, privileged>> /\ UNCHANGED <<clock, status, member>>
           /\ UNCHANGED <<password, lastSet>> /\ UNCHANGED inviting /\ UNCHANGED <<status, member>>
           /\ UNCHANGED member /\ resets' = resets
  BY DEF aside, credentials

\* A request goes on, right about what it knows, and not to send a reset.
MovesOn(r) ==
    \E q \in RequestRow : RequestOK(q, sessions, member) /\ ~Retired(q) /\ request' = Moved(r, q)

\* One request goes on; sessions and the uses of credentials are kept right.
LEMMA MoveKeeps ==
    ASSUME IInv, NEW r \in Request, MovesOn(r), UNCHANGED aside,
           SessionsFit(sessions', status, member), SameOwners(sessions, sessions'), UsesOK'
    PROVE  IInv'
<1> USE DEF IInv
<1>1. PICK q \in RequestRow :
        RequestOK(q, sessions, member) /\ ~Retired(q) /\ request' = Moved(r, q)
  BY DEF MovesOn
<1>2. RolesOK' /\ TablesOK' /\ PasswordsOK' /\ InvitesOK'
  BY AsideKept, RolesStay, TablesStay, PasswordsStay, InvitesStay
<1>3. SessionsOK'
  BY AsideKept, SessionsStay
<1>4. RequestsOK'
  BY <1>1, AsideKept, MembersSame, RequestsMove
<1>5. ResetsOK'
  BY <1>1, AsideKept, ResetsGoOn
<1>6. QED
  BY <1>2, <1>3, <1>4, <1>5

proofs == <<uses, codes, consumed, enrolled>>

LEMMA ProofsKept ==
    ASSUME UsesOK, UNCHANGED proofs, UNCHANGED resets
    PROVE  UsesOK'
<1>1. StaysSpent
  BY DEF StaysSpent, Spent, proofs
<1>2. QED
  BY <1>1, UsesStay DEF UsesOK, proofs

\* One request goes on, and sessions are kept right.
LEMMA SessionMoveKeeps ==
    ASSUME IInv, NEW r \in Request, MovesOn(r), UNCHANGED aside, UNCHANGED proofs,
           SessionsFit(sessions', status, member), SameOwners(sessions, sessions')
    PROVE  IInv'
<1>1. UsesOK'
  BY AsideKept, ProofsKept DEF IInv
<1>2. QED
  BY <1>1, MoveKeeps

LEMMA QuietMoveKeeps ==
    ASSUME IInv, NEW r \in Request, MovesOn(r), UNCHANGED aside, UNCHANGED proofs,
           UNCHANGED sessions
    PROVE  IInv'
<1>1. SessionsFit(sessions', status, member) /\ SameOwners(sessions, sessions')
  BY SameFit DEF IInv, SessionsOK
<1>2. QED
  BY <1>1, SessionMoveKeeps

\* A request that is over has let go of everything.
LEMMA DoneMoves ==
    ASSUME IInv, NEW r \in Request, Done(r)
    PROVE  MovesOn(r)
  BY IdleIsRow DEF IInv, Retired, Done, Moved, MovesOn

\* What a request never changes on its way.
Kept(q, n) == n.op = q.op /\ n.sid = q.sid /\ n.org = q.org

LEMMA StillOK ==
    ASSUME NEW q \in RequestRow, RequestOK(q, sessions, member), NEW n \in RequestRow, Kept(q, n),
           n.pc \in Settled => n.who \in Identity, n.op \in Owned => n.who = q.who,
           n.pc = "proved" => n.op \in {"confirm", "verify", "disable"}
    PROVE  RequestOK(n, sessions, member)
  BY DEF RequestOK, Kept

OnwardTo(q, pc) == [q EXCEPT !.pc = pc]

LEMMA OnwardRow ==
    ASSUME NEW q \in RequestRow, NEW pc \in Pcs, NEW n, n = OnwardTo(q, pc)
    PROVE  n \in RequestRow /\ Kept(q, n) /\ n.pc = pc /\ n.who = q.who
  BY DEF OnwardTo, RequestRow, Kept

About(q, pc, i) == [q EXCEPT !.pc = pc, !.who = i]

LEMMA AboutRow ==
    ASSUME NEW q \in RequestRow, NEW pc \in Pcs, NEW i \in Identity, NEW n, n = About(q, pc, i)
    PROVE  n \in RequestRow /\ Kept(q, n) /\ n.pc = pc /\ n.who = i
  BY DEF About, RequestRow, Kept

LEMMA ARequest ==
    ASSUME IInv, NEW r \in Request
    PROVE  request[r] \in RequestRow /\ RequestOK(request[r], sessions, member)
  BY DEF IInv, RequestsOK

\* A request goes on to another place.
LEMMA GoesMoves ==
    ASSUME IInv, NEW r \in Request, NEW pc \in Pcs, Goes(r, pc),
           pc \in Settled => request[r].pc \in Settled, pc # "retired",
           pc = "proved" => request[r].op \in {"confirm", "verify", "disable"}
    PROVE  MovesOn(r)
<1>1. PICK n : n = OnwardTo(request[r], pc)
  OBVIOUS
<1>2. request' = Moved(r, n)
  BY <1>1 DEF Goes, Moved, OnwardTo
<1>3. n \in RequestRow /\ Kept(request[r], n) /\ n.pc = pc /\ n.who = request[r].who
  BY <1>1, ARequest, OnwardRow
<1>4. n.pc \in Settled => n.who \in Identity
  BY <1>3, ARequest DEF RequestOK
<1>5. RequestOK(n, sessions, member)
  BY <1>3, <1>4, ARequest, StillOK DEF Kept
<1>6. QED
  BY <1>2, <1>3, <1>5 DEF Retired, MovesOn

-----------------------------------------------------------------------------
(* The steps of requests, one by one.                                        *)

LEMMA ArriveKeeps ==
    ASSUME IInv, NEW r \in Request, NEW op \in SessionOps, NEW s \in Sid, Arrive(r, op, s),
           UNCHANGED <<grants, inviting>>
    PROVE  IInv'
<1>1. /\ sessions[s] \in Session /\ sessions[s].who \in Identity
      /\ sessions[s].org \in Org \cup {NoOrg}
  BY ASession DEF IInv, Session
<1>2. PICK row : row = [sessions[s] EXCEPT !.idle = Earlier(clock + IdleTimeout, sessions[s].until)]
  OBVIOUS
<1>3. Earlier(clock + IdleTimeout, sessions[s].until) \in Nat
  BY <1>1, SessionsAssumption DEF SessionsAssumption, Earlier, Session, IInv, TablesOK
<1>4. row \in Session /\ NoMoreAlive(sessions[s], row) /\ row.org = sessions[s].org
  BY <1>1, <1>2, <1>3 DEF Session, NoMoreAlive
<1>5. row.org \in member[row.who] \cup {NoOrg}
  BY <1>4 DEF IInv, SessionsOK, SessionsFit, Sid, NoMoreAlive
<1>6. sessions' = Replaced(s, row)
  BY <1>2 DEF Arrive, Replaced
<1>7. SessionsFit(sessions', status, member) /\ SameOwners(sessions, sessions')
  BY <1>4, <1>5, <1>6, OneWeakened DEF IInv
<1>8. MovesOn(r)
  <2>1. CASE MfaGate(s, op) /\ OrgGate(s, op) /\ StepUp(s, op)
    <3>1. PICK q : q = [Idle EXCEPT !.op = op, !.pc = "start", !.who = sessions[s].who, !.sid = s,
                                    !.org = sessions[s].org]
      OBVIOUS
    <3>2. request' = Moved(r, q)
      BY <2>1, <3>1 DEF Arrive, Moved
    <3>3. op \in Ops /\ "start" \in Pcs /\ s \in Nat /\ s # 0 /\ "start" \notin Settled
      BY ASession DEF Ops, Pcs, Settled, Sid
    <3>4. Idle \in RequestRow
      BY IdleIsRow DEF IInv
    <3>5. /\ q \in RequestRow /\ q.op = op /\ q.pc = "start" /\ q.who = sessions[s].who
          /\ q.sid = s /\ q.org = sessions[s].org
      BY <1>1, <3>1, <3>3, <3>4 DEF RequestRow
    <3>6. RequestOK(q, sessions, member)
      BY <3>3, <3>5 DEF RequestOK, IInv, SessionsOK, SessionsFit, Sid
    <3>7. ~Retired(q)
      BY <3>5 DEF Retired
    <3>8. QED
      BY <3>2, <3>5, <3>6, <3>7 DEF MovesOn
  <2>2. CASE ~(MfaGate(s, op) /\ OrgGate(s, op) /\ StepUp(s, op))
    <3>1. request[r] = Idle /\ request' = request
      BY <2>2 DEF Arrive
    <3>2. Done(r)
      BY <3>1 DEF Done, IInv, RequestsOK
    <3>3. QED
      BY <3>2, DoneMoves
  <2>3. QED
    BY <2>1, <2>2
<1>9. UNCHANGED aside /\ UNCHANGED proofs
  BY DEF Arrive, aside, proofs, resetting, factors
<1>10. QED
  BY <1>7, <1>8, <1>9, SessionMoveKeeps

LEMMA ArriveAnonymouslyKeeps ==
    ASSUME IInv, NEW r \in Request, NEW op \in {"login", "reset", "accept"},
           ArriveAnonymously(r, op), UNCHANGED <<grants, inviting>>
    PROVE  IInv'
<1>1. PICK q : q = [Idle EXCEPT !.op = op, !.pc = "start"]
  OBVIOUS
<1>2. request' = Moved(r, q)
  BY <1>1 DEF ArriveAnonymously, Moved
<1>3. op \in Ops /\ "start" \in Pcs /\ "start" \notin Settled /\ op \notin Owned
  BY DEF Ops, Pcs, Settled, SessionOps, Owned
<1>4. Idle \in RequestRow /\ RequestOK(Idle, sessions, member)
  BY IdleIsRow DEF IInv
<1>5. q \in RequestRow /\ q.op = op /\ q.pc = "start" /\ q.sid = Idle.sid
  BY <1>1, <1>3, <1>4 DEF RequestRow
<1>6. RequestOK(q, sessions, member) /\ ~Retired(q)
  BY <1>3, <1>4, <1>5 DEF RequestOK, Retired
<1>7. MovesOn(r)
  BY <1>2, <1>5, <1>6 DEF MovesOn
<1>8. UNCHANGED aside /\ UNCHANGED proofs /\ UNCHANGED sessions
  BY DEF ArriveAnonymously, aside, proofs, resetting, factors
<1>9. QED
  BY <1>7, <1>8, QuietMoveKeeps

LEMMA LoginCheckKeeps ==
    ASSUME IInv, NEW r \in Request, NEW i \in Identity, LoginCheck(r, i),
           UNCHANGED <<grants, inviting>>
    PROVE  IInv'
<1>1. MovesOn(r)
  <2>1. CASE Throttled(r, i)
    BY <2>1, DoneMoves DEF LoginCheck, Done
  <2>2. CASE ~Throttled(r, i)
    <3>1. PICK n : n = About(request[r], "checked", i)
      OBVIOUS
    <3>2. request' = Moved(r, n) /\ request[r].op = "login"
      BY <2>2, <3>1 DEF LoginCheck, Moved, About, At
    <3>3. n \in RequestRow /\ Kept(request[r], n) /\ n.pc = "checked" /\ n.who = i
      <4>1. "checked" \in Pcs /\ request[r] \in RequestRow
        BY ARequest DEF Pcs
      <4>2. QED
        BY <3>1, <4>1, AboutRow
    <3>4. n.op \notin Owned
      BY <3>2, <3>3 DEF Kept, Owned
    <3>5. RequestOK(n, sessions, member)
      BY <3>3, <3>4, ARequest, StillOK
    <3>6. QED
      BY <3>2, <3>3, <3>5 DEF MovesOn, Retired
  <2>3. QED
    BY <2>1, <2>2
<1>2. UNCHANGED aside /\ UNCHANGED proofs /\ UNCHANGED sessions
  BY DEF LoginCheck, aside, proofs, resetting, factors
<1>3. QED
  BY <1>1, <1>2, QuietMoveKeeps

LEMMA LoginVerifyKeeps ==
    ASSUME IInv, NEW r \in Request, NEW p, LoginVerify(r, p), UNCHANGED <<grants, inviting>>
    PROVE  IInv'
<1>1. MovesOn(r)
  <2>1. CASE status[request[r].who] = "active" /\ password[request[r].who].value = p
    <3>1. PICK h : h = password[request[r].who]
      OBVIOUS
    <3>2. PICK n : n = [request[r] EXCEPT !.pc = "verified", !.hash = h]
      OBVIOUS
    <3>3. request' = Moved(r, n) /\ request[r].pc = "checked"
      BY <2>1, <3>1, <3>2 DEF LoginVerify, Moved, At
    <3>4. request[r].who \in Identity
      BY <3>3, ARequest DEF RequestOK, Settled
    <3>5. h \in Password /\ "verified" \in Pcs /\ request[r] \in RequestRow
      BY <3>1, <3>4, ARequest DEF IInv, PasswordsOK, Pcs
    <3>6. n \in RequestRow /\ Kept(request[r], n) /\ n.pc = "verified" /\ n.who = request[r].who
      BY <3>2, <3>5 DEF RequestRow, Kept
    <3>7. RequestOK(n, sessions, member)
      BY <3>4, <3>6, ARequest, StillOK
    <3>8. QED
      BY <3>3, <3>6, <3>7 DEF MovesOn, Retired
  <2>2. CASE ~(status[request[r].who] = "active" /\ password[request[r].who].value = p)
    BY <2>2, DoneMoves DEF LoginVerify
  <2>3. QED
    BY <2>1, <2>2
<1>2. UNCHANGED aside /\ UNCHANGED proofs /\ UNCHANGED sessions
  BY DEF LoginVerify, aside, proofs, resetting, factors
<1>3. QED
  BY <1>1, <1>2, QuietMoveKeeps

LEMMA LoginSucceedsKeeps ==
    ASSUME IInv, NEW r \in Request, LoginSucceeds(r), UNCHANGED <<grants, inviting>>
    PROVE  IInv'
<1>1. PICK d : d = Requirement(request[r].who)
  OBVIOUS
<1>2. PICK n : n = [request[r] EXCEPT !.pc = "granted", !.need = d]
  OBVIOUS
<1>3. request' = Moved(r, n) /\ request[r].pc = "verified"
  BY <1>1, <1>2 DEF LoginSucceeds, Moved, At
<1>4. request[r].who \in Identity
  BY <1>3, ARequest DEF RequestOK, Settled
<1>5. d \in {"none", "enroll", "verify"} /\ "granted" \in Pcs
  BY <1>1 DEF Requirement, Pcs
<1>6. n \in RequestRow /\ Kept(request[r], n) /\ n.pc = "granted" /\ n.who = request[r].who
  BY <1>2, <1>5, ARequest DEF RequestRow, Kept
<1>7. RequestOK(n, sessions, member)
  BY <1>4, <1>6, ARequest, StillOK
<1>8. MovesOn(r)
  BY <1>3, <1>6, <1>7 DEF MovesOn, Retired
<1>9. UNCHANGED aside /\ UNCHANGED proofs /\ UNCHANGED sessions
  BY DEF LoginSucceeds, aside, proofs, resetting, factors
<1>10. QED
  BY <1>8, <1>9, QuietMoveKeeps

LEMMA RehashKeeps ==
    ASSUME IInv, NEW r \in Request, Rehash(r), UNCHANGED <<grants, inviting>>
    PROVE  IInv'
<1>1. PICK h : h = [request[r].hash EXCEPT !.old = FALSE]
  OBVIOUS
<1>2. PICK n : n = [request[r] EXCEPT !.hash = h]
  OBVIOUS
<1>3. request' = Moved(r, n) /\ request[r].pc = "verified"
  BY <1>1, <1>2 DEF Rehash, Moved, At
<1>4. request[r].who \in Identity
  BY <1>3, ARequest DEF RequestOK, Settled
<1>5. h \in Password /\ request[r] \in RequestRow
  <2>1. request[r].hash \in Password /\ request[r] \in RequestRow
    BY ARequest DEF RequestRow
  <2>2. QED
    BY <1>1, <2>1 DEF Password
<1>6. /\ n \in RequestRow /\ Kept(request[r], n) /\ n.pc = request[r].pc
      /\ n.who = request[r].who
  BY <1>2, <1>5 DEF RequestRow, Kept
<1>7. RequestOK(n, sessions, member) /\ ~Retired(n)
  BY <1>3, <1>4, <1>6, ARequest, StillOK DEF Retired
<1>8. /\ UNCHANGED <<grants, privileged>> /\ UNCHANGED <<clock, status, member>>
      /\ UNCHANGED inviting /\ UNCHANGED proofs /\ UNCHANGED sessions /\ resets' = resets
  BY DEF Rehash, proofs, resetting, factors
<1>9. PasswordsOK'
  BY <1>4, RehashKeepsPasswords DEF IInv
<1>10. SessionsFit(sessions', status, member) /\ SameOwners(sessions, sessions')
  BY <1>8, SameFit DEF IInv, SessionsOK
<1>11. RequestsOK' /\ SessionsOK'
  BY <1>3, <1>6, <1>7, <1>8, <1>10, MembersSame, RequestsMove, SessionsStay DEF IInv
<1>12. ResetsOK' /\ UsesOK'
  BY <1>3, <1>7, <1>8, ResetsGoOn, ProofsKept DEF IInv
<1>13. RolesOK' /\ TablesOK' /\ InvitesOK'
  BY <1>8, RolesStay, TablesStay, InvitesStay DEF IInv
<1>14. QED
  BY <1>9, <1>11, <1>12, <1>13 DEF IInv

LEMMA LoginIssuesKeeps ==
    ASSUME IInv, NEW r \in Request, LoginIssues(r), UNCHANGED <<grants, inviting>>
    PROVE  IInv'
<1>1. PICK q \in RequestRow : q = request[r] /\ RequestOK(q, sessions, member)
  BY ARequest
<1>2. PICK verified \in BOOLEAN : verified = (q.need = "none")
  OBVIOUS
<1>3. /\ q.pc = "granted" /\ Done(r)
      /\ IF q.sid # 0 THEN Rotate(q.sid, q.who, LoginOrg(q.who), verified)
                      ELSE Issue(q.who, verified)
  BY <1>1, <1>2 DEF LoginIssues, At
<1>4. q.who \in Identity
  BY <1>1, <1>3 DEF RequestOK, Settled
<1>5. q.sid # 0 => q.sid \in Sid
  BY <1>1, ASession DEF RequestOK, Sid, IInv
<1>6. LoginOrg(q.who) \in member[q.who] \cup {NoOrg}
  BY <1>4, LoginOrgIsMember DEF IInv
<1>7. SessionsFit(sessions', status, member) /\ SameOwners(sessions, sessions')
  BY <1>3, <1>4, <1>5, <1>6, IssueFits, RotateFits DEF IInv
<1>8. UNCHANGED aside /\ UNCHANGED proofs
  BY DEF LoginIssues, aside, proofs, resetting, factors
<1>9. QED
  BY <1>3, <1>7, <1>8, DoneMoves, SessionMoveKeeps

LEMMA RevokingKeeps ==
    ASSUME IInv, NEW r \in Request, NEW ended, Revoking(r, ended), UNCHANGED <<grants, inviting>>
    PROVE  IInv'
<1>1. PICK all : all = OwnSessions(request[r].who) \cap ended
  OBVIOUS
<1>2. sessions' = RevokeSessions(sessions, all) /\ Done(r)
  BY <1>1 DEF Revoking
<1>3. SessionsFit(sessions', status, member) /\ SameOwners(sessions, sessions')
  BY <1>2, RevokedFits DEF IInv
<1>4. UNCHANGED aside /\ UNCHANGED proofs
  BY DEF Revoking, aside, proofs, resetting, factors
<1>5. QED
  BY <1>2, <1>3, <1>4, DoneMoves, SessionMoveKeeps

LEMMA SelectOrganizationKeeps ==
    ASSUME IInv, NEW r \in Request, NEW o \in Org, SelectOrganization(r, o),
           UNCHANGED <<grants, inviting>>
    PROVE  IInv'
<1>1. PICK q \in RequestRow : q = request[r] /\ RequestOK(q, sessions, member)
  BY ARequest
<1>2. /\ q.op = "select" /\ Done(r)
      /\ sessions' = IF o \in member[q.who] /\ sessions[q.sid].live
                     THEN [sessions EXCEPT ![q.sid].org = o] ELSE sessions
  BY <1>1 DEF SelectOrganization, At
<1>3. q.sid \in Sid /\ q.who = sessions[q.sid].who
  BY <1>1, <1>2, ASession DEF RequestOK, Owned, Sid, IInv
<1>4. PICK s \in Sid : s = q.sid /\ sessions[s] \in Session
  BY <1>3, ASession DEF IInv
<1>5. SessionsFit(sessions', status, member) /\ SameOwners(sessions, sessions')
  <2>1. CASE o \in member[q.who] /\ sessions[q.sid].live
    <3>1. PICK row : row = [sessions[s] EXCEPT !.org = o]
      OBVIOUS
    <3>2. sessions' = Replaced(s, row)
      BY <1>2, <1>4, <2>1, <3>1 DEF Replaced
    <3>3. row \in Session /\ NoMoreAlive(sessions[s], row) /\ row.org = o
      BY <1>4, <3>1 DEF Session, NoMoreAlive
    <3>4. row.org \in member[row.who] \cup {NoOrg}
      BY <1>3, <1>4, <2>1, <3>3 DEF NoMoreAlive
    <3>5. QED
      BY <3>2, <3>3, <3>4, OneWeakened DEF IInv
  <2>2. CASE ~(o \in member[q.who] /\ sessions[q.sid].live)
    BY <1>2, <2>2, SameFit DEF IInv, SessionsOK
  <2>3. QED
    BY <2>1, <2>2
<1>6. UNCHANGED aside /\ UNCHANGED proofs
  BY DEF SelectOrganization, aside, proofs, resetting, factors
<1>7. QED
  BY <1>2, <1>5, <1>6, DoneMoves, SessionMoveKeeps

LEMMA ListOthersKeeps ==
    ASSUME IInv, NEW r \in Request, ListOthers(r), UNCHANGED <<grants, inviting>>
    PROVE  IInv'
<1>1. PICK q \in RequestRow : q = request[r] /\ RequestOK(q, sessions, member)
  BY ARequest
<1>2. PICK n : n = [q EXCEPT !.pc = "listed", !.seen = Len(sessions)]
  OBVIOUS
<1>3. request' = Moved(r, n)
  BY <1>1, <1>2 DEF ListOthers, Moved
<1>4. Len(sessions) \in Nat /\ "listed" \in Pcs /\ "listed" \notin Settled
  BY ASession DEF IInv, Pcs, Settled
<1>5. n \in RequestRow /\ Kept(q, n) /\ n.pc = "listed" /\ n.who = q.who
  BY <1>2, <1>4 DEF RequestRow, Kept
<1>6. RequestOK(n, sessions, member) /\ ~Retired(n)
  BY <1>1, <1>4, <1>5, StillOK DEF Retired
<1>7. MovesOn(r)
  BY <1>3, <1>5, <1>6 DEF MovesOn
<1>8. UNCHANGED aside /\ UNCHANGED proofs /\ UNCHANGED sessions
  BY DEF ListOthers, aside, proofs, resetting, factors
<1>9. QED
  BY <1>7, <1>8, QuietMoveKeeps

LEMMA EnrollReauthKeeps ==
    ASSUME IInv, NEW r \in Request, EnrollReauth(r), UNCHANGED <<grants, inviting>>
    PROVE  IInv'
<1>1. Goes(r, "trusted") \/ Done(r)
  BY DEF EnrollReauth
<1>2. "trusted" \in Pcs /\ "trusted" \notin Settled
  BY DEF Pcs, Settled
<1>3. MovesOn(r)
  BY <1>1, <1>2, DoneMoves, GoesMoves
<1>4. UNCHANGED aside /\ UNCHANGED proofs /\ UNCHANGED sessions
  BY DEF EnrollReauth, aside, proofs, resetting, factors
<1>5. QED
  BY <1>3, <1>4, QuietMoveKeeps

LEMMA DisableCheckKeeps ==
    ASSUME IInv, NEW r \in Request, DisableCheck(r), UNCHANGED <<grants, inviting>>
    PROVE  IInv'
<1>1. Goes(r, "allowed") \/ Done(r)
  BY DEF DisableCheck
<1>2. "allowed" \in Pcs /\ "allowed" \notin Settled
  BY DEF Pcs, Settled
<1>3. MovesOn(r)
  BY <1>1, <1>2, DoneMoves, GoesMoves
<1>4. UNCHANGED aside /\ UNCHANGED proofs /\ UNCHANGED sessions
  BY DEF DisableCheck, aside, proofs, resetting, factors
<1>5. QED
  BY <1>3, <1>4, QuietMoveKeeps

LEMMA ProvedIsOnward ==
    ASSUME IInv, NEW r \in Request, Goes(r, "proved"),
           request[r].op \in {"confirm", "verify", "disable"}
    PROVE  MovesOn(r)
<1>1. "proved" \in Pcs /\ "proved" \notin Settled
  BY DEF Pcs, Settled
<1>2. QED
  BY <1>1, GoesMoves

LEMMA RemoveFactorKeeps ==
    ASSUME IInv, NEW r \in Request, RemoveFactor(r), UNCHANGED <<grants, inviting>>
    PROVE  IInv'
<1>1. (Goes(r, "proved") /\ request[r].op = "disable") \/ Done(r)
  BY DEF RemoveFactor, At
<1>2. MovesOn(r)
  BY <1>1, DoneMoves, ProvedIsOnward
<1>3. UNCHANGED aside /\ UNCHANGED proofs /\ UNCHANGED sessions
  BY DEF RemoveFactor, aside, proofs, resetting, factors
<1>4. QED
  BY <1>2, <1>3, QuietMoveKeeps

LEMMA CompleteMfaKeeps ==
    ASSUME IInv, NEW r \in Request, CompleteMfa(r), UNCHANGED <<grants, inviting>>
    PROVE  IInv'
<1>1. PICK q \in RequestRow : q = request[r] /\ RequestOK(q, sessions, member)
  BY ARequest
<1>2. PICK verified \in BOOLEAN : verified = (q.op # "disable")
  OBVIOUS
<1>3. q.pc = "proved" /\ Done(r) /\ Rotate(q.sid, q.who, q.org, verified)
  BY <1>1, <1>2 DEF CompleteMfa
<1>4. q.op \in Owned
  BY <1>1, <1>3 DEF RequestOK, Owned
<1>5. q.sid \in Sid /\ q.who = sessions[q.sid].who /\ q.org \in member[q.who] \cup {NoOrg}
  BY <1>1, <1>4, ASession DEF RequestOK, Sid, IInv
<1>6. q.who \in Identity
  BY <1>5, ASession DEF Session, IInv
<1>7. SessionsFit(sessions', status, member) /\ SameOwners(sessions, sessions')
  BY <1>3, <1>5, <1>6, RotateFits DEF IInv
<1>8. UNCHANGED aside /\ UNCHANGED proofs
  BY DEF CompleteMfa, aside, proofs, resetting, factors
<1>9. QED
  BY <1>3, <1>7, <1>8, DoneMoves, SessionMoveKeeps

\* A step that changes what proves something, and no reset or session.
LEMMA ProofMoveKeeps ==
    ASSUME IInv, NEW r \in Request, MovesOn(r), UNCHANGED aside, UNCHANGED sessions, UsesOK'
    PROVE  IInv'
<1>1. SessionsFit(sessions', status, member) /\ SameOwners(sessions, sessions')
  BY SameFit DEF IInv, SessionsOK
<1>2. QED
  BY <1>1, MoveKeeps

LEMMA EnrollKeeps ==
    ASSUME IInv, NEW r \in Request, Enroll(r), UNCHANGED <<grants, inviting>>
    PROVE  IInv'
<1>1. PICK i, n : i = request[r].who /\ n = Len(enrolled) + 1
  OBVIOUS
<1>2. /\ request[r].op = "enroll" /\ Done(r)
      /\ enrolled' = Append(enrolled, i)
      /\ codes' = {c \in codes : enrolled[c] = i => c = factor[i].active} \cup {n}
      /\ uses' = uses /\ consumed' = consumed /\ resets' = resets
  BY <1>1 DEF Enroll, At, resetting
<1>3. i \in Identity
  <2>1. request[r].sid \in Sid /\ i = sessions[request[r].sid].who
    BY <1>1, <1>2, ARequest, ASession DEF RequestOK, Owned, Sid, IInv
  <2>2. QED
    BY <2>1, ASession DEF Session, IInv
<1>4. /\ Len(enrolled) \in Nat /\ enrolled' \in Seq(Identity) /\ Len(enrolled') = n
      /\ codes \subseteq 1..Len(enrolled)
  BY <1>1, <1>2, <1>3 DEF IInv, UsesOK
<1>5. codes' \subseteq 1..Len(enrolled')
  BY <1>1, <1>2, <1>4
<1>6. \A k \in 1..Len(enrolled) : k \notin codes => k \in 1..Len(enrolled') /\ k \notin codes'
  BY <1>1, <1>2, <1>4
<1>7. StaysSpent
  BY <1>2, <1>6 DEF StaysSpent, Spent
<1>8. UsesOK'
  BY <1>2, <1>4, <1>5, <1>7, UsesStay DEF IInv
<1>9. UNCHANGED aside /\ UNCHANGED sessions
  BY DEF Enroll, aside, resetting
<1>10. QED
  BY <1>2, <1>8, <1>9, DoneMoves, ProofMoveKeeps

\* A time step is consumed.
LEMMA StepUsed ==
    ASSUME UsesOK, NEW i, NEW t, Fresh(i, t), consumed' = consumed \cup {<<i, t>>},
           codes' \subseteq codes, enrolled' = enrolled, resets' = resets,
           uses' = [uses EXCEPT ![<<"step", i, t>>] = @ + 1]
    PROVE  UsesOK'
<1>1. PICK c : c = <<"step", i, t>>
  OBVIOUS
<1>2. c[1] = "step" /\ c[2] = i /\ c[3] = t
  BY <1>1
<1>3. ~Spent(c) /\ Spent(c)'
  BY <1>2 DEF Spent, Fresh
<1>4. StaysSpent
  BY DEF StaysSpent, Spent
<1>5. uses' = [uses EXCEPT ![c] = @ + 1]
  BY <1>1
<1>6. QED
  BY <1>3, <1>4, <1>5, UsesOnce

\* A recovery code is deleted.
LEMMA CodeUsed ==
    ASSUME UsesOK, NEW i, NEW n \in codes, codes' = codes \ {n}, consumed' = consumed,
           enrolled' = enrolled, resets' = resets,
           uses' = [uses EXCEPT ![<<"code", i, n>>] = @ + 1]
    PROVE  UsesOK'
<1>1. PICK c : c = <<"code", i, n>>
  OBVIOUS
<1>2. c[1] = "code" /\ c[3] = n
  BY <1>1
<1>3. ~Spent(c) /\ Spent(c)'
  BY <1>2 DEF Spent, UsesOK
<1>4. StaysSpent
  BY DEF StaysSpent, Spent
<1>5. uses' = [uses EXCEPT ![c] = @ + 1]
  BY <1>1
<1>6. QED
  BY <1>3, <1>4, <1>5, UsesOnce

LEMMA ConfirmKeeps ==
    ASSUME IInv, NEW r \in Request, NEW n, NEW t, Confirm(r, n, t), UNCHANGED <<grants, inviting>>
    PROVE  IInv'
<1>1. PICK i : i = request[r].who
  OBVIOUS
<1>2. request[r].op = "confirm" /\ resets' = resets
  BY DEF Confirm, At, resetting
<1>3. UNCHANGED aside /\ UNCHANGED sessions
  BY DEF Confirm, aside, resetting
<1>4. \/ Done(r) /\ UNCHANGED proofs
      \/ /\ Goes(r, "proved") /\ Fresh(i, t)
         /\ codes' = {c \in codes : enrolled[c] = i => c = n}
         /\ consumed' = consumed \cup {<<i, t>>}
         /\ uses' = [uses EXCEPT ![<<"step", i, t>>] = @ + 1]
         /\ enrolled' = enrolled
  BY <1>1 DEF Confirm, proofs, factors
<1>5. CASE Done(r) /\ UNCHANGED proofs
  BY <1>3, <1>5, DoneMoves, QuietMoveKeeps
<1>6. CASE /\ Goes(r, "proved") /\ Fresh(i, t)
           /\ codes' = {c \in codes : enrolled[c] = i => c = n}
           /\ consumed' = consumed \cup {<<i, t>>}
           /\ uses' = [uses EXCEPT ![<<"step", i, t>>] = @ + 1]
           /\ enrolled' = enrolled
  <2>1. UsesOK'
    BY <1>2, <1>6, StepUsed DEF IInv
  <2>2. MovesOn(r)
    BY <1>2, <1>6, ProvedIsOnward
  <2>3. QED
    BY <1>3, <2>1, <2>2, ProofMoveKeeps
<1>7. QED
  BY <1>4, <1>5, <1>6

LEMMA ProveKeeps ==
    ASSUME IInv, NEW r \in Request, NEW n, NEW t, NEW recovery, NEW onward,
           Prove(r, n, t, recovery, onward), Goes(r, onward) => MovesOn(r),
           UNCHANGED <<grants, inviting>>
    PROVE  IInv'
<1>1. PICK i : i = request[r].who
  OBVIOUS
<1>2. resets' = resets
  BY DEF Prove, resetting
<1>3. UNCHANGED aside /\ UNCHANGED sessions
  BY DEF Prove, aside, resetting
<1>4. \/ Done(r) /\ UNCHANGED proofs
      \/ /\ Goes(r, onward) /\ Fresh(i, t)
         /\ consumed' = consumed \cup {<<i, t>>}
         /\ uses' = [uses EXCEPT ![<<"step", i, t>>] = @ + 1]
         /\ enrolled' = enrolled /\ codes' = codes
      \/ /\ Goes(r, onward) /\ n \in codes
         /\ codes' = codes \ {n}
         /\ uses' = [uses EXCEPT ![<<"code", i, n>>] = @ + 1]
         /\ enrolled' = enrolled /\ consumed' = consumed
  BY <1>1 DEF Prove, proofs, factors, TotpProves
<1>5. CASE Done(r) /\ UNCHANGED proofs
  BY <1>3, <1>5, DoneMoves, QuietMoveKeeps
<1>6. CASE /\ Goes(r, onward) /\ Fresh(i, t)
           /\ consumed' = consumed \cup {<<i, t>>}
           /\ uses' = [uses EXCEPT ![<<"step", i, t>>] = @ + 1]
           /\ enrolled' = enrolled /\ codes' = codes
  <2>1. UsesOK'
    BY <1>2, <1>6, StepUsed DEF IInv
  <2>2. QED
    BY <1>3, <1>6, <2>1, ProofMoveKeeps
<1>7. CASE /\ Goes(r, onward) /\ n \in codes
           /\ codes' = codes \ {n}
           /\ uses' = [uses EXCEPT ![<<"code", i, n>>] = @ + 1]
           /\ enrolled' = enrolled /\ consumed' = consumed
  <2>1. UsesOK'
    BY <1>2, <1>7, CodeUsed DEF IInv
  <2>2. QED
    BY <1>3, <1>7, <2>1, ProofMoveKeeps
<1>8. QED
  BY <1>4, <1>5, <1>6, <1>7

LEMMA VerifyKeeps ==
    ASSUME IInv, NEW r \in Request, NEW n, NEW t, NEW recovery,
           Verify(r, n, t, recovery) \/ DisableVerify(r, n, t, recovery),
           UNCHANGED <<grants, inviting>>
    PROVE  IInv'
<1>1. CASE Verify(r, n, t, recovery)
  <2>1. request[r].op = "verify" /\ Prove(r, n, t, recovery, "proved")
    BY <1>1 DEF Verify, At
  <2>2. Goes(r, "proved") => MovesOn(r)
    BY <2>1, ProvedIsOnward
  <2>3. QED
    BY <2>1, <2>2, ProveKeeps
<1>2. CASE DisableVerify(r, n, t, recovery)
  <2>1. Prove(r, n, t, recovery, "removing")
    BY <1>2 DEF DisableVerify
  <2>2. "removing" \in Pcs /\ "removing" \notin Settled
    BY DEF Pcs, Settled
  <2>3. Goes(r, "removing") => MovesOn(r)
    BY <2>2, GoesMoves
  <2>4. QED
    BY <2>1, <2>3, ProveKeeps
<1>3. QED
  BY <1>1, <1>2

-----------------------------------------------------------------------------
(* The steps of password resets.                                             *)

\* The same resets, some of them used since.
MoreUsed(all, now) ==
    /\ now \in Seq(Reset) /\ Len(now) = Len(all)
    /\ \A n \in 1..Len(all) : now[n].who = all[n].who /\ (all[n].used => now[n].used)

LEMMA UsedStaysSpent ==
    ASSUME ResetsOK, MoreUsed(resets, resets'), UNCHANGED <<codes, consumed, enrolled>>
    PROVE  StaysSpent
  BY DEF StaysSpent, Spent, MoreUsed

LEMMA UsedKeepsResets ==
    ASSUME ResetsOK, MoreUsed(resets, resets')
    PROVE  OneLiveReset' /\ \A i : NoneLive(resets, i) => NoneLive(resets', i)
  BY DEF OneLiveReset, MoreUsed, NoneLive, ResetsOK

\* The older resets of identity i are marked used.
Retiring(i) ==
    [n \in DOMAIN resets |->
        IF resets[n].who = i THEN [resets[n] EXCEPT !.used = TRUE] ELSE resets[n]]

LEMMA RetiringMarks ==
    ASSUME ResetsOK, NEW i, NEW now, now = Retiring(i)
    PROVE  MoreUsed(resets, now) /\ NoneLive(now, i)
<1>1. Len(resets) \in Nat /\ DOMAIN resets = 1..Len(resets)
  BY DEF ResetsOK
<1>2. ASSUME NEW n \in 1..Len(resets)
      PROVE  /\ now[n] \in Reset /\ now[n].who = resets[n].who
             /\ resets[n].used => now[n].used
             /\ now[n].who = i => now[n].used
  <2>1. resets[n] \in Reset
    BY DEF ResetsOK
  <2>2. now[n] = IF resets[n].who = i THEN [resets[n] EXCEPT !.used = TRUE] ELSE resets[n]
    BY <1>1 DEF Retiring
  <2>3. QED
    BY <2>1, <2>2 DEF Reset
<1>3. now \in [1..Len(resets) -> Reset]
  BY <1>1, <1>2 DEF Retiring
<1>4. now \in Seq(Reset) /\ Len(now) = Len(resets)
  BY <1>1, <1>3
<1>5. QED
  BY <1>1, <1>2, <1>4 DEF MoreUsed, NoneLive

LEMMA AskResetKeeps ==
    ASSUME IInv, NEW r \in Request, NEW i \in Identity, AskReset(r, i),
           UNCHANGED <<grants, inviting>>
    PROVE  IInv'
<1>1. /\ UNCHANGED <<clock, status, member>> /\ UNCHANGED <<grants, privileged>>
      /\ UNCHANGED <<password, lastSet>> /\ UNCHANGED inviting /\ UNCHANGED sessions
      /\ UNCHANGED proofs /\ UNCHANGED member
  BY DEF AskReset, credentials, proofs, factors
<1>2. CASE Limited(r, i) \/ status[i] = "none"
  <2>1. Done(r) /\ resets' = resets
    BY <1>2 DEF AskReset
  <2>2. UNCHANGED aside
    BY <1>1, <2>1 DEF aside, credentials, AskReset
  <2>3. QED
    BY <1>1, <2>1, <2>2, DoneMoves, QuietMoveKeeps
<1>3. CASE ~(Limited(r, i) \/ status[i] = "none")
  <2>1. PICK q : q = About(request[r], "retired", i)
    OBVIOUS
  <2>2. resets' = Retiring(i) /\ request' = Moved(r, q) /\ request[r].op = "reset"
    BY <1>3, <2>1 DEF AskReset, Retiring, Moved, About, At
  <2>3. "retired" \in Pcs /\ request[r] \in RequestRow
    BY ARequest DEF Pcs
  <2>4. q \in RequestRow /\ Kept(request[r], q) /\ q.pc = "retired" /\ q.who = i
    BY <2>1, <2>3, AboutRow
  <2>5. q.op \notin Owned
    BY <2>2, <2>4 DEF Kept, Owned
  <2>6. RequestOK(q, sessions, member)
    BY <2>4, <2>5, ARequest, StillOK
  <2>7. SessionsFit(sessions', status, member) /\ SameOwners(sessions, sessions')
    BY <1>1, SameFit DEF IInv, SessionsOK
  <2>8. RequestsOK' /\ SessionsOK'
    BY <1>1, <2>2, <2>4, <2>6, <2>7, MembersSame, RequestsMove, SessionsStay DEF IInv
  <2>9. MoreUsed(resets, resets') /\ NoneLive(resets', i)
    BY <2>2, RetiringMarks DEF IInv
  <2>10. UsesOK'
    <3>1. uses' = uses /\ enrolled' = enrolled /\ codes' = codes /\ consumed' = consumed
      BY <1>1 DEF proofs
    <3>2. StaysSpent
      BY <2>9, <3>1, UsedStaysSpent DEF IInv
    <3>3. QED
      BY <3>1, <3>2, UsesStay DEF IInv, UsesOK
  <2>11. ASSUME NEW t \in Request, t # r
         PROVE  /\ request'[t] = request[t]
                /\ Retired(request[t]) => request[t].who # i
    <3>1. KeysFree(r, i)
      BY DEF AskReset
    <3>2. Retired(request[t]) => request[t].who # i
      BY <2>11, <3>1 DEF KeysFree, At, Retired
    <3>3. request'[t] = request[t]
      BY <2>2, <2>11 DEF IInv, RequestsOK, Moved
    <3>4. QED
      BY <3>2, <3>3
  <2>12. request'[r] = q
    BY <2>2 DEF IInv, RequestsOK, Moved
  <2>13. RetiredApart'
    BY <2>4, <2>11, <2>12 DEF RetiredApart, IInv, ResetsOK
  <2>14. \A t \in Request : Retired(request'[t]) => NoneLive(resets', request'[t].who)
    BY <2>4, <2>9, <2>11, <2>12, UsedKeepsResets DEF IInv, ResetsOK
  <2>15. ResetsOK'
    BY <2>9, <2>13, <2>14, UsedKeepsResets DEF IInv, ResetsOK, MoreUsed
  <2>16. RolesOK' /\ TablesOK' /\ InvitesOK' /\ PasswordsOK'
    BY <1>1, RolesStay, TablesStay, InvitesStay, PasswordsStay DEF IInv
  <2>17. QED
    BY <2>8, <2>10, <2>15, <2>16 DEF IInv
<1>4. QED
  BY <1>2, <1>3

LEMMA SendResetKeeps ==
    ASSUME IInv, NEW r \in Request, SendReset(r), UNCHANGED <<grants, inviting>>
    PROVE  IInv'
<1>1. /\ UNCHANGED <<clock, status, member>> /\ UNCHANGED <<grants, privileged>>
      /\ UNCHANGED <<password, lastSet>> /\ UNCHANGED inviting /\ UNCHANGED sessions
      /\ UNCHANGED proofs /\ UNCHANGED member
  BY DEF SendReset, credentials, proofs, factors
<1>2. PICK i, row : /\ i = request[r].who
                    /\ row = [who |-> i, used |-> FALSE, expires |-> clock + ResetTtl]
  OBVIOUS
<1>3. resets' = Append(resets, row) /\ request' = Moved(r, Idle) /\ Retired(request[r])
  BY <1>2 DEF SendReset, At, Retired, Done, Moved
<1>4. i \in Identity
  BY <1>2, <1>3, ARequest DEF Retired, RequestOK, Settled
<1>5. row \in Reset /\ row.who = i /\ ~row.used
  <2>1. clock + ResetTtl \in Nat
    BY SessionsAssumption DEF SessionsAssumption, IInv, TablesOK
  <2>2. QED
    BY <1>2, <1>4, <2>1 DEF Reset
<1>6. /\ resets \in Seq(Reset) /\ Len(resets) \in Nat
      /\ resets' \in Seq(Reset) /\ Len(resets') = Len(resets) + 1
      /\ \A n \in 1..Len(resets) : resets'[n] = resets[n]
      /\ resets'[Len(resets) + 1] = row
  BY <1>3, <1>5 DEF IInv, ResetsOK
<1>7. \A n \in 1..Len(resets') : n \in 1..Len(resets) \/ n = Len(resets) + 1
  BY <1>6
<1>8. NoneLive(resets, i)
  BY <1>2, <1>3 DEF IInv, ResetsOK
<1>9. OneLiveReset'
  <2>1. ASSUME NEW m \in 1..Len(resets'), NEW n \in 1..Len(resets'),
               resets'[m].who = resets'[n].who, ~resets'[m].used, ~resets'[n].used
        PROVE  m = n
    BY <1>5, <1>6, <1>7, <1>8, <2>1 DEF NoneLive, IInv, ResetsOK, OneLiveReset
  <2>2. QED
    BY <2>1 DEF OneLiveReset
<1>10. ASSUME NEW t \in Request
       PROVE  Retired(request'[t]) => t # r /\ request'[t] = request[t]
  BY <1>3, IdleIsRow DEF IInv, RequestsOK, Moved, Retired
<1>11. ASSUME NEW t \in Request, Retired(request'[t])
       PROVE  NoneLive(resets', request'[t].who)
  <2>1. t # r /\ Retired(request[t]) /\ request'[t].who = request[t].who
    BY <1>10, <1>11
  <2>2. request[t].who # i /\ NoneLive(resets, request[t].who)
    BY <1>2, <1>3, <2>1 DEF IInv, ResetsOK, RetiredApart
  <2>3. QED
    BY <1>5, <1>6, <1>7, <2>1, <2>2 DEF NoneLive
<1>12. RetiredApart'
  BY <1>10 DEF RetiredApart, IInv, ResetsOK
<1>13. ResetsOK'
  BY <1>6, <1>9, <1>11, <1>12 DEF ResetsOK
<1>14. UsesOK'
  <2>1. uses' = uses /\ enrolled' = enrolled /\ codes' = codes /\ consumed' = consumed
    BY <1>1 DEF proofs
  <2>2. StaysSpent
    BY <1>6, <2>1 DEF StaysSpent, Spent
  <2>3. QED
    BY <2>1, <2>2, UsesStay DEF IInv, UsesOK
<1>15. SessionsFit(sessions', status, member) /\ SameOwners(sessions, sessions')
  BY <1>1, SameFit DEF IInv, SessionsOK
<1>16. Idle \in RequestRow /\ RequestOK(Idle, sessions, member)
  BY IdleIsRow DEF IInv
<1>17. RequestsOK' /\ SessionsOK'
  BY <1>1, <1>3, <1>15, <1>16, MembersSame, RequestsMove, SessionsStay DEF IInv
<1>18. RolesOK' /\ TablesOK' /\ InvitesOK' /\ PasswordsOK'
  BY <1>1, RolesStay, TablesStay, InvitesStay, PasswordsStay DEF IInv
<1>19. QED
  BY <1>13, <1>14, <1>17, <1>18 DEF IInv

LEMMA CompleteResetKeeps ==
    ASSUME IInv, NEW n \in 1..Len(resets), CompleteReset(n), UNCHANGED <<grants, inviting>>
    PROVE  IInv'
<1>1. /\ UNCHANGED <<clock, status, member>> /\ UNCHANGED <<grants, privileged>>
      /\ UNCHANGED inviting /\ UNCHANGED member /\ UNCHANGED request
      /\ codes' = codes /\ consumed' = consumed /\ enrolled' = enrolled
  BY DEF CompleteReset, factors
<1>2. resets[n] \in Reset /\ resets[n].who \in Identity /\ ~resets[n].used
  <2>1. resets[n] \in Reset
    BY DEF IInv, ResetsOK
  <2>2. ~resets[n].used
    BY DEF CompleteReset, ResetTaken
  <2>3. QED
    BY <2>1, <2>2 DEF Reset
<1>3. PICK i \in Identity : i = resets[n].who
  BY <1>2
<1>4. PICK row, c, p : /\ row = [resets[n] EXCEPT !.used = TRUE]
                       /\ c = <<"reset", i, n>>
                       /\ p = [value |-> lastSet[i] + 1, old |-> FALSE]
  OBVIOUS
<1>5. resets' = [resets EXCEPT ![n] = row]
  BY <1>4 DEF CompleteReset
<1>6. sessions' = RevokeSessions(sessions, OwnSessions(i))
  BY <1>3 DEF CompleteReset, RevokeAll
<1>7. uses' = [uses EXCEPT ![c] = @ + 1]
  BY <1>3, <1>4 DEF CompleteReset
<1>8. PasswordsOK'
  <2>1. lastSet[i] + 1 \in Nat
    BY DEF IInv, PasswordsOK
  <2>2. p \in Password /\ p.value = lastSet[i] + 1
    BY <1>4, <2>1 DEF Password
  <2>3. password' = [password EXCEPT ![i] = p] /\ lastSet' = [lastSet EXCEPT ![i] = p.value]
    BY <1>3, <1>4, <2>2 DEF CompleteReset
  <2>4. QED
    BY <2>2, <2>3, PasswordSet DEF IInv
<1>9. MoreUsed(resets, resets') /\ resets'[n].used
  <2>1. row \in Reset /\ row.who = resets[n].who /\ row.used
    BY <1>2, <1>4 DEF Reset
  <2>2. QED
    BY <1>5, <2>1 DEF MoreUsed, IInv, ResetsOK
<1>10. ResetsOK'
  <2>1. RetiredApart'
    BY <1>1 DEF IInv, ResetsOK, RetiredApart
  <2>2. QED
    BY <1>1, <1>9, <2>1, UsedKeepsResets DEF IInv, ResetsOK, MoreUsed
<1>11. UsesOK'
  <2>1. c[1] = "reset" /\ c[3] = n
    BY <1>4
  <2>2. ~Spent(c)
    BY <1>2, <2>1 DEF Spent
  <2>3. Spent(c)'
    BY <1>9, <2>1 DEF Spent, MoreUsed
  <2>4. StaysSpent
    BY <1>1, <1>9, UsedStaysSpent DEF IInv
  <2>5. QED
    BY <1>1, <1>7, <2>2, <2>3, <2>4, UsesOnce DEF IInv
<1>12. SessionsFit(sessions', status, member) /\ SameOwners(sessions, sessions')
  BY <1>6, RevokedFits DEF IInv
<1>13. RequestsOK' /\ SessionsOK'
  BY <1>1, <1>12, MembersSame, RequestsStay, SessionsStay DEF IInv
<1>14. RolesOK' /\ TablesOK' /\ InvitesOK'
  BY <1>1, RolesStay, TablesStay, InvitesStay DEF IInv
<1>15. QED
  BY <1>8, <1>10, <1>11, <1>13, <1>14 DEF IInv

LEMMA TickKeeps ==
    ASSUME IInv, Tick, UNCHANGED <<grants, inviting>>
    PROVE  IInv'
<1>1. /\ UNCHANGED <<status, member>> /\ UNCHANGED <<grants, privileged>>
      /\ UNCHANGED inviting /\ UNCHANGED member /\ UNCHANGED request /\ UNCHANGED resets
      /\ UNCHANGED proofs /\ UNCHANGED <<password, lastSet>> /\ UNCHANGED sessions
  BY DEF Tick, credentials, proofs, factors, resetting
<1>2. TablesOK'
  BY <1>1 DEF Tick, TablesOK, IInv
<1>3. SessionsFit(sessions', status, member) /\ SameOwners(sessions, sessions')
  BY <1>1, SameFit DEF IInv, SessionsOK
<1>4. RequestsOK' /\ SessionsOK'
  BY <1>1, <1>3, MembersSame, RequestsStay, SessionsStay DEF IInv
<1>5. ResetsOK' /\ UsesOK'
  BY <1>1, ResetsStay, ProofsKept DEF IInv
<1>6. RolesOK' /\ InvitesOK' /\ PasswordsOK'
  BY <1>1, RolesStay, InvitesStay, PasswordsStay DEF IInv
<1>7. QED
  BY <1>2, <1>4, <1>5, <1>6 DEF IInv

-----------------------------------------------------------------------------
(* The steps of roles, identities and invitations.                           *)

\* Steps that leave requests, sessions and credentials alone.
LEMMA ApartKeeps ==
    ASSUME IInv, UNCHANGED <<clock, status, member>>, UNCHANGED <<password, lastSet>>,
           UNCHANGED sessions, UNCHANGED request, UNCHANGED proofs, UNCHANGED resets,
           RolesOK', InvitesOK'
    PROVE  IInv'
<1>1. SessionsFit(sessions', status, member) /\ SameOwners(sessions, sessions')
  BY SameFit DEF IInv, SessionsOK
<1>2. RequestsOK' /\ SessionsOK'
  BY <1>1, MembersSame, RequestsStay, SessionsStay DEF IInv
<1>3. ResetsOK' /\ UsesOK'
  BY ResetsStay, ProofsKept DEF IInv
<1>4. TablesOK' /\ PasswordsOK'
  BY TablesStay, PasswordsStay DEF IInv
<1>5. QED
  BY <1>2, <1>3, <1>4 DEF IInv

LEMMA RolesKeep ==
    ASSUME IInv, NEW i \in Identity, NEW o \in Org, NEW role \in Role,
           GrantRole(i, o, role) \/ RevokeRole(i, o, role)
    PROVE  IInv'
<1>1. /\ UNCHANGED <<clock, status, member>> /\ UNCHANGED <<password, lastSet>>
      /\ UNCHANGED sessions /\ UNCHANGED request /\ UNCHANGED proofs /\ UNCHANGED resets
      /\ UNCHANGED inviting
  BY DEF GrantRole, RevokeRole, proofs, factors, resetting
<1>2. InvitesOK'
  BY <1>1, InvitesStay DEF IInv
<1>3. RolesOK'
  BY GrantKeepsRoles, RevokeKeepsRoles DEF GrantRole, IInv
<1>4. QED
  BY <1>1, <1>2, <1>3, ApartKeeps

LEMMA InvitationsKeep ==
    ASSUME IInv,
           \/ \E o \in Org, i \in Identity, role \in Role : IssueInvitation(o, i, role)
           \/ \E n \in DOMAIN invitations : Withdraw(n) \/ Resend(n)
    PROVE  IInv'
<1>1. /\ UNCHANGED <<clock, status, member>> /\ UNCHANGED <<password, lastSet>>
      /\ UNCHANGED sessions /\ UNCHANGED request /\ UNCHANGED proofs /\ UNCHANGED resets
      /\ UNCHANGED <<grants, privileged>>
  BY DEF IssueInvitation, Withdraw, Resend, proofs, factors, resetting, credentials
<1>2. InvitesOK'
  BY IssueKeepsInvites, WithdrawKeepsInvites, ResendKeepsInvites DEF IInv
<1>3. RolesOK'
  BY <1>1, RolesStay DEF IInv
<1>4. QED
  BY <1>1, <1>2, <1>3, ApartKeeps

LEMMA DeactivateUserKeeps ==
    ASSUME IInv, NEW i \in Identity, DeactivateUser(i)
    PROVE  IInv'
<1>1. /\ UNCHANGED clock /\ UNCHANGED <<password, lastSet>> /\ UNCHANGED <<grants, privileged>>
      /\ UNCHANGED request /\ UNCHANGED proofs /\ UNCHANGED resets /\ UNCHANGED inviting
      /\ UNCHANGED member
  BY DEF DeactivateUser, proofs, factors, resetting
<1>2. /\ status' = [status EXCEPT ![i] = "deactivated"]
      /\ sessions' = RevokeSessions(sessions, OwnSessions(i))
  BY DEF DeactivateUser, RevokeAll
<1>3. TablesOK' /\ \A j \in Identity : j # i => status'[j] = status[j]
  BY <1>1, <1>2 DEF IInv, TablesOK
<1>4. ASSUME NEW s \in Sid, s \notin OwnSessions(i)
      PROVE  status'[sessions[s].who] = status[sessions[s].who]
  <2>1. sessions[s] \in Session /\ s \in DOMAIN sessions
    BY ASession DEF IInv, SessionsOK, SessionsFit, Sid
  <2>2. sessions[s].who \in Identity /\ sessions[s].who # i
    BY <1>4, <2>1 DEF OwnSessions, Session
  <2>3. QED
    BY <1>3, <2>2
<1>5. SessionsFit(sessions', status', member) /\ SameOwners(sessions, sessions')
  BY <1>2, <1>4, RevokedFits DEF IInv
<1>6. SessionsOK'
  BY <1>1, <1>5 DEF SessionsOK
<1>7. RequestsOK'
  BY <1>1, <1>5, MembersSame, RequestsStay DEF IInv
<1>8. ResetsOK' /\ UsesOK' /\ RolesOK' /\ InvitesOK' /\ PasswordsOK'
  BY <1>1, ResetsStay, ProofsKept, RolesStay, InvitesStay, PasswordsStay DEF IInv
<1>9. QED
  BY <1>3, <1>6, <1>7, <1>8 DEF IInv

LEMMA LookupKeeps ==
    ASSUME IInv, NEW r \in Request, NEW n \in DOMAIN invitations, NEW k \in 0..MaxSent,
           Lookup(r, <<n, k>>)
    PROVE  IInv'
<1>1. PICK t : t = <<n, k>>
  OBVIOUS
<1>2. n \in Nat /\ k \in Nat
  BY DEF IInv, InvitesOK
<1>3. t \in Nat \X Nat
  BY <1>1, <1>2
<1>4. Lookup(r, t)
  BY <1>1
<1>5. MovesOn(r)
  <2>1. CASE ~TurnedAway(r) /\ t \in tokens
    <3>1. PICK q : q = [request[r] EXCEPT !.pc = "found", !.token = t]
      OBVIOUS
    <3>2. request' = Moved(r, q) /\ request[r].op = "accept"
      BY <1>4, <2>1, <3>1 DEF Lookup, Moved, At
    <3>3. "found" \in Pcs /\ "found" \notin Settled /\ "accept" \notin Owned
      BY DEF Pcs, Settled, Owned
    <3>4. q \in RequestRow /\ Kept(request[r], q) /\ q.pc = "found"
      <4>1. request[r] \in RequestRow
        BY ARequest
      <4>2. QED
        BY <1>3, <3>1, <3>3, <4>1 DEF RequestRow, Kept
    <3>5. RequestOK(q, sessions, member)
      BY <3>2, <3>3, <3>4, ARequest, StillOK DEF Kept
    <3>6. QED
      BY <3>2, <3>4, <3>5 DEF MovesOn, Retired
  <2>2. CASE ~(~TurnedAway(r) /\ t \in tokens)
    BY <1>4, <2>2, DoneMoves DEF Lookup
  <2>3. QED
    BY <2>1, <2>2
<1>6. UNCHANGED aside /\ UNCHANGED proofs /\ UNCHANGED sessions
  BY <1>4 DEF Lookup, aside, proofs, resetting, factors
<1>7. QED
  BY <1>5, <1>6, QuietMoveKeeps

LEMMA AcceptRefusedKeeps ==
    ASSUME IInv, NEW r \in Request, AcceptRefused(r)
    PROVE  IInv'
<1>1. Done(r) /\ UNCHANGED aside /\ UNCHANGED proofs /\ UNCHANGED sessions
  BY DEF AcceptRefused, aside, proofs, resetting, factors
<1>2. QED
  BY <1>1, DoneMoves, QuietMoveKeeps

LEMMA SignInJoinedKeeps ==
    ASSUME IInv, NEW r \in Request, SignInJoined(r)
    PROVE  IInv'
<1>1. PICK verified \in BOOLEAN : verified = (Requirement(request[r].who) = "none")
  OBVIOUS
<1>2. Issue(request[r].who, verified) /\ Done(r) /\ request[r].pc = "joined"
  BY <1>1 DEF SignInJoined, At
<1>3. request[r].who \in Identity
  BY <1>2, ARequest DEF RequestOK, Settled
<1>4. SessionsFit(sessions', status, member) /\ SameOwners(sessions, sessions')
  BY <1>2, <1>3, IssueFits DEF IInv
<1>5. UNCHANGED aside /\ UNCHANGED proofs
  BY DEF SignInJoined, aside, proofs, resetting, factors
<1>6. QED
  BY <1>2, <1>4, <1>5, DoneMoves, SessionMoveKeeps

LEMMA AcceptKeeps ==
    ASSUME IInv, NEW r \in Request, Accept(r)
    PROVE  IInv'
<1>1. PICK t, n : t = request[r].token /\ n = t[1]
  BY Zenon
<1>2. /\ t \in tokens /\ Open(n) /\ request[r].op = "accept"
      /\ tokens' = Discarded(n)
      /\ Grants(invitations[n].who, invitations[n].org, invitations[n].role)
      /\ UNCHANGED clock /\ UNCHANGED sessions /\ UNCHANGED proofs /\ UNCHANGED resets
  BY <1>1, Zenon DEF Accept, Live, At, proofs, factors, resetting
<1>3. /\ n \in DOMAIN invitations /\ t[2] = invitations[n].sent
      /\ invitations[n] \in Invitation
  BY <1>1, <1>2 DEF IInv, InvitesOK, TokensAreLast
<1>4. PICK i \in Identity, o \in Org : i = invitations[n].who /\ o = invitations[n].org
  BY <1>3 DEF Invitation
<1>5. RolesOK'
  BY <1>2, <1>3, <1>4, GrantKeepsRoles DEF IInv, Invitation
<1>6. /\ status' = [status EXCEPT ![i] = IF status[i] = "none" THEN "active" ELSE status[i]]
      /\ member' = [member EXCEPT ![i] = member[i] \cup {o}]
      /\ TablesOK'
  <2>1. /\ status' = [status EXCEPT ![i] = IF status[i] = "none" THEN "active" ELSE status[i]]
        /\ member' = [member EXCEPT ![i] = member[i] \cup {o}]
    BY <1>1, <1>4, Zenon DEF Accept
  <2>2. clock' \in Nat /\ status' \in [Identity -> {"none", "active", "deactivated"}]
    BY <1>2, <2>1 DEF IInv, TablesOK
  <2>3. member' \in [Identity -> SUBSET Org]
    BY <2>1 DEF IInv, TablesOK
  <2>4. QED
    BY <2>1, <2>2, <2>3 DEF TablesOK
<1>7. /\ \A j \in Identity : status[j] # "deactivated" => status'[j] # "deactivated"
      /\ MembersStay
  BY <1>6 DEF IInv, TablesOK, MembersStay
<1>8. PasswordsOK'
  <2>1. PICK p : p = IF status[i] = "none" THEN [value |-> 1, old |-> FALSE] ELSE password[i]
    OBVIOUS
  <2>2. p \in Password /\ p.value = IF status[i] = "none" THEN 1 ELSE lastSet[i]
    BY <2>1 DEF Password, IInv, PasswordsOK, LastPasswordStands
  <2>3. password' = [password EXCEPT ![i] = p] /\ lastSet' = [lastSet EXCEPT ![i] = p.value]
    BY <1>1, <1>4, <2>1, <2>2, Zenon DEF Accept
  <2>4. QED
    BY <2>2, <2>3, PasswordSet DEF IInv
<1>9. InvitesOK'
  <2>1. PICK row, a : /\ row = [invitations[n] EXCEPT !.state = "used"]
                      /\ a = <<n, t[2], i>>
    BY Zenon
  <2>2. row \in Invitation /\ row.sent = t[2] /\ row.state = "used" /\ a[1] = n /\ a[2] = t[2]
    BY <1>3, <2>1 DEF Invitation
  <2>3. invitations' = [invitations EXCEPT ![n] = row] /\ accepted' = accepted \cup {a}
    BY <1>1, <1>4, <2>1, Zenon DEF Accept
  <2>4. /\ invitations' \in Seq(Invitation) /\ DOMAIN invitations' = DOMAIN invitations
        /\ invitations'[n] = row
        /\ \A m \in DOMAIN invitations : m # n => invitations'[m] = invitations[m]
    BY <1>3, <2>2, <2>3 DEF IInv, InvitesOK
  <2>5. TokensAreLast'
    BY <1>2, <2>4 DEF Discarded, TokensAreLast, IInv, InvitesOK
  <2>6. ASSUME NEW b \in accepted
        PROVE  /\ b[1] \in DOMAIN invitations /\ b[1] # n
               /\ invitations[b[1]].state = "used" /\ invitations[b[1]].sent = b[2]
    BY <1>2 DEF IInv, InvitesOK, AcceptedOnce, Open
  <2>7. AcceptedOnce'
    <3>1. ASSUME NEW b \in accepted'
          PROVE  invitations'[b[1]].state = "used" /\ invitations'[b[1]].sent = b[2]
      BY <2>2, <2>3, <2>4, <2>6
    <3>2. ASSUME NEW b \in accepted', NEW d \in accepted', b[1] = d[1]
          PROVE  b = d
      BY <2>2, <2>3, <2>6, <3>2 DEF IInv, InvitesOK, AcceptedOnce
    <3>3. QED
      BY <3>1, <3>2 DEF AcceptedOnce
  <2>8. \A b \in accepted' : b[1] \in DOMAIN invitations'
    BY <1>3, <2>2, <2>3, <2>4, <2>6
  <2>9. QED
    BY <2>4, <2>5, <2>7, <2>8 DEF InvitesOK
<1>10. /\ SessionsOK' /\ SameOwners(sessions, sessions')
  <2>1. Len(sessions) \in Nat /\ sessions \in [1..Len(sessions) -> Session]
    BY DEF IInv, SessionsOK, SessionsFit
  <2>2. ASSUME NEW s \in 1..Len(sessions)
        PROVE  /\ NoMoreAlive(sessions[s], sessions[s])
               /\ sessions[s].live => status'[sessions[s].who] # "deactivated"
               /\ sessions[s].org \in member'[sessions[s].who] \cup {NoOrg}
    <3>1. sessions[s].who \in Identity
      BY <2>1 DEF Session
    <3>2. QED
      BY <1>7, <3>1 DEF IInv, SessionsOK, SessionsFit, NoMoreAlive, MembersStay
  <2>3. SessionsFit(sessions, status', member') /\ SameOwners(sessions, sessions)
    <3>1. NoWorse(sessions, sessions, status', member')
      BY <2>1, <2>2 DEF NoWorse
    <3>2. QED
      BY <3>1, Weakened DEF IInv, SessionsOK
  <2>4. QED
    BY <1>2, <2>3 DEF SessionsOK
<1>11. PICK q : q = IF request[r].sid # 0 THEN Idle ELSE About(request[r], "joined", i)
  OBVIOUS
<1>12. request' = Moved(r, q)
  BY <1>1, <1>4, <1>11, Zenon DEF Accept, Moved, About
<1>13. q \in RequestRow /\ RequestOK(q, sessions, member) /\ ~Retired(q)
  <2>1. CASE request[r].sid # 0
    BY <1>11, <2>1, IdleIsRow DEF IInv, Retired
  <2>2. CASE request[r].sid = 0
    <3>1. "joined" \in Pcs /\ "accept" \notin Owned /\ q = About(request[r], "joined", i)
      BY <1>11, <2>2 DEF Pcs, Owned
    <3>2. q \in RequestRow /\ Kept(request[r], q) /\ q.pc = "joined" /\ q.who = i
      BY <3>1, ARequest, AboutRow
    <3>3. RequestOK(q, sessions, member)
      BY <1>2, <3>1, <3>2, ARequest, StillOK DEF Kept
    <3>4. QED
      BY <3>2, <3>3 DEF Retired
  <2>3. QED
    BY <2>1, <2>2
<1>14. RequestsOK' /\ ResetsOK'
  BY <1>2, <1>7, <1>10, <1>12, <1>13, RequestsMove, ResetsGoOn DEF IInv
<1>15. UsesOK'
  BY <1>2, ProofsKept DEF IInv
<1>16. QED
  BY <1>5, <1>6, <1>8, <1>9, <1>10, <1>14, <1>15 DEF IInv

-----------------------------------------------------------------------------
(* The invariant of the specification.                                       *)

LEMMA InvStart == ASSUME Init PROVE IInv
<1>1. RolesOK
  BY RolesStart
<1>2. TablesOK
  <2>1. /\ clock = 0
        /\ status = [i \in Identity |-> IF i \in {Admin} \cup Joined THEN "active" ELSE "none"]
    BY DEF Init
  <2>2. member = [i \in Identity |-> IF i = Admin THEN Org ELSE
                                     IF i \in Joined THEN {CHOOSE o \in Org : TRUE} ELSE {}]
    BY DEF Init
  <2>3. ASSUME NEW i \in Joined PROVE (CHOOSE o \in Org : TRUE) \in Org
    <3>1. \E o \in Org : TRUE
      BY IdentityAssumption DEF IdentityAssumption
    <3>2. QED
      BY <3>1, Zenon
  <2>4. member \in [Identity -> SUBSET Org]
    BY <2>2, <2>3
  <2>5. QED
    BY <2>1, <2>4 DEF TablesOK
<1>3. PasswordsOK
  <2>1. /\ password = [i \in Identity |->
                        [value |-> IF status[i] = "none" THEN 0 ELSE 1, old |-> TRUE]]
        /\ lastSet = [i \in Identity |-> password[i].value]
    BY DEF Init
  <2>2. ASSUME NEW i \in Identity
        PROVE  password[i] \in Password /\ lastSet[i] = password[i].value
    BY <2>1 DEF Password
  <2>3. \A i \in Identity : lastSet[i] \in Nat
    BY <2>2 DEF Password
  <2>4. QED
    BY <2>1, <2>2, <2>3 DEF PasswordsOK, LastPasswordStands
<1>4. InvitesOK
  <2>1. invitations = <<>> /\ tokens = {} /\ accepted = {}
    BY DEF Init
  <2>2. QED
    BY <2>1 DEF InvitesOK, TokensAreLast, AcceptedOnce
<1>5. SessionsOK
  <2>1. sessions = <<>>
    BY DEF Init
  <2>2. QED
    BY <2>1 DEF SessionsOK, SessionsFit
<1>6. request = [r \in Request |-> Idle]
  BY DEF Init
<1>7. RequestsOK
  BY <1>5, <1>6, IdleIsRow DEF RequestsOK
<1>8. ResetsOK
  <2>1. resets = <<>>
    BY DEF Init
  <2>2. \A r \in Request : ~Retired(request[r])
    BY <1>5, <1>6, IdleIsRow DEF Retired
  <2>3. QED
    BY <2>1, <2>2 DEF ResetsOK, OneLiveReset, RetiredApart
<1>9. UsesOK
  <2>1. uses = [c \in Credential |-> 0] /\ codes = {} /\ enrolled = <<>>
    BY DEF Init
  <2>2. QED
    BY <2>1 DEF UsesOK
<1>10. QED
  BY <1>1, <1>2, <1>3, <1>4, <1>5, <1>7, <1>8, <1>9 DEF IInv

\* Any step of a request keeps the invariant.
LEMMA SessionStepKeeps ==
    ASSUME IInv, NEW r \in Request, SessionStep(r), UNCHANGED <<grants, inviting>>
    PROVE  IInv'
<1>1. CASE \E op \in SessionOps, s \in Sid : Arrive(r, op, s)
  BY <1>1, ArriveKeeps
<1>2. CASE \E op \in {"login", "reset", "accept"} : ArriveAnonymously(r, op)
  BY <1>2, ArriveAnonymouslyKeeps
<1>3. CASE \E i \in Identity : LoginCheck(r, i) \/ AskReset(r, i)
  BY <1>3, LoginCheckKeeps, AskResetKeeps
<1>4. CASE \E p \in 1..MaxPasswords : LoginVerify(r, p)
  BY <1>4, LoginVerifyKeeps
<1>5. CASE Rehash(r) \/ LoginSucceeds(r) \/ LoginIssues(r)
  BY <1>5, RehashKeeps, LoginSucceedsKeeps, LoginIssuesKeeps
<1>6. CASE Logout(r) \/ ListOthers(r) \/ RevokeOthers(r) \/ \E s \in Sid : RevokeOne(r, s)
  BY <1>6, ListOthersKeeps, RevokingKeeps DEF Logout, RevokeOthers, RevokeOne
<1>7. CASE \E o \in Org : SelectOrganization(r, o)
  BY <1>7, SelectOrganizationKeeps
<1>8. CASE EnrollReauth(r) \/ Enroll(r) \/ DisableCheck(r) \/ RemoveFactor(r) \/ CompleteMfa(r)
  BY <1>8, EnrollReauthKeeps, EnrollKeeps, DisableCheckKeeps, RemoveFactorKeeps, CompleteMfaKeeps
<1>9. CASE \E n \in 0..Len(enrolled), t \in 0..MaxClock + 1 :
            \/ Confirm(r, n, t)
            \/ \E recovery \in BOOLEAN :
                Verify(r, n, t, recovery) \/ DisableVerify(r, n, t, recovery)
  BY <1>9, ConfirmKeeps, VerifyKeeps
<1>10. CASE SendReset(r)
  BY <1>10, SendResetKeeps
<1>11. QED
  BY <1>1, <1>2, <1>3, <1>4, <1>5, <1>6, <1>7, <1>8, <1>9, <1>10, Zenon DEF SessionStep

LEMMA InvStep == ASSUME IInv, [Next]_vars PROVE IInv'
<1>1. CASE SessionNext /\ UNCHANGED <<grants, inviting>>
  <2>1. CASE \E r \in Request : SessionStep(r)
    BY <1>1, <2>1, SessionStepKeeps
  <2>2. CASE \E n \in 1..Len(resets) : CompleteReset(n)
    BY <1>1, <2>2, CompleteResetKeeps
  <2>3. CASE Tick
    BY <1>1, <2>3, TickKeeps
  <2>4. QED
    BY <1>1, <2>1, <2>2, <2>3, Zenon DEF SessionNext
<1>2. CASE \E i \in Identity, o \in Org, role \in Role :
            GrantRole(i, o, role) \/ RevokeRole(i, o, role)
  BY <1>2, RolesKeep
<1>3. CASE \/ \E o \in Org, i \in Identity, role \in Role : IssueInvitation(o, i, role)
           \/ \E n \in DOMAIN invitations : Withdraw(n) \/ Resend(n)
  BY <1>3, InvitationsKeep
<1>4. CASE \E i \in Identity : DeactivateUser(i)
  BY <1>4, DeactivateUserKeeps
<1>5. CASE \E r \in Request, n \in DOMAIN invitations, k \in 0..MaxSent : Lookup(r, <<n, k>>)
  BY <1>5, LookupKeeps
<1>6. CASE \E r \in Request : Accept(r) \/ AcceptRefused(r) \/ SignInJoined(r)
  BY <1>6, AcceptKeeps, AcceptRefusedKeeps, SignInJoinedKeeps
<1>7. CASE UNCHANGED vars
  <2>1. /\ UNCHANGED <<clock, status, member>> /\ UNCHANGED <<password, lastSet>>
        /\ UNCHANGED sessions /\ UNCHANGED request /\ UNCHANGED proofs /\ UNCHANGED resets
        /\ UNCHANGED <<grants, privileged>> /\ UNCHANGED inviting
    BY <1>7 DEF vars, sessionVars, credentials, factors, resetting, proofs
  <2>2. RolesOK' /\ InvitesOK'
    BY <2>1, RolesStay, InvitesStay DEF IInv
  <2>3. QED
    BY <2>1, <2>2, ApartKeeps
<1>8. QED
  BY <1>1, <1>2, <1>3, <1>4, <1>5, <1>6, <1>7, Zenon DEF Next

\* The invariant holds of every behaviour.
THEOREM IdentityInvariant == Spec => []IInv
<1>1. QED
  BY InvStart, InvStep, PTL DEF Spec

\* The counter the MFA gate reads never drifts from the grants of roles that require MFA:
\* a repeated grant is not counted, a revocation is counted once, and the role an
\* invitation gives is counted with it.
THEOREM CounterIsExact == Spec => []CountMatchesGrants
<1>1. IInv => CountMatchesGrants
  BY DEF IInv, RolesOK
<1>2. QED
  BY <1>1, IdentityInvariant, PTL

\* Whatever requests of however many identities interleave, a live session's identity is
\* not deactivated, a sign-in has one live descendant, and a session works in an
\* organization its identity belongs to.
THEOREM SessionsAreSound == Spec => []SessionsHold
<1>1. IInv => SessionsHold
  BY DEF IInv, SessionsOK, SessionsFit, SessionsHold, DeactivatedSignedOut, OneLiveSuccessor,
         SessionOrgIsMember, Sid
<1>2. QED
  BY <1>1, IdentityInvariant, PTL

\* No time step, recovery code, reset token or invitation proves anything twice, one reset
\* of an identity may still be used, and the stored password is the one last set.
THEOREM CredentialsAreSound == Spec => []CredentialsHold
<1>1. IInv => ProvesOnce
  BY DEF IInv, UsesOK, ProvesOnce
<1>2. IInv => OneLiveReset /\ AcceptedOnce /\ LastPasswordStands
  BY DEF IInv, ResetsOK, InvitesOK, PasswordsOK
<1>3. IInv => CredentialsHold
  BY <1>1, <1>2 DEF CredentialsHold
<1>4. QED
  BY <1>3, IdentityInvariant, PTL

-----------------------------------------------------------------------------
(* Access.  The rows of the recursive query and the scopes on the way up are *)
(* two recursions over the same steps; they are compared step by step.       *)

NatLess == {ss \in Nat \X Nat : ss[1] < ss[2]}

\* Induction on a set of naturals: one that it does not hold would have a least element.
LEMMA SetInduction ==
    ASSUME NEW S, 0 \in S, \A n \in Nat : n \in S => n + 1 \in S
    PROVE  Nat \subseteq S
<1> DEFINE T == Nat \ S
<1>1. SUFFICES ASSUME T # {} PROVE FALSE
  OBVIOUS
<1>2. IsWellFoundedOn(NatLess, Nat)
  BY NatLessThanWellFounded DEF OpToRel, NatLess
<1>3. PICK x \in T : \A y \in T : ~(<<y, x>> \in NatLess)
  BY <1>1, <1>2, WFMin
<1>4. \A y \in T : ~(y < x)
  BY <1>3 DEF NatLess
<1>5. x - 1 \in Nat /\ x - 1 \in S
  BY <1>4
<1>6. QED
  BY <1>3, <1>5

\* Scopes are contained as they were registered: a unit in the organization, a project in a unit
\* or a project.
AccessInv ==
    /\ within = [s \in Registered |-> within[s]] /\ Registered \subseteq Unit \cup Plan
    /\ \A s \in Registered : /\ within[s].roll \in BOOLEAN
                             /\ s \in Unit => within[s].parent = Company
                             /\ s \in Plan => within[s].parent \in Unit \cup Plan

LEMMA AccessStart == AccessInit => AccessInv
<1> SUFFICES ASSUME AccessInit PROVE AccessInv
  OBVIOUS
<1>1. Registered = {} /\ within = [s \in {} |-> [parent |-> Company, roll |-> TRUE]]
  BY DEF AccessInit, Registered
<1>2. QED
  BY <1>1 DEF AccessInv

LEMMA AccessStep == AccessInv /\ [AccessNext]_accessVars => AccessInv'
<1> SUFFICES ASSUME AccessInv, [AccessNext]_accessVars PROVE AccessInv'
  OBVIOUS
<1>1. CASE within' = within
  BY <1>1 DEF AccessInv, Registered
<1>2. ASSUME NEW s \in Unit \cup Plan, NEW parent \in Scope, NEW roll \in BOOLEAN,
             RegisterScope(s, parent, roll)
      PROVE  AccessInv'
  <2>1. within' = [t \in Registered \cup {s} |->
                     IF t = s THEN [parent |-> parent, roll |-> roll] ELSE within[t]]
    BY <1>2 DEF RegisterScope
  <2>2. Registered' = Registered \cup {s}
    BY <2>1 DEF Registered
  <2>3. /\ s \in Unit => parent = Company
        /\ s \in Plan => parent \in Unit \cup Plan
    BY <1>2, AccessAssumption DEF RegisterScope, RightParent, AccessInv
  <2>4. \A t \in Registered' : /\ within'[t].roll \in BOOLEAN
                               /\ t \in Unit => within'[t].parent = Company
                               /\ t \in Plan => within'[t].parent \in Unit \cup Plan
    BY <2>1, <2>2, <2>3 DEF AccessInv
  <2>5. within' = [t \in Registered' |-> within'[t]]
    BY <2>1, <2>2
  <2>6. Registered' \subseteq Unit \cup Plan
    BY <2>2 DEF AccessInv
  <2>7. QED
    BY <2>4, <2>5, <2>6 DEF AccessInv, Registered
<1>3. CASE AccessNext
  BY <1>1, <1>2, <1>3 DEF AccessNext, TogglePermission, AssignRole, UnassignRole, Leave, NextDate
<1>4. QED
  BY <1>1, <1>3 DEF accessVars

Steps == Cardinality(Scope)

\* One more round of the recursive query, and of the way up.
MoreRows(rows) == rows \cup {ParentRow(row) : row \in {x \in rows : x.scope \in Registered}}
MoreScopes(scopes, open) == scopes \cup {within[s].parent : s \in scopes \cap open}

IsRows(f, target, n) ==
    f = [k \in 0..n |-> IF k = 0 THEN {[scope |-> target, grants |-> TRUE]} ELSE MoreRows(f[k - 1])]
IsWayUp(f, target, open, n) ==
    f = [k \in 0..n |-> IF k = 0 THEN {target} ELSE MoreScopes(f[k - 1], open)]

\* Both recursions have a solution.
LEMMA RowsExist ==
    ASSUME NEW target, NEW n \in Nat
    PROVE  \E f : IsRows(f, target, n)
<1> DEFINE S == {m \in Nat : \E f : IsRows(f, target, m)}
<1>1. 0 \in S
  <2>1. PICK f : f = [k \in 0..0 |-> {[scope |-> target, grants |-> TRUE]}]
    OBVIOUS
  <2>2. IsRows(f, target, 0)
    BY <2>1 DEF IsRows
  <2>3. QED
    BY <2>2
<1>2. ASSUME NEW m \in Nat, m \in S PROVE m + 1 \in S
  <2>1. PICK g : IsRows(g, target, m)
    BY <1>2
  <2>2. PICK f : f = [k \in 0..(m + 1) |-> IF k = m + 1 THEN MoreRows(g[m]) ELSE g[k]]
    OBVIOUS
  <2>3. \A k \in 0..m : g[k] = IF k = 0 THEN {[scope |-> target, grants |-> TRUE]}
                               ELSE MoreRows(g[k - 1])
    BY <2>1 DEF IsRows
  <2>4. ASSUME NEW k \in 0..(m + 1)
        PROVE  f[k] = IF k = 0 THEN {[scope |-> target, grants |-> TRUE]} ELSE MoreRows(f[k - 1])
    <3>1. CASE k = m + 1
      <4>1. f[k] = MoreRows(g[m]) /\ f[k - 1] = g[m] /\ k # 0
        BY <2>2, <3>1
      <4>2. QED
        BY <4>1
    <3>2. CASE k # m + 1
      <4>1. k \in 0..m /\ f[k] = g[k] /\ (k # 0 => f[k - 1] = g[k - 1])
        BY <2>2, <3>2
      <4>2. QED
        BY <2>3, <4>1
    <3>3. QED
      BY <3>1, <3>2
  <2>5. f = [k \in 0..(m + 1) |-> f[k]]
    BY <2>2
  <2>6. IsRows(f, target, m + 1)
    BY <2>4, <2>5 DEF IsRows
  <2>7. QED
    BY <2>6
<1>3. n \in S
  BY <1>1, <1>2, SetInduction
<1>4. QED
  BY <1>3

LEMMA WayUpExists ==
    ASSUME NEW target, NEW open, NEW n \in Nat
    PROVE  \E f : IsWayUp(f, target, open, n)
<1> DEFINE S == {m \in Nat : \E f : IsWayUp(f, target, open, m)}
<1>1. 0 \in S
  <2>1. PICK f : f = [k \in 0..0 |-> {target}]
    OBVIOUS
  <2>2. IsWayUp(f, target, open, 0)
    BY <2>1 DEF IsWayUp
  <2>3. QED
    BY <2>2
<1>2. ASSUME NEW m \in Nat, m \in S PROVE m + 1 \in S
  <2>1. PICK g : IsWayUp(g, target, open, m)
    BY <1>2
  <2>2. PICK f : f = [k \in 0..(m + 1) |-> IF k = m + 1 THEN MoreScopes(g[m], open) ELSE g[k]]
    OBVIOUS
  <2>3. \A k \in 0..m : g[k] = IF k = 0 THEN {target} ELSE MoreScopes(g[k - 1], open)
    BY <2>1 DEF IsWayUp
  <2>4. ASSUME NEW k \in 0..(m + 1)
        PROVE  f[k] = IF k = 0 THEN {target} ELSE MoreScopes(f[k - 1], open)
    <3>1. CASE k = m + 1
      <4>1. f[k] = MoreScopes(g[m], open) /\ f[k - 1] = g[m] /\ k # 0
        BY <2>2, <3>1
      <4>2. QED
        BY <4>1
    <3>2. CASE k # m + 1
      <4>1. k \in 0..m /\ f[k] = g[k] /\ (k # 0 => f[k - 1] = g[k - 1])
        BY <2>2, <3>2
      <4>2. QED
        BY <2>3, <4>1
    <3>3. QED
      BY <3>1, <3>2
  <2>5. f = [k \in 0..(m + 1) |-> f[k]]
    BY <2>2
  <2>6. IsWayUp(f, target, open, m + 1)
    BY <2>4, <2>5 DEF IsWayUp
  <2>7. QED
    BY <2>6
<1>3. n \in S
  BY <1>1, <1>2, SetInduction
<1>4. QED
  BY <1>3

LEMMA StepsNat == Steps \in Nat
<1>1. IsFiniteSet(Scope)
  BY AccessAssumption, FS_AddElement DEF Scope
<1>2. QED
  BY <1>1, FS_CardinalityType DEF Steps

LEMMA AncestorsAre ==
    ASSUME NEW target
    PROVE  \E f : IsRows(f, target, Steps) /\ Ancestors(target) = f[Steps]
<1> DEFINE f == CHOOSE g : IsRows(g, target, Steps)
<1>1. IsRows(f, target, Steps)
  BY RowsExist, StepsNat
<1>2. Ancestors(target) = f[Steps]
  BY DEF Ancestors, Steps, MoreRows, IsRows
<1>3. QED
  BY <1>1, <1>2

LEMMA UpwardsAre ==
    ASSUME NEW target, NEW open
    PROVE  \E f : IsWayUp(f, target, open, Steps) /\ Upwards(target, open) = f[Steps]
<1> DEFINE f == CHOOSE g : IsWayUp(g, target, open, Steps)
<1>1. IsWayUp(f, target, open, Steps)
  BY WayUpExists, StepsNat
<1>2. Upwards(target, open) = f[Steps]
  BY DEF Upwards, Steps, MoreScopes, IsWayUp
<1>3. QED
  BY <1>1, <1>2

\* What the recursions do at the start and at a step.
RowsGrow(f, target, n) ==
    /\ f[0] = {[scope |-> target, grants |-> TRUE]}
    /\ \A k \in Nat : k + 1 \in 0..n => f[k + 1] = MoreRows(f[k])
ScopesGrow(f, target, open, n) ==
    /\ f[0] = {target}
    /\ \A k \in Nat : k + 1 \in 0..n => f[k + 1] = MoreScopes(f[k], open)

LEMMA RowsStep ==
    ASSUME NEW target, NEW n \in Nat, NEW f, IsRows(f, target, n)
    PROVE  RowsGrow(f, target, n)
<1>1. \A k \in 0..n : f[k] = IF k = 0 THEN {[scope |-> target, grants |-> TRUE]}
                             ELSE MoreRows(f[k - 1])
  BY DEF IsRows
<1>2. f[0] = {[scope |-> target, grants |-> TRUE]}
  BY <1>1
<1>3. ASSUME NEW k \in Nat, k + 1 \in 0..n PROVE f[k + 1] = MoreRows(f[k])
  <2>1. k + 1 # 0 /\ (k + 1) - 1 = k
    OBVIOUS
  <2>2. QED
    BY <1>1, <1>3, <2>1
<1>4. QED
  BY <1>2, <1>3 DEF RowsGrow

LEMMA WayUpStep ==
    ASSUME NEW target, NEW open, NEW n \in Nat, NEW f, IsWayUp(f, target, open, n)
    PROVE  ScopesGrow(f, target, open, n)
<1>1. \A k \in 0..n : f[k] = IF k = 0 THEN {target} ELSE MoreScopes(f[k - 1], open)
  BY DEF IsWayUp
<1>2. f[0] = {target}
  BY <1>1
<1>3. ASSUME NEW k \in Nat, k + 1 \in 0..n PROVE f[k + 1] = MoreScopes(f[k], open)
  <2>1. k + 1 # 0 /\ (k + 1) - 1 = k
    OBVIOUS
  <2>2. QED
    BY <1>1, <1>3, <2>1
<1>4. QED
  BY <1>2, <1>3 DEF ScopesGrow

Rolling == {s \in Registered : within[s].roll}

\* The rows name the scopes on the way up, and carry a grant on a project exactly along the edges
\* that roll down: above a project whose edge leads to a project there are only such edges below.
LEMMA RowsClimb ==
    ASSUME AccessInv, NEW target, NEW n \in Nat, NEW f, NEW u, NEW v,
           IsRows(f, target, n), IsWayUp(u, target, Registered, n), IsWayUp(v, target, Rolling, n)
    PROVE  /\ \A s : (\E row \in f[n] : row.scope = s) <=> s \in u[n]
           /\ \A s \in Plan : (\E row \in f[n] : row.scope = s /\ row.grants) <=> s \in v[n]
<1> DEFINE Named(k) == \A s : (\E row \in f[k] : row.scope = s) <=> s \in u[k]
           Granted(k) ==
              \A s \in Plan : (\E row \in f[k] : row.scope = s /\ row.grants) <=> s \in v[k]
           S == {k \in Nat : k \in 0..n => Named(k) /\ Granted(k)}
<1>1. /\ f[0] = {[scope |-> target, grants |-> TRUE]} /\ u[0] = {target} /\ v[0] = {target}
      /\ \A k \in Nat : k + 1 \in 0..n => /\ f[k + 1] = MoreRows(f[k])
                                          /\ u[k + 1] = MoreScopes(u[k], Registered)
                                          /\ v[k + 1] = MoreScopes(v[k], Rolling)
  <2>1. /\ f[0] = {[scope |-> target, grants |-> TRUE]}
        /\ \A k \in Nat : k + 1 \in 0..n => f[k + 1] = MoreRows(f[k])
    <3>1. RowsGrow(f, target, n)
      BY RowsStep
    <3>2. QED
      BY <3>1 DEF RowsGrow
  <2>2. u[0] = {target} /\ \A k \in Nat : k + 1 \in 0..n => u[k + 1] = MoreScopes(u[k], Registered)
    <3>1. ScopesGrow(u, target, Registered, n)
      BY WayUpStep
    <3>2. QED
      BY <3>1 DEF ScopesGrow
  <2>3. v[0] = {target} /\ \A k \in Nat : k + 1 \in 0..n => v[k + 1] = MoreScopes(v[k], Rolling)
    <3>1. ScopesGrow(v, target, Rolling, n)
      BY WayUpStep
    <3>2. QED
      BY <3>1 DEF ScopesGrow
  <2>4. QED
    BY <2>1, <2>2, <2>3
<1>2. 0 \in S
  <2>1. Named(0)
    BY <1>1
  <2>2. Granted(0)
    BY <1>1
  <2>3. QED
    BY <2>1, <2>2
<1>3. ASSUME NEW k \in Nat, k \in S PROVE k + 1 \in S
  <2>1. SUFFICES ASSUME k + 1 \in 0..n PROVE Named(k + 1) /\ Granted(k + 1)
    OBVIOUS
  <2>2. k \in 0..n /\ Named(k) /\ Granted(k)
    BY <1>3, <2>1
  <2>3. /\ f[k + 1] = MoreRows(f[k]) /\ u[k + 1] = MoreScopes(u[k], Registered)
        /\ v[k + 1] = MoreScopes(v[k], Rolling)
    BY <1>1, <2>1
  <2>4. ASSUME NEW row
        PROVE  /\ ParentRow(row).scope = within[row.scope].parent
               /\ ParentRow(row).grants =
                    (row.grants /\ (within[row.scope].parent \in Plan => within[row.scope].roll))
    BY DEF ParentRow
  <2>5. Named(k + 1)
    <3>1. ASSUME NEW s
          PROVE  (\E row \in f[k + 1] : row.scope = s) <=>
                    \/ \E row \in f[k] : row.scope = s
                    \/ \E row \in f[k] : row.scope \in Registered /\ within[row.scope].parent = s
      BY <2>3, <2>4 DEF MoreRows
    <3>2. ASSUME NEW s
          PROVE  s \in u[k + 1] <=>
                    s \in u[k] \/ \E t \in u[k] : t \in Registered /\ within[t].parent = s
      BY <2>3 DEF MoreScopes
    <3>3. ASSUME NEW s
          PROVE  (\E row \in f[k] : row.scope \in Registered /\ within[row.scope].parent = s) <=>
                    \E t \in u[k] : t \in Registered /\ within[t].parent = s
      BY <2>2
    <3>4. QED
      BY <2>2, <3>1, <3>2, <3>3
  <2>6. Granted(k + 1)
    <3>1. ASSUME NEW s \in Plan
          PROVE  (\E row \in f[k + 1] : row.scope = s /\ row.grants) <=>
                    \/ \E row \in f[k] : row.scope = s /\ row.grants
                    \/ \E row \in f[k] : /\ row.scope \in Rolling /\ row.grants
                                         /\ within[row.scope].parent = s
      <4>1. \A row : row.scope \in Registered /\ within[row.scope].parent = s =>
                       (ParentRow(row).grants <=> row.grants /\ row.scope \in Rolling)
        BY <2>4 DEF Rolling
      <4>2. QED
        BY <2>3, <2>4, <4>1 DEF MoreRows, Rolling
    <3>2. ASSUME NEW s
          PROVE  s \in v[k + 1] <=>
                    s \in v[k] \/ \E t \in v[k] : t \in Rolling /\ within[t].parent = s
      BY <2>3 DEF MoreScopes
    <3>3. ASSUME NEW s \in Plan, NEW t \in Registered, within[t].parent = s PROVE t \in Plan
      BY <3>3, AccessAssumption DEF AccessInv
    <3>4. ASSUME NEW s \in Plan
          PROVE  (\E row \in f[k] : /\ row.scope \in Rolling /\ row.grants
                                    /\ within[row.scope].parent = s) <=>
                    \E t \in v[k] : t \in Rolling /\ within[t].parent = s
      <4>1. \A t \in Rolling : within[t].parent = s => t \in Plan
        BY <3>3 DEF Rolling
      <4>2. QED
        BY <2>2, <4>1
    <3>5. QED
      BY <2>2, <3>1, <3>2, <3>4
  <2>7. QED
    BY <2>5, <2>6
<1>4. n \in S
  <2> HIDE DEF S
  <2>1. QED
    BY <1>2, <1>3, SetInduction
<1>5. QED
  BY <1>4

\* The grants the query finds are the current ones that reach the target.
LEMMA EligibleReach ==
    ASSUME AccessInv, NEW target
    PROVE  EligibleGrants(target) = {a \in assigned : a.from <= date /\ Reaches(a.scope, target)}
<1>1. PICK f : IsRows(f, target, Steps) /\ Ancestors(target) = f[Steps]
  BY AncestorsAre
<1>2. PICK u : IsWayUp(u, target, Registered, Steps) /\ Upwards(target, Registered) = u[Steps]
  BY UpwardsAre
<1>3. PICK v : IsWayUp(v, target, Rolling, Steps) /\ Upwards(target, Rolling) = v[Steps]
  BY UpwardsAre
<1>4. /\ \A s : (\E row \in f[Steps] : row.scope = s) <=> s \in u[Steps]
      /\ \A s \in Plan : (\E row \in f[Steps] : row.scope = s /\ row.grants) <=> s \in v[Steps]
  BY <1>1, <1>2, <1>3, RowsClimb, StepsNat
<1>5. ASSUME NEW s
      PROVE  Reaches(s, target) <=>
                \/ s = Company
                \/ \E row \in Ancestors(target) : row.scope = s /\ (s \in Plan => row.grants)
  <2>1. CASE s \in Plan
    <3>1. Reaches(s, target) <=> s = Company \/ s \in Upwards(target, Rolling)
      BY <2>1 DEF Reaches, Rolling
    <3>2. QED
      BY <1>1, <1>3, <1>4, <2>1, <3>1
  <2>2. CASE s \notin Plan
    <3>1. Reaches(s, target) <=> s = Company \/ s \in Upwards(target, Registered)
      BY <2>2 DEF Reaches
    <3>2. QED
      BY <1>1, <1>2, <1>4, <2>2, <3>1
  <2>3. QED
    BY <2>1, <2>2
<1>6. QED
  BY <1>5 DEF EligibleGrants

AgreesOn(u, p, target, reaching) ==
    LET allowed == \E a \in reaching : p \in allows[a.role]
    IN  /\ (Decide(u, p, target) = "allowed") = allowed
        /\ (u \in Holders(p, target)) = (allowed /\ u \in activeUser)
        /\ Decide(u, p, target) = "forbidden" => reaching # {} \/ target = Company

\* A request is allowed exactly to those whom a current grant reaches, the holders of a permission
\* are the active people who would be allowed, and a scope is confirmed to nobody else, whatever
\* scopes, roles and dates there are (check, _decide, _holders).
THEOREM AccessIsContainment == AccessSpec => []AccessAgrees
<1>1. AccessInv => AccessAgrees
  <2> SUFFICES ASSUME AccessInv, NEW u \in User, NEW target, NEW p \in Permission
               PROVE  AgreesOn(u, p, target,
                               {a \in assigned : a.user = u /\ a.from <= date
                                                 /\ Reaches(a.scope, target)})
    BY DEF AccessAgrees, AgreesOn
  <2> DEFINE reaching == {a \in assigned : a.user = u /\ a.from <= date
                                           /\ Reaches(a.scope, target)}
  <2> HIDE DEF reaching
  <2>1. reaching = {a \in EligibleGrants(target) : a.user = u}
    BY EligibleReach DEF reaching
  <2>2. Check(u, p, target) <=> \E a \in reaching : p \in allows[a.role]
    BY <2>1 DEF Check
  <2>3. ScopeMatched(u, target) <=> reaching # {}
    BY <2>1 DEF ScopeMatched
  <2>4. (u \in Holders(p, target)) <=> (Check(u, p, target) /\ u \in activeUser)
    BY DEF Holders, Check
  <2>5. /\ (Decide(u, p, target) = "allowed") <=> Check(u, p, target)
        /\ Decide(u, p, target) = "forbidden" => ScopeMatched(u, target) \/ target = Company
    BY DEF Decide
  <2>6. AgreesOn(u, p, target, reaching)
    <3> DEFINE may == \E a \in reaching : p \in allows[a.role]
    <3>1. (Decide(u, p, target) = "allowed") <=> may
      BY <2>2, <2>5
    <3>2. (u \in Holders(p, target)) <=> may /\ u \in activeUser
      BY <2>2, <2>4
    <3>3. (Decide(u, p, target) = "allowed") = may
      BY <3>1
    <3>4. (u \in Holders(p, target)) = (may /\ u \in activeUser)
      BY <3>2
    <3>5. QED
      BY <2>3, <2>5, <3>3, <3>4 DEF AgreesOn
  <2>7. QED
    BY <2>6 DEF reaching
<1>2. QED
  BY <1>1, AccessStart, AccessStep, PTL DEF AccessSpec
=============================================================================
