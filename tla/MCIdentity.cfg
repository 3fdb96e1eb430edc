\* Two requests in flight, an administrator of both organizations, a user of one and a guest.
SPECIFICATION IdentitySpec
CONSTANTS
    r1 = r1
    r2 = r2
    admin = admin
    user = user
    guest = guest
    Identity = {admin, user, guest}
    Org = {o1, o2}
    NoOrg = NoOrg
    Request = {r1, r2}
    Client <- Clients
    IdleTimeout = 1
    AbsoluteTimeout = 2
    ReauthAge = 1
    ThrottleWindow = 2
    IdentityMax = 1
    ClientMax = 2
    FactorMax = 2
    FactorWindow = 2
    LockDuration = 1
    ResetTtl = 1
    ResetWindow = 1
    ResetEmailMax = 2
    ResetClientMax = 2
    Mixes <- FamilyMixes
    MaxClock = 2
    MaxSessions = 3
    MaxPasswords = 2
    MaxEnrollments = 2
    MaxResets = 2
    Role = {adminRole, plain}
    MfaRole = {adminRole}
    Admin = admin
    Joined = {user}
    AdminRole = adminRole
    InvitationTtl = 1
    MaxInvitations = 2
    MaxSent = 1
    User = {user}
    RoleId = {plain}
    Permission = {approve}
    Unit = {unit}
    Plan = {g1, g2, g3}
    Company = company
    MaxToday = 1
    MaxAssigned = 2
SYMMETRY Symmetry
INVARIANTS SessionsHold CredentialsHold CountMatchesGrants AccessAgrees
CHECK_DEADLOCK FALSE
