\* One person logs in for the first time on two devices at once.
CONSTANTS
    A = A
    B = B
    f1 = f1
    f2 = f2
    s1 = s1
    s2 = s2
    People <- MCPeople
    Ids = {1, 2}
    Families = {f1, f2}
    Invites = {i1}
    InviteRoles = {"parent"}
    Sessions = {s1, s2}
    MaxMembers = 2
    Requests = {}
    NoOne = NoOne
SPECIFICATION Spec
INVARIANT OneFamilyEver
CHECK_DEADLOCK FALSE
