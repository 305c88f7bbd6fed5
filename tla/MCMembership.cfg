\* Two people, either of whom may found a family, invite and be invited; two requests at a time.
CONSTANTS
    A = A
    B = B
    f1 = f1
    f2 = f2
    s1 = s1
    s2 = s2
    People <- MCPeople
    Ids = {1, 2}
    Families = {f1, f2}
    Invites = {i1}
    InviteRoles = {"parent"}
    Sessions = {s1, s2}
    MaxMembers = 2
    Requests = {"remove", "leave", "quit", "transfer", "transferLeave", "deleteAlone", "deleteAll"}
    NoOne = NoOne
SPECIFICATION Spec
SYMMETRY MCSymmetry
INVARIANT OneOwner
INVARIANT OwnerCacheAgrees
INVARIANT OneFamily
CHECK_DEADLOCK FALSE
