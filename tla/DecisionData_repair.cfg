SPECIFICATION FairSpec
CONSTANTS
    r1 = r1
    r2 = r2
    d1 = d1
    d2 = d2
    Replica = {r1}
    Dept = {d1, d2}
    Family = {"ipv4", "ipv6"}
    Settings <- SomeSettings
    FirstSettings <- SettingsAtFirst
    Memberships <- MovedUser
    FirstMember = {d1}
    MaxWrites = 1
    MaxEvents = 3
PROPERTIES EventuallyFresh
CHECK_DEADLOCK FALSE
