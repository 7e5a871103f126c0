SPECIFICATION Spec
CONSTANTS
    User <- Users
    Guest <- Guests
    Nobody = Nobody
    Minute = 3
    Hours = 4
    Days = 2
    Limit = 12
    Warn15 = 11
    Warn5 = 7
    Warn1 = 3
    Script <- Scripts
    Configs <- SomeConfigs
    Missing = Missing
    RunTime = 3
    Horizon = 20
    gp1 = gp1
    staff = staff
    gp2 = gp2
    s1 = s1
    s2 = s2
INVARIANT WarningsShown
