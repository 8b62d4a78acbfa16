SPECIFICATION Spec
CONSTANTS
    u1 = u1
    u2 = u2
    h1 = h1
    h2 = h2
    claude = claude
    p = p
    s1 = s1
    g = g
    Unset = Unset
    Agents <- MCAgents
    Me <- M
    MyGroups = {g}
    GroupsOf <- MCGroupsOf
    Groups = {g}
    Calls <- MCCalls
    MaxMoves = 3
VIEW
    Matters
INVARIANTS
    TypeOK
    OnlyVisibleHear
    NoArbitraryDelivery
    ShortestUnique
    SteadyHear
    RosterAccounts
