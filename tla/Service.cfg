CONSTANTS
    task1 = task1
    task2 = task2
    task3 = task3
    Tasks = {task1, task2, task3}
    Size <- ServiceSize
    Capacity = 4
    MinFree = 1
    LocalBudget = 4
    DownWindow = 2
    UpWindow = 1
    Limits <- ServiceLimits
    MaxMishaps = 1
    Accounts = {p1, p2}
    NoAccount = NoAccount
    MaxClients = 3
    MaxCommands = 7
    Readers = {q1, q2}
    Announced = {1, 3}
    MaxWaits = 2
    MaxWaited = 4
    ReduceInterval = 1
    RecoverInterval = 2
    MaxWindow = 3
    MaxTime = 6
    Delay = 1
    Cooldown = 2
    MaxTicks = 6
    feed1 = feed1
    plan1 = plan1
    plan2 = plan2
    screen1 = screen1
    Feeds = {feed1}
    Offers = {plan1, plan2}
    FeedOf <- OffersOf
    Screens = {screen1, screen2}
    Slots = {h1, h2}
    Nobody = Nobody
    MaxInputs = 3
    Jobs = {j1}
    Untouched = Untouched
    MaxPresses = 4
    Members = {m1}
    MaxMembers = 1
    Terminals = {t1, t2}
    MaxOrders = 2
    Askers = {a1, a2}
    HealthInterval = 2
    Soon = 1
    Refusal = 3
    RateBase = 1
    RateTop = 3
    MaxStrikes = 2
    Grace = 1
    Ceiling = 3
    RampUp = 1
    GrowthPause = 1
    TrialPause = 2
    MaxMoment = 4
SPECIFICATION ServiceSpec
INVARIANTS
    ServiceTypeOK WithinBudgets LostIsTrue SessionExclusive EnabledIsReady
PROPERTIES
    WindowShared PausesKept NoticesInOrder ShownIsDone GrantsAsShown
    CleaningSpares
CHECK_DEADLOCK FALSE
