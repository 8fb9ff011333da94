SPECIFICATION Spec
CONSTANTS
    Users = {u_a, u_b, u_c}
    Names = {n1, n2}
    Passwords = {pw}
    Short = short
    Empty = empty
    ApiKeys = {k1}
    Desks = {r1, r2}
    MaxRequests = 3
    Years = 6
    LeapYears = {0, 3}
    FirstWeekday = 2
    Zones <- TheZones
    Nows <- TheNows
    Explicit <- TheTimes
    Offsets = {0, 1}
    Hits <- TheHits
    Null = null
    MaxRows = 3
    Ticks = 2
    SessionGap = 1
    Bucket <- TheBucket
    EventLower = 16
    StoredDays <- TheStoredDays
    StoredScopes <- TheStoredScopes
    Within <- TheWithin
    Leads <- TheLeads
    Normal <- TheNormal
    Section <- TheSection
    Channel <- TheChannel
    Namespace <- TheNamespace
    Now = 28
    FilterSets <- TheFilters
    Spans <- TheSpans
    Limits = {1, 2}
    OverFetch = 2
    Bodies <- TheBodies
    Callers <- TheCallers
    MaxDimensions = 2
    MaxLimit = 3
    MaxCardinality = 3
    Visits30 = 3
    LateHits <- TheLateHits
    Principals <- ThePrincipals
    WebSites = {"w1", "w2"}
    SiteRank <- TheRank
    NoSite = "none"
    Preferences <- ThePreferences
    SaveForms <- TheSaveForms
    BotDefaults <- TheBotDefaults
    Savers = {r1, r2}
    MaxSaves = 2
    MaxSiteWrites = 1
    DashIds = {"d1", "d2"}
    Titles = {"one", "two"}
    Layouts <- TheLayouts
    Shelves <- TheShelves
    SafeIds = {"b1", "b2"}
    PresetSpan <- ThePresets
    FallbackPreset = "all"
    Slices <- TheSlices
    Editors = {r1, r2}
    MaxEdits = 2
    WidgetForms <- TheWidgetForms
    BoardFilters <- TheBoardFilters
    MaxPreviews = 2
    Owners = {o1}
    GrantScopes = {a}
    Slots = {r1, r2}
    MaxActive = 1
    RequestLife = 2
    CodeLife = 1
    AccessLife = 1
    RefreshLife = 2
    PersonalLives <- PersonalLifetimes
    AuditRetention = 0
    LastTick = 1
    MaxConsents = 1
    MaxConnections = 2
    MaxCredentials = 6
    MaxPasswords = 2
INVARIANTS
    LockoutNeedsARace
    PresetsAgree
    RangesAreExact
    ReportsAddUp
    AnswersAddUp
    PreferenceIsTheLastSaved
    ScopeOnlyNarrows
    LastSentIsStored
    PreviewIsLatest
    OneLiveCredential
    RevokedHasNoCredentials
    OneConnectionPerConsent
    ApprovedByThisPassword
    QuotaHolds
PROPERTIES
    DeletedStaysDeleted
    AnswersAreAuthorized
    CleanupKeepsWhatCounts
SYMMETRY Interchangeable
CHECK_DEADLOCK FALSE
