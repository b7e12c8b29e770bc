\* Every command of the program: one part runs at a time, the processes it meets beside it.
SPECIFICATION Spec
CONSTANTS
    Unknown = Unknown
    Model = {"opus", "claude-opus", "gpt"}
    Harness = {"codex", "codex-cli", "claude", "pi"}
    Profile = {"work", "home"}
    Route = {"r1", "r2"}
    Family = {"claude", "anthropic", "openai", "other-family"}
    Capability = {"code", "tool-use", "review"}
    Skill = {"dev"}
    Families <- MCFamilies
    Models <- MCModels
    Harnesses <- MCHarnesses
    Policies <- MCPolicies
    Elsewhere = Elsewhere
    MaxFacts = 3
    Requests <- MCRequests
    Replies <- MCReplies
    Item = {1, 2}
    Entries <- MCEntries
    Statuses <- MCStatuses
    Routes <- MCRoutes
    Revisions = {1, 2}
    Ttl = 2
    LiveTtl = 1
    MaxClock = 2
    Tools <- MCTools
    Queries <- MCQueries
    Sources <- MCSources
    Replied <- MCReplied
    Sidecars <- MCSidecars
    Externals <- MCExternals
    MaxConcurrent = 2
    Asked = {"zai", "kimi"}
    Request = {1, 2}
    MaxFrames = 3
    Admin = {"a1", "a2"}
    Session = {"s1"}
    ChromeProfile = {"Default", "Profile 1"}
    Default = "Default"
    Explicit = {"Profile 1"}
    Installed <- MCInstalled
    MaxBundle = 1
    Daemon = {d1, d2}
    Client = {c1}
    Port = {p1}
    None = None
    Stranger = Stranger
    Faults = {"crash", "lost", "slow", "io"}
INVARIANTS JudgedByEvidence AdviceIsSound DormantUnlessReady UnprovenScoresLowest EligibilityFollowsGate ClaimIsCurrent NothingUnsaid LastListedWins OnlyVerifiedFacts ReceiptTellsWhatIsStored KeyOnlyFromCleanRun HelperKeepsItsWord CountsAreLive
PROPERTIES OnlySuccessIsSaved CommandsEnd
\* A command ends.
CHECK_DEADLOCK FALSE
