SPECIFICATION ToolsSpec
CONSTANTS
    d1 = d1
    d2 = d2
    GoalCount = 2
    Dirs <- MCDirs
    Bench <- MCBench
    Manifest <- MCManifest
    Images = {"cm", "br"}
    Baseline <- MCBaseline
    Outcome <- MCOutcome
    Args <- MCArgs
    Repos <- MCRepos
    GuardBenches = {"cm"}
    GuardRef <- MCGuardRef
    Possible <- MCPossible
    Sound <- MCSound
    Faster <- MCFaster
    Kept <- MCKept
    Reuse = TRUE
    ByHand = TRUE
    MaxRuns = 2
    TestSeq <- MCTestSeq
    ComplianceArgs <- MCComplianceArgs
    MaxEdits = 1
    MaxCalls = 3
    BootFiles <- MCBootFiles
    BootArgs <- MCBootArgs
    BootOutcome <- MCBootOutcome
    MaxBoots = 2
    Program <- MCProgram
    PlatformRow <- MCPlatformRow
    RowSeq <- MCRowSeq
    PlatformArgs <- MCPlatformArgs
    MaxEdit = 2
    MaxPrepare = 2
    Groups <- MCGroups
    Sets = 2
    Levels = 2
    PerEntry = 3
    MaxEvents = 6
SYMMETRY MCSymmetry
INVARIANT SignoffIsEarned
INVARIANT GoalEvidence
INVARIANT GuardHolds
INVARIANT EmitIsFresh
INVARIANT ParsersAgree
INVARIANT ClaimIsEarned
INVARIANT ForcedTestsSources
INVARIANT BootIsEarned
INVARIANT SummaryTells
INVARIANT LoadsProgram
INVARIANT HitsAreHeads
INVARIANT VictimIsOld
INVARIANT RecoveryIsRevisit
CHECK_DEADLOCK FALSE
