SPECIFICATION ProvenanceSpec
CONSTANTS
    r1 = r1
    r2 = r2
    c1 = c1
    c2 = c2
    c3 = c3
    k1 = k1
    k2 = k2
    k3 = k3
    k4 = k4
    a1 = a1
    old = old
    base = base
    own = own
    embedder = embedder
    openai = openai
    anthropic = anthropic
    Runs = {r1, r2}
    Calls = {c1, c2, c3}
    RunOf <- MCRunOf
    Keys = {k1, k2, k3, k4}
    Answers = {a1, old}
    Older = {old}
    Bad = Bad
    None = None
    Partial = Partial
    MaxKills = 1
    Asks <- MCAsks
    Request <- MCRequest
    Model = base
    StageModels <- MCStageModels
    EmbeddingModel = embedder
    Temperature = 0
    Seed = 7
    Provider <- MCProvider
    Honours <- MCHonours
    Usage <- MCUsage
    AnthropicModels = {own}
    Stages <- MCStages
INVARIANTS
    OnlyValidatedRepliesServe
    AccountsAreOfTheRun
PROPERTIES
    RecordingIsFinal
