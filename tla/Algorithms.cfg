\* Every proposal of two items over a chain of three relations, and every plan for those of
\* one; three expressions; conversations of four messages; drains of three episodes; three
\* model turns.
SPECIFICATION PartSpec
CONSTANTS
    Relations = {1, 2, 3}
    Edges <- Chain
    Indexes <- SomeIndexes
    JoinTrees <- SomeTrees
    Proposals <- SomeProposals
    PlanSpace <- SomePlans
    MaxItems = 2
    MaxExplained = 1
    Catalog <- SomeCatalog
    Topology <- SomeTopology
    Expressions <- SomeExpressions
    Imports <- SomeImports
    Earlier <- SomeEarlier
    MaxExpressions = 3
    Headings <- SomeHeadings
    Messages <- SomeMessages
    Selected <- SomeSelected
    Manifests <- SomeManifests
    Renderings <- SomeRenderings
    ContextLength = 2
    MaxConversations = 3
    MaxMessages = 4
    Settings <- SomeSettings
    Grace = 1
    ModelConfigs <- SomeConfigs
    Servers <- SomeServers
    ServedReplies <- SomeReplies
    ToolResult = "result"
    AstraInput = 9
    AstraOutput = 3
    AstraContext = 11
    RouterOutput = 3
    RouterContext = 9
    MaxTurns = 3
INVARIANTS
    ActionsAreSound
    AcceptedIsSatisfiable
    VerdictIsMeaning
    SplitsAreDisjoint
    PackedIsWhatIsLearned
    DrainFits
    HistoryIsWhole
CHECK_DEADLOCK FALSE
