CONSTANTS
    r1 = r1
    r2 = r2
    st1 = st1
    st2 = st2
    s1 = s1
    s2 = s2
    html = html
    csv = csv
    plain = plain
    metric = metric
    broken = broken
    q1 = q1
    q2 = q2
    Requests <- OneRequest
    Stages <- TwoStages
    Keys <- TwoVersions
    Sources <- OneSource
    Recipes <- MetricOrBroken
    Rules <- TwoRules
    NoRecipe = NoRecipe
    NoStage = NoStage
    NoSubject = NoSubject
    NoRule = NoRule
    Compiles <- MetricOnly
    RefsOf <- MetricRefs
    RowRulesOf <- MetricRowRules
    SystemKeys <- SeededSubject
    SeedRecipe = metric
    SeedRules <- OneRule
    Overridden <- NoRules
    MaxId = 3
    Faults = FALSE
SPECIFICATION FairSpec
INVARIANTS EvidenceHasSubject
PROPERTIES OnlyProposalsDangle ImplementsReview PublishIsSettled BoundRulesStay ReapLeavesNoOrphan
