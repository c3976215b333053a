CONSTANTS
    r1 = r1
    r2 = r2
    st1 = st1
    st2 = st2
    s1 = s1
    s2 = s2
    html = html
    csv = csv
    plain = plain
    metric = metric
    broken = broken
    q1 = q1
    q2 = q2
    Requests <- TwoRequests
    Stages <- OneStage
    Keys <- TwoSubjects
    Sources <- OneSource
    Recipes <- GoodRecipes
    Rules <- OneRule
    NoRecipe = NoRecipe
    NoStage = NoStage
    NoSubject = NoSubject
    NoRule = NoRule
    Compiles <- GoodRecipes
    RefsOf <- MetricRefs
    RowRulesOf <- PlainRowRules
    SystemKeys <- SeededSubject
    SeedRecipe = metric
    SeedRules <- OneRule
    Overridden <- NoRules
    MaxId = 3
    Faults = TRUE
SPECIFICATION Spec
INVARIANTS IInv ApprovedIsLive
PROPERTIES RecipeStable ReapSparesBound
SYMMETRY Symmetry
