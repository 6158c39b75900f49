CONSTANTS
    IntMax = 63
    OpBudget = 40
    MaxIterations = 6
    UnionLimit = 5
    ProductLimit = 6
    SpanLimit = 8
    WordBits = 4
    WordOps = 12
    ResidueBudget = 5
    WalkBudget = 9
    ModulusCap = 12
    ExpandLimit = 6
    Leaves <- MCLeaves
    Alignments <- MCAlignments
    Counts <- MCCounts
    Divisors <- MCDivisors
    Literals <- MCLiterals
    MaxSteps = 4

SPECIFICATION Spec

INVARIANTS
    RunsAreExact
    AnswersAreExact
