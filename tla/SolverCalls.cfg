CONSTANTS
    Assumable <- MCAssumable
    Problems <- MCProblems
    Asked <- MCAsked
    Clauses <- MCClauses
    Budgets = {0}
    Times <- MCTimes
    MinRounds = 1
    MaxRounds = 2
    Growth = 2
    SmallCore = 2
SPECIFICATION FairSpec
INVARIANTS TypeOK AnswerOfCall RetryOnce CoreSound MinimalIfAnswered ScoreIsOfCore
    NeverWorse MaximalIfAnswered
PROPERTY CoreFound
