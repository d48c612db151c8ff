SPECIFICATION FairSpec
CONSTANTS
    Live = live
    Groups = {live}
    Submissions = {a}
    GroupOf <- MCGroupOf
    NoOne = none
    MaxScores = 1
    MaxVisibility = 2
    MaxCalls = 1
    MaxFaults = 1
    MayCall = {"save", "regenerate"}
    MayLose = {1}
INVARIANT
    SentIsOnItsWay
PROPERTIES
    VisibilityBeforeData
    RankingCatchesUp
