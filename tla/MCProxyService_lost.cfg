SPECIFICATION FairSpec
CONSTANTS
    Live = live
    Groups = {live}
    Submissions = {a}
    GroupOf <- MCGroupOf
    NoOne = none
    MaxScores = 2
    MaxVisibility = 2
    MaxCalls = 0
    MaxFaults = 1
    MayCall = {}
    MayLose = {1, 2}
PROPERTIES
    RankingCatchesUp
