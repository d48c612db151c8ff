SPECIFICATION FairSpec
CONSTANTS
    Live = live
    Groups = {live}
    Submissions = {a}
    GroupOf <- MCGroupOf
    NoOne = none
    MaxScores = 0
    MaxVisibility = 2
    MaxCalls = 1
    MaxFaults = 0
    MayCall = {"save"}
    MayLose = {1}
PROPERTIES
    HiddenStaysHidden
