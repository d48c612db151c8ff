SPECIFICATION Spec
CONSTANTS
    Live = live
    Groups = {live}
    Submissions = {a}
    GroupOf <- MCGroupOf
    NoOne = none
    MaxScores = 2
    MaxVisibility = 2
    MaxCalls = 1
    MaxFaults = 0
    MayCall = {"save", "lost", "dataset", "regenerate"}
    MayLose = {1}
INVARIANT
    SentIsOnItsWay
