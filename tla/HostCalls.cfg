SPECIFICATION Spec
CONSTANTS
    Nothing = Nothing
    Asks <- MCAsks
    Texts <- MCTexts
    Services <- MCServices
INVARIANTS
    AsksReachTheCore
    AnswersArrive
