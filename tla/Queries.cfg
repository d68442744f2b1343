SPECIFICATION Spec
CHECK_DEADLOCK FALSE
CONSTANTS
    Contents <- SomeContents
    Given <- SomeGiven
    CacheLimit = 2
    MaxSteps = 3
INVARIANTS
    TypeOK
    AnswerIsMeant
    IndexAnswersOne
    JoinsArePairs
    GroupsAreMeant
    ViewsFilter
PROPERTIES
    DeletesWhatItMeans
