SPECIFICATION SimulationSpec
CONSTANTS
    Prefix <- MCPrefix
    LabelNames <- MCLabelNames
    Configs <- MCConfigs
    Metrics <- MCMetrics
    Queries <- MCQueries
    Datapoints <- MCDatapoints
    Null = Null
    MaxRequests = 3
    MaxWrites = 2
    Texts <- MCTexts
    Now = Now
    Milli = 10
    Horizon = 12
    References <- MCReferences
    Garbled = Garbled
    MaxClicks = 2
INVARIANT SeriesApart
INVARIANT ReadsBack
INVARIANT GapsFilled
INVARIANT MeantIsPredicted
INVARIANT OutputsAnswerLastClick
\* The requests are bounded, and a panic ends the process.
CHECK_DEADLOCK FALSE
