\* Receipts, checkpoints and anchors under the offline verifiers.
SPECIFICATION MCSpec
CONSTANT None = none
INVARIANTS
    VerdictIsTrue
    AttributionIsEarned
    AnswerIsTrue
    MonitorIsTrue
PROPERTIES
    HistoryOutlivesKeys
CHECK_DEADLOCK FALSE
