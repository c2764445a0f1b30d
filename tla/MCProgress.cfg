SPECIFICATION ProgressSpec
CHECK_DEADLOCK FALSE
PROPERTIES
    EventuallyFinished EventsSettle EveryDocumentEnds RequestsEnd
