CONSTANTS
    Calls = {c1}
    Chapters = 1
    MaxRevision = 8
    MaxEdits = 0
    MaxDisruptions = 0
SPECIFICATION Spec
PROPERTIES
    ChaptersAreSavedToDrafts
CHECK_DEADLOCK FALSE
