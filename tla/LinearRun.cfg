SPECIFICATION Spec
CONSTANTS
    Runs = {1, 2}
    Faulty = TRUE
    Scenes <- AllScenes
INVARIANTS OrderIsRight RunsApart NeverStarved ManifestComplete
PROPERTIES RunsEnd ScheduleRefined
CHECK_DEADLOCK FALSE
