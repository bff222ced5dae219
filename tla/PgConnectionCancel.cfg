CONSTANT MaxQueries = 3
SPECIFICATION SilentSpec
PROPERTY CancelStopsWaiting
CHECK_DEADLOCK FALSE
