SPECIFICATION SharedSpec
CONSTANT MAX_TASKS = 3
PROPERTY ScanEnds
