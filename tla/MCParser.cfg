CONSTANTS
    Programs <- MCPrograms
    Layouts <- LayoutsOf
    Parse <- ParseOf
    Expected <- ExpectedOf
SPECIFICATION Spec
INVARIANTS Parses Rejects LineBreakEnds
CHECK_DEADLOCK FALSE
