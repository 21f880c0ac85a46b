CONSTANTS
    Thread = {"fsm", "generator"}
    NoThread = "none"
    MaxNesting = 2
SPECIFICATION Spec
INVARIANT AtomicBlocksExclude
