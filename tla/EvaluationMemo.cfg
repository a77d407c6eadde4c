CONSTANTS
    None = None
    Nodes <- MCNodes
    Children <- MCChildren
    Own <- MCOwn
    Meaning <- MCMeaning
    Anonymous = {5}
    Capturable = {2, 3}
    Batches <- MCBatches
SPECIFICATION Spec
INVARIANTS TypeOK NoEntryWithoutConsumer CountsKept MemoMeaning ComputedOnce
PROPERTIES StreamsAsAlone
CHECK_DEADLOCK FALSE
