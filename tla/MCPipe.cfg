SPECIFICATION FairSpec
CONSTANT Idle = 3
INVARIANTS EndedBySilence
PROPERTIES NothingAfterTeardown EndingOnly BothEnd QuietEnds
