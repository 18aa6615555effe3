SPECIFICATION FairSpec
CONSTANT FrameCounts <- MCFrameCounts
PROPERTY MismatchHoldsFrame
