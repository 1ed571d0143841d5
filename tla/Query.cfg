\* Some sixty statements over small tables with NULLs and duplicates.  INT has three bits.
CONSTANTS
    MaxInt = 3
    ColType <- MCColType
    Inputs <- MCInputs
SPECIFICATION Spec
INVARIANT AnswersAsSQL
