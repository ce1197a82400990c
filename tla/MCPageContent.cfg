CONSTANTS
    None = none
    Answer <- Answers
    Columns <- TableColumns
    Quota <- Quotas_
    Left = 2
    Right = 7
SPECIFICATION Spec
INVARIANTS
    TablesAreSorted
    TablesAreContent
    TooltipIsDay
    QuotasAgree
PROPERTIES
    TooltipIsHeld
