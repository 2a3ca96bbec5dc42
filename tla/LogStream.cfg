\* Two records in every order: what one leaves open, the next would close.
SPECIFICATION Spec
CONSTANTS
  Texts <- MCTexts
  Channels <- MCChannels
  Senders <- MCSenders
  Outcomes = {"zerohop", "dropped"}
  Counts <- MCCounts
  Repr <- MCRepr
  MaxRecords = 2
\* The bound on records.
CHECK_DEADLOCK FALSE
INVARIANTS OneLineEach ReadsBack
