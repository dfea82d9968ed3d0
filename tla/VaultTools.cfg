SPECIFICATION MCSpec
CONSTANTS
  Notes <- MCNotes
  Canvases <- MCCanvases
  Jobs <- MCJobs
  Files <- MCFiles
  Calls = {c1, c2}
  Meddling = 1
INVARIANTS TypeOK
PROPERTIES NoLostUpdate AnswersAreIndexed MoveKeepsLinks EditsHold PatternsHold
SYMMETRY CallsAlike
CHECK_DEADLOCK FALSE
