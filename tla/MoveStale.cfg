SPECIFICATION Spec
CONSTANTS
  Notes <- MCNotes
  Canvases <- MCCanvases
  Jobs <- MCJobs
  Files <- MCFiles
  Calls = {c1, c2}
  Meddling = 0

PROPERTIES RewritesOnlyLinks
CHECK_DEADLOCK FALSE
