\* The application: the user pauses, resumes and closes the job.
SPECIFICATION FairSpec
CONSTANTS
  Controls <- AllControls
  Inputs <- AllInputs
INVARIANTS
  TypeOK
  StateTracksPipeline
  CompleteMeansEos
  NeverRestarted
  ClosedStaysStopped
PROPERTIES
  StartedJobEnds
CHECK_DEADLOCK FALSE
