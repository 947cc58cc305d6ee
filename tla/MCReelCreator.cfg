\* One final render and one preview.
CONSTANTS
  Jobs = {final, preview}
  Finals = {final}
  MaxRequeues = 1
  MaxFailures = 2
  MaxAsks = 2
  NoJob = NoJob
SPECIFICATION RenderSpec
INVARIANTS OneEncoder
PROPERTIES CancelStopsTheExport RendersEnd
CHECK_DEADLOCK FALSE  \* with every job settled nothing has to happen
