SPECIFICATION Spec
CONSTANT FallbackState = "return_required"
INVARIANT NoWriteMeansNoCommand
\* A process that finds a garbled journal cannot be restarted: the system may stop.
CHECK_DEADLOCK FALSE
