SPECIFICATION Spec
CONSTANT FallbackState = "return_required"
INVARIANTS IntentBeforeCommand NoCommandIsReplayed ResumedReceiptIsDurable
PROPERTY NoCommandAfterFallback
\* A process that finds a garbled journal cannot be restarted: the system may stop.
CHECK_DEADLOCK FALSE
