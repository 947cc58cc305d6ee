--------------------------- MODULE MCQueueRequests ---------------------------
EXTENDS QueueRequests
=============================================================================
