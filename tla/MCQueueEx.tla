------------------------------ MODULE MCQueueEx ------------------------------
\* A log of three sectors of three bytes, and texts of up to four bytes.
EXTENDS QueueEx

OneByte == {"byte"}
=============================================================================
