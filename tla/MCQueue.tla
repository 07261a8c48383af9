------------------------------ MODULE MCQueue -------------------------------
(* Small batches over one page, for the runs about the processing queue.    *)
EXTENDS ProcessingQueue, TLC

CONSTANTS b1, b2, p1

OcrAlone == [b \in Batch |-> {"ocr"}]
DerivedAlone == [b \in Batch |-> {"derived"}]
OcrThenDerived == [b \in Batch |-> {"ocr", "derived"}]
WholeChain == [b \in Batch |-> Kind]

=============================================================================
