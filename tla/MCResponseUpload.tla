--------------------------- MODULE MCResponseUpload ---------------------------
\* TLC instances of ResponseUpload: three verdicts, two of which share a blob.
EXTENDS ResponseUpload, TLC

CONSTANTS v1, v2, v3, b1, b2

SharedBlob == v1 :> b1 @@ v2 :> b1 @@ v3 :> b2
=============================================================================
