------------------------- MODULE MCMultipartUpload -------------------------
EXTENDS MultipartUpload
=============================================================================
