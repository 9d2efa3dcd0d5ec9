--------------------------- MODULE MCHdfsUploader ---------------------------
\* Instances of HdfsUploader for TLC.
EXTENDS HdfsUploader

CONSTANTS main, w1, w2, ckpt, tracker
=============================================================================
