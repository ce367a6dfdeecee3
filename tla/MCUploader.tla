----------------------------- MODULE MCUploader -----------------------------
\* A file of three chunks, two of them equal, for TLC.
EXTENDS Uploader

CONSTANTS x, y

MCLocal == <<x, y, x>>
=============================================================================
