------------------------- MODULE MCSerialDownload -------------------------
EXTENDS SerialDownload
=============================================================================
