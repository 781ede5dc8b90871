---------------------------- MODULE MCStreamClient ---------------------------
\* StreamClient with stream ids as model values.
EXTENDS StreamClient
=============================================================================
