--------------------------- MODULE MCOpenAISession ---------------------------
\* Instances of OpenAISession for TLC.
EXTENDS OpenAISession
=============================================================================
