--------------------------- MODULE MCBlobContent ---------------------------
EXTENDS BlobContent

\* The whole blob, and a range that may start or end behind it.
MCAsked == {<<0, Infinity>>, <<1, 2>>}
=============================================================================
