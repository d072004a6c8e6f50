--------------------------- MODULE MCSessionFiles ---------------------------
\* Model-checking instances of SessionFiles.
EXTENDS SessionFiles

\* A short session and a longer one; a file that is created is empty.
Lengths == {1, 2}
=============================================================================
