--------------------------- MODULE MCCodeWalkIter ---------------------------
EXTENDS CodeFile, MCCodeTree

\* Empty, text, and a signature, which is made of text too.
FileContents == { <<>>, <<"P", "P">>, <<"P", "P", "P">> }

Signatures == { <<"P", "P", "P">> }
=============================================================================
