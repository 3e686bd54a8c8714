----------------------------- MODULE MCJobWait -----------------------------
EXTENDS JobWait
MCContents == Said
=============================================================================
