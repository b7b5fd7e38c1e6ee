----------------------------- MODULE MCCdStream -----------------------------
EXTENDS CdStreamProperties
=============================================================================
