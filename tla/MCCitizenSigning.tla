-------------------------- MODULE MCCitizenSigning --------------------------
EXTENDS CitizenSigning
=============================================================================
