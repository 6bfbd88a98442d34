---------------------------- MODULE MCExpertLoad ----------------------------
EXTENDS ExpertLoad, MCModels
=============================================================================
