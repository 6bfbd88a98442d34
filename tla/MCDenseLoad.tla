----------------------------- MODULE MCDenseLoad -----------------------------
EXTENDS DenseLoad, MCModels
=============================================================================
