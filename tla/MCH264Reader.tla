------------------------------ MODULE MCH264Reader ------------------------------
EXTENDS H264Reader
=============================================================================
