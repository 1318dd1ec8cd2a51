--------------------------- MODULE MCParticipantPool ---------------------------
EXTENDS ParticipantPool
=============================================================================
