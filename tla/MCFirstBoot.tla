----------------------------- MODULE MCFirstBoot ----------------------------
EXTENDS FirstBoot
=============================================================================
