---------------------------- MODULE MCDesktopPage ----------------------------
EXTENDS DesktopPage, MCValues
=============================================================================
