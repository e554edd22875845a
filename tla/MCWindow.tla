----------------------------- MODULE MCWindow -----------------------------
EXTENDS Window
=============================================================================
