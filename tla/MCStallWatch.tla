---------------------------- MODULE MCStallWatch ----------------------------
EXTENDS StallWatch, TLC

CONSTANTS w1, w2, m
=============================================================================
