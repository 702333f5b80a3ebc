----------------------------- MODULE MCStartup -----------------------------
EXTENDS Startup
CONSTANTS p1, p2, p3, p4, p5, b1, a1, r1, r2, main
=============================================================================
