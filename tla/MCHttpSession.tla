--------------------------- MODULE MCHttpSession ---------------------------
EXTENDS HttpSession, TLC

\* Sessions are interchangeable (for the safety runs; connections are not, as
\* FreshConn picks them in a fixed order).
Symmetry == Permutations(Sessions)
=============================================================================
