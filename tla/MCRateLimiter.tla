--------------------------- MODULE MCRateLimiter ---------------------------
EXTENDS RateLimiter, TLC

Symmetry == {p @@ q : p \in Permutations(Addresses), q \in Permutations(Requests)}

=============================================================================
