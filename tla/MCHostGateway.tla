---------------------------- MODULE MCHostGateway ----------------------------
EXTENDS HostGateway, TLC

Symmetry == Permutations(Sockets) \cup Permutations(Invocations)

=============================================================================
