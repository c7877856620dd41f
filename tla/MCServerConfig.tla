--------------------------- MODULE MCServerConfig ---------------------------
EXTENDS ServerConfig

MCPoolOf == [m \in Users |-> CHOOSE n \in Names : TRUE]

Spec == ServerInit /\ [][ServerNext]_serverVars
=============================================================================
