--------------------------- MODULE MCPongMatch3D ----------------------------
EXTENDS PongMatch3D
=============================================================================
