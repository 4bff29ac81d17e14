---------------------------- MODULE MCPongOnline ----------------------------
EXTENDS PongOnline, TLC

DrawnServes == -1..1
=============================================================================
