----------------------------- MODULE MCPingPong ------------------------------
EXTENDS PingPong
MCProcs == Instances \X {"parent", "child"}
=============================================================================
