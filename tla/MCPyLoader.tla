-------------------- MODULE MCPyLoader --------------------
EXTENDS PyLoader, MCFiles
============================================================
