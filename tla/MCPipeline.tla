------------------------------ MODULE MCPipeline ------------------------------
EXTENDS Pipeline
===============================================================================
