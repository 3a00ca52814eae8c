------------------------ MODULE MCProcurementClient ------------------------
\* A small instance of ProcurementClient for TLC.
EXTENDS ProcurementClient

\* One notice of the list does not parse.
MalformedItems == {2}
=============================================================================
