------------------------ MODULE MCReconnectingSocket ------------------------
EXTENDS ReconnectingSocket
=============================================================================
