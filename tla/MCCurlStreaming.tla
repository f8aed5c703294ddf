---------------------------- MODULE MCCurlStreaming ----------------------------
EXTENDS CurlStreaming

MCSizeAnnounced == BOOLEAN
==============================================================================
