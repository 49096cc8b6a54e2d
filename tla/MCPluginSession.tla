-------------------------- MODULE MCPluginSession --------------------------
EXTENDS PluginSession
=============================================================================
