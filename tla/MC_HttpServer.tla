---------------------------- MODULE MC_HttpServer ----------------------------
EXTENDS HttpServer
=============================================================================
