--------------------------- MODULE MCRunLifecycle ---------------------------
EXTENDS RunLifecycle
=============================================================================
