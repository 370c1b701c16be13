-------------------------- MODULE MCSubscriptions --------------------------
EXTENDS Subscriptions

CONSTANT t1
=============================================================================
