---------------------------- MODULE MCMLDatafeed ----------------------------
\* The datafeed resources on a small instance.
EXTENDS MLDatafeed
=============================================================================
