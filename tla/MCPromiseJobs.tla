--------------------------- MODULE MCPromiseJobs ---------------------------
EXTENDS PromiseJobs

\* Handlers in script on both sides, on one side, on none, and in Go.
MCHandlers == {<<"js", "js">>, <<"js", "none">>, <<"none", "none">>, <<"go", "go">>}
=============================================================================
