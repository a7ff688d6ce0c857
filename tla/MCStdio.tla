------------------------------ MODULE MCStdio ------------------------------
EXTENDS Stdio

MCInputs == {<<>>, <<1, 10, 255, 1, 10>>}
=============================================================================
